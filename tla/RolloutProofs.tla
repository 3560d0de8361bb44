------------------------------ MODULE RolloutProofs ------------------------------
(***************************************************************************)
(* Theorems about Rollout, for every set of workers and agents, every      *)
(* batch size and every episode length: that a batch is complete and of    *)
(* one turn's depth, that the rollout implements TurnBudget, and which of  *)
(* its rows carry a utility and what GAE makes of them.                    *)
(***************************************************************************)
EXTENDS Rollout, Credit, AdvantageProofs, FiniteSetTheorems, FunctionTheorems, SequenceTheorems,
        TLAPS

-------------------------------------------------------------------------------
(* What the operators on rows build.                                       *)

\* A turn's row is a row.
LEMMA TurnRowType ==
    ASSUME TypeOK, NEW w \in Workers, NEW e \in EnvState,
           NEW ended \in BOOLEAN, NEW empty \in BOOLEAN
    PROVE  TurnRow(w, e, ended, empty) \in Row
<1>1. /\ agent[w] \in AgentIds /\ obs[w] \in Observation /\ slot[w] \in Nat
      /\ Len(outputs[w]) \in Nat
  BY DEF TypeOK, AgentIds
<1>2. e.episode \in Nat
  BY DEF EnvState
<1>3. (IF ended THEN 1 ELSE 0) \in Nat
  OBVIOUS
<1> QED
  BY <1>1, <1>2, <1>3 DEF TurnRow, Row

\* Routing utilities rewrites rows in place: it keeps their number, which of
\* them are bootstrap rows and the turns they were granted.
LEMMA RouteUtilitiesFacts ==
    ASSUME NEW rows \in Seq(Row), NEW last, NEW closer
    PROVE  LET r == RouteUtilities(rows, last, closer)
           IN  /\ r \in Seq(Row)
               /\ Len(r) = Len(rows)
               /\ \A i \in 1..Len(rows) : /\ r[i].boot = rows[i].boot
                                          /\ r[i].slot = rows[i].slot
<1> DEFINE r == RouteUtilities(rows, last, closer)
<1>1. DOMAIN rows = 1..Len(rows) /\ Len(rows) \in Nat
  OBVIOUS
<1>2. \A i \in 1..Len(rows) : /\ r[i] \in Row
                              /\ r[i].boot = rows[i].boot
                              /\ r[i].slot = rows[i].slot
  <2> SUFFICES ASSUME NEW i \in 1..Len(rows)
               PROVE  /\ r[i] \in Row
                      /\ r[i].boot = rows[i].boot
                      /\ r[i].slot = rows[i].slot
    OBVIOUS
  <2>1. rows[i] \in Row
    OBVIOUS
  <2>2. [rows[i] EXCEPT !.credit = @ + 1, !.done = TRUE] \in Row
    <3>1. rows[i].credit + 1 \in Nat
      BY <2>1 DEF Row
    <3>2. ASSUME NEW r0 \in Row, NEW c \in Nat
          PROVE  [r0 EXCEPT !.credit = c, !.done = TRUE] \in Row
      BY DEF Row
    <3> QED
      BY <2>1, <3>1, <3>2
  <2>3. r[i] = IF \E a \in Agents \ {closer} : last[a] = i
               THEN [rows[i] EXCEPT !.credit = @ + 1, !.done = TRUE]
               ELSE rows[i]
    BY <1>1 DEF RouteUtilities
  <2> QED
    BY <2>1, <2>2, <2>3 DEF Row
<1>3. r = [i \in 1..Len(rows) |-> r[i]]
  BY <1>1 DEF RouteUtilities
<1>4. r \in Seq(Row) /\ Len(r) = Len(rows)
  BY <1>1, <1>2, <1>3
<1> QED
  BY <1>2, <1>4

\* The bootstrap rows come after the rows there were, and are marked.
LEMMA WithBootstrapFacts ==
    ASSUME NEW rows \in Seq(Row), ~CannotBootstrap(rows), NEW credited
    PROVE  LET b == WithBootstrap(rows, credited)
           IN  /\ b \in Seq(Row)
               /\ Len(b) = Len(rows) + 3
               /\ \A i \in 1..Len(rows) : b[i] = rows[i]
               /\ \A i \in Len(rows) + 1 .. Len(b) : b[i].boot
<1> DEFINE boots == [k \in 1..Len(BootAgents) |->
                        BootstrapRow(rows, BootAgents[k], credited)]
           b == WithBootstrap(rows, credited)
<1>1. Len(BootAgents) = 3 /\ \A k \in 1..3 : BootAgents[k] \in AgentIds
  <2>1. Len(BootAgents) = 3
    BY DEF BootAgents
  <2> QED
    BY <2>1 DEF AgentIds
<1>2. Len(rows) \in Nat /\ rows[Len(rows)] \in Row
  BY DEF CannotBootstrap
<1>3. \A k \in 1..3 : boots[k] \in Row /\ boots[k].boot
  BY <1>1, <1>2 DEF BootstrapRow, Row
<1>4. boots \in Seq(Row) /\ Len(boots) = 3
  BY <1>1, <1>3
<1>5. b = rows \o boots
  BY DEF WithBootstrap
<1> HIDE DEF boots
<1>6. b \in Seq(Row) /\ Len(b) = Len(rows) + 3
  <2>1. rows \o boots \in Seq(Row) /\ Len(rows \o boots) = Len(rows) + Len(boots)
    BY <1>4, ConcatProperties
  <2> QED
    BY <1>4, <1>5, <2>1
<1>7. \A i \in 1..Len(rows) : b[i] = rows[i]
  BY <1>2, <1>4, <1>5
<1>8. \A i \in Len(rows) + 1 .. Len(b) : b[i].boot
  <2> SUFFICES ASSUME NEW i \in Len(rows) + 1 .. Len(b)
               PROVE  b[i].boot
    OBVIOUS
  <2>1. i - Len(rows) \in 1..3
    BY <1>2, <1>6
  <2>2. b[i] = boots[i - Len(rows)]
    BY <1>2, <1>4, <1>5, <1>6
  <2> QED
    BY <1>3, <2>1, <2>2
<1> QED
  BY <1>6, <1>7, <1>8

\* The environment wrapper keeps its type.
LEMMA EnvTypes ==
    ASSUME NEW e \in EnvState, NEW actor \in Agents, NEW active \in Agents,
           NEW terminated \in BOOLEAN
    PROVE  /\ Step(e, actor, active, terminated) \in EnvState
           /\ Ends(e, terminated) \in BOOLEAN
           /\ Reset(e, active) \in EnvState
           /\ GetLastObs(e) \in Observation
<1>1. Reset(e, active) \in EnvState
  BY DEF Reset, EnvState
<1>2. Ends(e, terminated) \in BOOLEAN
  BY DEF Ends, EnvState
<1>3. GetLastObs(e) \in Observation
  BY DEF GetLastObs, EnvState, Observation
<1>4. CASE e.done
  BY <1>1, <1>2, <1>3, <1>4 DEF Step
<1>5. CASE ~e.done
  <2>1. Step(e, actor, active, terminated) =
          [episode |-> e.episode, steps |-> e.steps + 1, active |-> active,
           done |-> Ends(e, terminated), acted |-> e.acted \cup {actor}]
    BY <1>5 DEF Step, EnvState
  <2>2. /\ e.episode \in Nat \ {0} /\ e.steps + 1 \in Nat
        /\ e.acted \cup {actor} \in SUBSET Agents
    BY DEF EnvState
  <2> QED
    BY <1>1, <1>2, <1>3, <2>1, <2>2 DEF EnvState
<1> QED
  BY <1>4, <1>5

\* A turn adds one real row, with the turn that was reserved for it, and leaves
\* the turns of the earlier rows alone.
LEMMA TurnRowsFacts ==
    ASSUME TypeOK, NEW w \in Workers, NEW e \in EnvState,
           NEW ended \in BOOLEAN, NEW empty \in BOOLEAN
    PROVE  LET r == TurnRows(w, e, ended, empty)
               n == Len(outputs[w])
           IN  /\ r \in Seq(Row)
               /\ Len(r) = n + 1
               /\ \A i \in 1..n : /\ r[i].boot = outputs[w][i].boot
                                  /\ r[i].slot = outputs[w][i].slot
               /\ ~r[n + 1].boot
               /\ r[n + 1].slot = slot[w]
<1> DEFINE row == TurnRow(w, e, ended, empty)
           rows == Append(outputs[w], row)
           r == TurnRows(w, e, ended, empty)
           n == Len(outputs[w])
<1>1. outputs[w] \in Seq(Row) /\ n \in Nat
  BY DEF TypeOK
<1>2. row \in Row
  BY TurnRowType
<1>3. ~row.boot /\ row.slot = slot[w]
  BY DEF TurnRow
<1> HIDE DEF row
<1>4. /\ rows \in Seq(Row) /\ Len(rows) = n + 1
      /\ \A i \in 1..n : rows[i] = outputs[w][i]
      /\ rows[n + 1] = row
  BY <1>1, <1>2, AppendProperties
<1> HIDE DEF rows
<1>5. r = IF ended THEN RouteUtilities(rows, lastRow[w], agent[w]) ELSE rows
  BY DEF TurnRows, rows, row
<1>6. CASE ~ended
  BY <1>1, <1>3, <1>4, <1>5, <1>6
<1>7. CASE ended
  <2> DEFINE q == RouteUtilities(rows, lastRow[w], agent[w])
  <2>1. /\ q \in Seq(Row) /\ Len(q) = Len(rows)
        /\ \A i \in 1..Len(rows) : q[i].boot = rows[i].boot /\ q[i].slot = rows[i].slot
    BY <1>4, RouteUtilitiesFacts
  <2>2. r = q
    BY <1>5, <1>7
  <2> HIDE DEF q, r
  <2>3. Len(r) = n + 1 /\ r \in Seq(Row)
    BY <1>4, <2>1, <2>2
  <2>4. \A i \in 1..n+1 : r[i].boot = rows[i].boot /\ r[i].slot = rows[i].slot
    BY <1>4, <2>1, <2>2
  <2>5. 1..n \subseteq 1..n+1 /\ n + 1 \in 1..n+1
    BY <1>1
  <2>6. \A i \in 1..n : r[i].boot = outputs[w][i].boot /\ r[i].slot = outputs[w][i].slot
    BY <1>4, <2>4, <2>5
  <2>7. ~r[n + 1].boot /\ r[n + 1].slot = slot[w]
    BY <1>3, <1>4, <2>4, <2>5
  <2> QED
    BY <2>3, <2>6, <2>7 DEF r
<1> QED
  BY <1>6, <1>7

\* Leaving the loop keeps the real rows and ends the worker.
LEMMA LeaveLoopFacts ==
    ASSUME TypeOK, NEW w \in Workers, NEW rows \in Seq(Row), NEW credited,
           LeaveLoop(w, rows, credited)
    PROVE  /\ \E l \in {"crashed", "finished"} : pc' = [pc EXCEPT ![w] = l]
           /\ \E new \in Seq(Row) :
                 /\ outputs' = [outputs EXCEPT ![w] = new]
                 /\ Len(new) >= Len(rows)
                 /\ \A i \in 1..Len(rows) : new[i] = rows[i]
                 /\ \A i \in Len(rows) + 1 .. Len(new) : new[i].boot
<1>1. CASE CannotBootstrap(rows)
  <2>1. /\ pc' = [pc EXCEPT ![w] = "crashed"]
        /\ outputs' = [outputs EXCEPT ![w] = rows]
    BY <1>1 DEF LeaveLoop
  <2>2. Len(rows) \in Nat
    OBVIOUS
  <2>3. /\ Len(rows) >= Len(rows)
        /\ \A i \in 1..Len(rows) : rows[i] = rows[i]
        /\ \A i \in Len(rows) + 1 .. Len(rows) : rows[i].boot
    BY <2>2
  <2>4. \E l \in {"crashed", "finished"} : pc' = [pc EXCEPT ![w] = l]
    BY <2>1
  <2> QED
    BY <2>1, <2>3, <2>4
<1>2. CASE ~CannotBootstrap(rows)
  <2> DEFINE new == WithBootstrap(rows, credited)
  <2>1. /\ pc' = [pc EXCEPT ![w] = "finished"]
        /\ outputs' = [outputs EXCEPT ![w] = new]
    BY <1>2 DEF LeaveLoop
  <2>2. /\ new \in Seq(Row) /\ Len(new) = Len(rows) + 3
        /\ \A i \in 1..Len(rows) : new[i] = rows[i]
        /\ \A i \in Len(rows) + 1 .. Len(new) : new[i].boot
    BY <1>2, WithBootstrapFacts
  <2> HIDE DEF new
  <2>3. Len(new) >= Len(rows)
    BY <2>2
  <2>4. \E l \in {"crashed", "finished"} : pc' = [pc EXCEPT ![w] = l]
    BY <2>1
  <2>5. new \in Seq(Row)
    BY <2>2
  <2> QED
    BY <2>1, <2>2, <2>3, <2>4, <2>5
<1> QED
  BY <1>1, <1>2

-------------------------------------------------------------------------------
(* Type correctness.                                                       *)

\* What a turn does to the variables, in the terms the invariants need: the
\* worker has one more real row, whatever it does next.
LEMMA TurnFacts ==
    ASSUME TypeOK, NEW w \in Workers, Turn(w)
    PROVE  /\ env' \in [Workers -> EnvState] /\ valEnv' \in [Workers -> EnvState]
           /\ agent' \in [Workers -> Agents] /\ obs' \in [Workers -> Observation]
           /\ lastRow' \in [Workers -> [Agents -> Nat]]
           /\ \E l \in {"reserve", "generate", "finished", "crashed"} :
                 /\ pc' = [pc EXCEPT ![w] = l]
                 /\ l = "generate" => Validation
                 /\ l \in {"finished", "crashed"} => fills[w] \/ Validation
           /\ \E new \in Seq(Row) :
                 LET n == Len(outputs[w])
                 IN  /\ outputs' = [outputs EXCEPT ![w] = new]
                     /\ Len(new) >= n + 1
                     /\ \A i \in 1..n : /\ new[i].boot = outputs[w][i].boot
                                        /\ new[i].slot = outputs[w][i].slot
                     /\ ~new[n + 1].boot
                     /\ new[n + 1].slot = slot[w]
                     /\ \A i \in n + 2 .. Len(new) : new[i].boot
<1> DEFINE before == CurrentEnv(w)
           After(active, t) == Step(before, agent[w], active, t)
           Leaves(t) == fills[w] \/ (Ends(before, t) /\ Validation)
           Rows(active, t, empty) == TurnRows(w, After(active, t), Ends(before, t), empty)
           n == Len(outputs[w])
<1>1. PICK active \in Agents, t \in BOOLEAN, empty \in EmptyResponses :
        \E e \in NextEnvs(After(active, t), Ends(before, t) /\ ~Leaves(t)) :
          /\ SetEnv(w, e)
          /\ agent' = [agent EXCEPT ![w] = e.active]
          /\ obs' = [obs EXCEPT ![w] = GetLastObs(e)]
          /\ lastRow' = [lastRow EXCEPT ![w] = TurnLastRow(w, Ends(before, t))]
          /\ IF Leaves(t)
             THEN LeaveLoop(w, Rows(active, t, empty), IF Validation THEN Agents ELSE {})
             ELSE /\ outputs' = [outputs EXCEPT ![w] = Rows(active, t, empty)]
                  /\ pc' = [pc EXCEPT ![w] = IF Validation THEN "generate" ELSE "reserve"]
  BY Zenon DEF Turn
<1>2. before \in EnvState /\ agent[w] \in Agents
  BY DEF CurrentEnv, TypeOK
<1>3. After(active, t) \in EnvState /\ Ends(before, t) \in BOOLEAN
  BY <1>2, EnvTypes
<1>4. PICK e \in NextEnvs(After(active, t), Ends(before, t) /\ ~Leaves(t)) :
          /\ SetEnv(w, e)
          /\ agent' = [agent EXCEPT ![w] = e.active]
          /\ obs' = [obs EXCEPT ![w] = GetLastObs(e)]
          /\ lastRow' = [lastRow EXCEPT ![w] = TurnLastRow(w, Ends(before, t))]
          /\ IF Leaves(t)
             THEN LeaveLoop(w, Rows(active, t, empty), IF Validation THEN Agents ELSE {})
             ELSE /\ outputs' = [outputs EXCEPT ![w] = Rows(active, t, empty)]
                  /\ pc' = [pc EXCEPT ![w] = IF Validation THEN "generate" ELSE "reserve"]
  BY <1>1
<1>5. e \in EnvState
  <2>1. e = After(active, t) \/ \E a \in Agents : e = Reset(After(active, t), a)
    BY <1>4 DEF NextEnvs
  <2> HIDE DEF After
  <2> QED
    BY <1>2, <1>3, <2>1, EnvTypes
<1>6. e.active \in Agents /\ GetLastObs(e) \in Observation
  BY <1>2, <1>5, EnvTypes DEF EnvState
<1>7. env' \in [Workers -> EnvState] /\ valEnv' \in [Workers -> EnvState]
  <2>1. env \in [Workers -> EnvState] /\ valEnv \in [Workers -> EnvState]
    BY DEF TypeOK
  <2>2. SetEnv(w, e)
    BY <1>4
  <2>3. CASE Validation
    BY <1>5, <2>1, <2>2, <2>3 DEF SetEnv
  <2>4. CASE ~Validation
    BY <1>5, <2>1, <2>2, <2>4 DEF SetEnv
  <2> QED
    BY <2>3, <2>4
<1>8. agent' \in [Workers -> Agents] /\ obs' \in [Workers -> Observation]
  BY <1>4, <1>6 DEF TypeOK
<1>9. lastRow' \in [Workers -> [Agents -> Nat]]
  <2>1. n + 1 \in Nat
    BY DEF TypeOK
  <2>2. lastRow[w] \in [Agents -> Nat] /\ NoRows \in [Agents -> Nat]
    BY DEF TypeOK, NoRows
  <2>3. [lastRow[w] EXCEPT ![agent[w]] = n + 1] \in [Agents -> Nat]
    BY <2>1, <2>2
  <2>4. TurnLastRow(w, Ends(before, t)) \in [Agents -> Nat]
    BY <2>2, <2>3 DEF TurnLastRow
  <2> QED
    BY <1>4, <2>4 DEF TypeOK
<1> DEFINE rows == Rows(active, t, empty)
<1>10. /\ rows \in Seq(Row) /\ Len(rows) = n + 1
       /\ \A i \in 1..n : /\ rows[i].boot = outputs[w][i].boot
                          /\ rows[i].slot = outputs[w][i].slot
       /\ ~rows[n + 1].boot /\ rows[n + 1].slot = slot[w]
  <2>1. empty \in BOOLEAN
    BY <1>1, EmptyResponsesAssumption
  <2> HIDE DEF After, before
  <2> QED
    BY <1>3, <2>1, TurnRowsFacts
<1> HIDE DEF rows, Rows, After, before
<1>11. n \in Nat
  BY DEF TypeOK
<1>12. CASE Leaves(t)
  <2>1. LeaveLoop(w, rows, IF Validation THEN Agents ELSE {})
    BY <1>4, <1>12 DEF rows
  <2>2. /\ \E l \in {"crashed", "finished"} : pc' = [pc EXCEPT ![w] = l]
        /\ \E new \in Seq(Row) :
              /\ outputs' = [outputs EXCEPT ![w] = new]
              /\ Len(new) >= Len(rows)
              /\ \A i \in 1..Len(rows) : new[i] = rows[i]
              /\ \A i \in Len(rows) + 1 .. Len(new) : new[i].boot
    BY <1>10, <2>1, LeaveLoopFacts
  <2>3. PICK l \in {"crashed", "finished"} : pc' = [pc EXCEPT ![w] = l]
    BY <2>2
  <2>4. PICK new \in Seq(Row) :
              /\ outputs' = [outputs EXCEPT ![w] = new]
              /\ Len(new) >= Len(rows)
              /\ \A i \in 1..Len(rows) : new[i] = rows[i]
              /\ \A i \in Len(rows) + 1 .. Len(new) : new[i].boot
    BY <2>2
  <2>5. Len(new) >= n + 1
    BY <1>10, <2>4
  <2>6. \A i \in 1..n : /\ new[i].boot = outputs[w][i].boot
                        /\ new[i].slot = outputs[w][i].slot
    BY <1>10, <1>11, <2>4, SMTT(20)
  <2>7. ~new[n + 1].boot /\ new[n + 1].slot = slot[w]
    BY <1>10, <1>11, <2>4
  <2>8. \A i \in n + 2 .. Len(new) : new[i].boot
    BY <1>10, <1>11, <2>4
  <2>9. \E k \in {"reserve", "generate", "finished", "crashed"} :
           /\ pc' = [pc EXCEPT ![w] = k]
           /\ k = "generate" => Validation
           /\ k \in {"finished", "crashed"} => fills[w] \/ Validation
    BY <1>12, <2>3
  <2> QED
    BY <1>7, <1>8, <1>9, <2>4, <2>5, <2>6, <2>7, <2>8, <2>9
<1>13. CASE ~Leaves(t)
  <2>1. /\ outputs' = [outputs EXCEPT ![w] = rows]
        /\ pc' = [pc EXCEPT ![w] = IF Validation THEN "generate" ELSE "reserve"]
    BY <1>4, <1>13 DEF rows
  <2>2. Len(rows) >= n + 1 /\ \A i \in n + 2 .. Len(rows) : rows[i].boot
    BY <1>10, <1>11
  <2>3. \E k \in {"reserve", "generate", "finished", "crashed"} :
           /\ pc' = [pc EXCEPT ![w] = k]
           /\ k = "generate" => Validation
           /\ k \in {"finished", "crashed"} => fills[w] \/ Validation
    BY <1>13, <2>1
  <2> QED
    BY <1>7, <1>8, <1>9, <1>10, <2>1, <2>2, <2>3
<1> QED
  BY <1>12, <1>13

\* The initial state has its type.
LEMMA TypeInit == Init => TypeOK
<1> SUFFICES ASSUME Init PROVE TypeOK
  OBVIOUS
<1>1. PICK active \in [Workers -> Agents] :
        /\ env = [w \in Workers |-> FirstReset(active[w])]
        /\ valEnv = env
        /\ agent = active
  BY DEF Init
<1>2. \A a \in Agents : FirstReset(a) \in EnvState
  BY DEF FirstReset, EnvState
<1>3. env \in [Workers -> EnvState] /\ valEnv \in [Workers -> EnvState]
  BY <1>1, <1>2
<1>4. obs \in [Workers -> Observation]
  BY DEF Init, Observation
<1>5. lastRow \in [Workers -> [Agents -> Nat]]
  BY DEF Init, NoRows
<1>6. outputs \in [Workers -> Seq(Row)]
  BY EmptySeq DEF Init
<1> QED
  BY <1>1, <1>3, <1>4, <1>5, <1>6 DEF Init, TypeOK

\* Begin keeps the types.
LEMMA BeginType ==
    ASSUME TypeOK, NEW w \in Workers, Begin(w)
    PROVE  TypeOK'
<1> DEFINE e == IF Validation THEN valEnv'[w] ELSE env[w]
<1>1. /\ env' \in [Workers -> EnvState] /\ valEnv' \in [Workers -> EnvState]
      /\ pc' \in [Workers -> {"start", "reserve", "generate", "finished", "crashed"}]
  <2>1. \A a \in Agents : Reset(valEnv[w], a) \in EnvState
    BY DEF TypeOK, Reset, EnvState
  <2>2. /\ env \in [Workers -> EnvState] /\ valEnv \in [Workers -> EnvState]
        /\ pc \in [Workers -> {"start", "reserve", "generate", "finished", "crashed"}]
    BY DEF TypeOK
  <2>3. CASE Validation
    <3>1. PICK a \in Agents : /\ valEnv' = [valEnv EXCEPT ![w] = Reset(@, a)]
                              /\ pc' = [pc EXCEPT ![w] = "generate"]
                              /\ UNCHANGED env
      BY <2>3 DEF Begin
    <3> QED
      BY <2>1, <2>2, <3>1
  <2>4. CASE ~Validation
    BY <2>2, <2>4 DEF Begin, envVars
  <2> QED
    BY <2>3, <2>4
<1>2. e \in EnvState
  BY <1>1 DEF TypeOK
<1>3. e.active \in Agents /\ GetLastObs(e) \in Observation
  BY <1>2 DEF EnvState, GetLastObs, Observation
<1>4. agent' = [agent EXCEPT ![w] = e.active] /\ obs' = [obs EXCEPT ![w] = GetLastObs(e)]
  BY DEF Begin
<1> HIDE DEF e
<1>5. agent' \in [Workers -> Agents] /\ obs' \in [Workers -> Observation]
  BY <1>3, <1>4 DEF TypeOK
<1>6. lastRow' \in [Workers -> [Agents -> Nat]]
  BY DEF TypeOK, Begin, NoRows
<1>7. outputs' \in [Workers -> Seq(Row)]
  BY EmptySeq DEF TypeOK, Begin
<1>8. slot' \in [Workers -> Nat] /\ fills' \in [Workers -> BOOLEAN]
  BY DEF TypeOK, Begin
<1>9. UNCHANGED <<phase, rollouts, counter>>
  BY DEF Begin, managerVars
<1> QED
  BY <1>1, <1>5, <1>6, <1>7, <1>8, <1>9 DEF TypeOK

\* Every step keeps the types.
LEMMA TypeStep == TypeOK /\ [Next]_vars => TypeOK'
<1> SUFFICES ASSUME TypeOK, [Next]_vars PROVE TypeOK'
  OBVIOUS
<1>1. ASSUME NEW mode \in {"train", "val"}, Dispatch(mode) PROVE TypeOK'
  <2>1. outputs' \in [Workers -> Seq(Row)]
    BY <1>1, EmptySeq DEF Dispatch
  <2>2. counter' \in [num_turns : Nat, batch_size : Nat]
    BY <1>1, BatchSizeAssumption DEF Dispatch
  <2>3. pc' \in [Workers -> {"start", "reserve", "generate", "finished", "crashed"}]
    BY <1>1 DEF Dispatch
  <2>4. phase' \in {"ready", "train", "val", "failed"} /\ rollouts' \in Nat
    BY <1>1 DEF Dispatch, TypeOK
  <2> QED
    BY <1>1, <2>1, <2>2, <2>3, <2>4 DEF Dispatch, TypeOK, envVars
<1>2. ASSUME NEW w \in Workers, WorkerStep(w) PROVE TypeOK'
  <2>1. CASE Begin(w)
    BY <2>1, BeginType
  <2>2. CASE Reserve(w)
    <3>1. counter' \in [num_turns : Nat, batch_size : Nat]
      <4>1. counter \in [num_turns : Nat, batch_size : Nat]
        BY DEF TypeOK
      <4>2. counter' = [num_turns |-> counter.num_turns + 1,
                        batch_size |-> counter.batch_size]
        BY <2>2, <4>1 DEF Reserve
      <4>3. counter.num_turns + 1 \in Nat /\ counter.batch_size \in Nat
        BY <4>1
      <4> QED
        BY <4>2, <4>3
    <3>2. slot' \in [Workers -> Nat]
      BY <2>2 DEF Reserve, TypeOK
    <3>3. fills' \in [Workers -> BOOLEAN]
      BY <2>2 DEF Reserve, TypeOK
    <3>4. pc' \in [Workers -> {"start", "reserve", "generate", "finished", "crashed"}]
      BY <2>2 DEF Reserve, TypeOK
    <3> QED
      BY <2>2, <3>1, <3>2, <3>3, <3>4 DEF Reserve, TypeOK, managerVars, envVars
  <2>3. CASE Rejected(w)
    <3>1. outputs[w] \in Seq(Row) /\ LeaveLoop(w, outputs[w], {})
      BY <2>3 DEF Rejected, TypeOK
    <3>2. /\ \E l \in {"crashed", "finished"} : pc' = [pc EXCEPT ![w] = l]
          /\ \E new \in Seq(Row) : outputs' = [outputs EXCEPT ![w] = new]
      BY <3>1, LeaveLoopFacts
    <3>3. pc' \in [Workers -> {"start", "reserve", "generate", "finished", "crashed"}]
      BY <3>2 DEF TypeOK
    <3>4. outputs' \in [Workers -> Seq(Row)]
      BY <3>2 DEF TypeOK
    <3> QED
      BY <2>3, <3>3, <3>4 DEF Rejected, TypeOK, managerVars, envVars
  <2>4. CASE Turn(w)
    <3>1. /\ env' \in [Workers -> EnvState] /\ valEnv' \in [Workers -> EnvState]
          /\ agent' \in [Workers -> Agents] /\ obs' \in [Workers -> Observation]
          /\ lastRow' \in [Workers -> [Agents -> Nat]]
          /\ \E l \in {"reserve", "generate", "finished", "crashed"} :
                pc' = [pc EXCEPT ![w] = l]
          /\ \E new \in Seq(Row) : outputs' = [outputs EXCEPT ![w] = new]
      BY <2>4, TurnFacts
    <3>2. pc' \in [Workers -> {"start", "reserve", "generate", "finished", "crashed"}]
      BY <3>1 DEF TypeOK
    <3>3. outputs' \in [Workers -> Seq(Row)]
      BY <3>1 DEF TypeOK
    <3>4. UNCHANGED <<phase, rollouts, counter, slot, fills>>
      BY <2>4 DEF Turn, managerVars
    <3> QED
      BY <3>1, <3>2, <3>3, <3>4 DEF TypeOK
  <2> QED
    BY <1>2, <2>1, <2>2, <2>3, <2>4 DEF WorkerStep
<1>3. CASE Gather
  BY <1>3 DEF Gather, TypeOK, envVars, loopVars
<1>4. CASE Fail
  BY <1>4 DEF Fail, TypeOK, envVars, loopVars
<1>5. CASE UNCHANGED vars
  BY <1>5 DEF vars, TypeOK, managerVars, envVars, loopVars
<1>6. CASE Stopped
  BY <1>5, <1>6 DEF Stopped
<1> QED
  BY <1>1, <1>2, <1>3, <1>4, <1>5, <1>6 DEF Next

\* Every variable of the rollout keeps its type, for every number of workers,
\* agents, turns and steps.
THEOREM TypeCorrect == Spec => []TypeOK
<1> QED
  BY TypeInit, TypeStep, PTL DEF Spec

-------------------------------------------------------------------------------
(* The turn budget.                                                        *)

\* The places of a well-typed state.
LEMMA PlacesFacts ==
    ASSUME TypeOK, NEW w \in Workers
    PROVE  /\ outputs[w] \in Seq(Row)
           /\ Len(outputs[w]) \in Nat
           /\ DOMAIN outputs[w] = 1..Len(outputs[w])
           /\ \A i : Holds(w, i) => i \in Places(w)
<1>1. outputs[w] \in Seq(Row)
  BY DEF TypeOK
<1>2. Len(outputs[w]) \in Nat /\ DOMAIN outputs[w] = 1..Len(outputs[w])
  BY <1>1
<1> QED
  BY <1>1, <1>2 DEF Holds, Places

\* Granting a turn to a worker that starts to generate.
LEMMA ReserveBudget ==
    ASSUME TypeOK, BudgetInv, NEW w \in Workers, Training, Reserve(w)
    PROVE  BudgetInv'
<1> DEFINE num == counter.num_turns
<1>1. /\ num \in Nat /\ counter.batch_size = BatchSize /\ BatchSize \in Nat
      /\ num + 1 <= BatchSize
  BY BatchSizeAssumption DEF TypeOK, BudgetInv, Reserve, Accepts
<1>2. /\ counter'.num_turns = num + 1 /\ counter'.batch_size = BatchSize
      /\ slot' = [slot EXCEPT ![w] = num + 1]
      /\ fills' = [fills EXCEPT ![w] = num + 1 >= BatchSize]
      /\ pc' = [pc EXCEPT ![w] = "generate"]
      /\ outputs' = outputs
      /\ phase' = phase
  BY <1>1 DEF Reserve, TypeOK, managerVars
<1>3. /\ slot \in [Workers -> Nat] /\ fills \in [Workers -> BOOLEAN]
      /\ pc \in [Workers -> {"start", "reserve", "generate", "finished", "crashed"}]
      /\ pc[w] = "reserve"
  BY DEF TypeOK, Reserve
<1>4. \A v \in Workers : Places(v)' = Places(v)
  BY <1>2 DEF Places
<1>5. \A v \in Workers, i \in Nat : v # w \/ i # 0 =>
         (Holds(v, i)' <=> Holds(v, i)) /\ TurnAt(v, i)' = TurnAt(v, i)
  BY <1>2, <1>3 DEF Holds, TurnAt
<1>6. Holds(w, 0)' /\ TurnAt(w, 0)' = num + 1 /\ ~Holds(w, 0)
  BY <1>2, <1>3 DEF Holds, TurnAt
<1>7. \A v \in Workers : Places(v) \subseteq Nat /\ 0 \in Places(v)
  BY PlacesFacts DEF Places
<1>8. TurnsHeldOnce
  BY DEF BudgetInv
<1>9. TurnsHeldOnce'
  <2>1. ASSUME NEW v \in Workers, NEW i \in Places(v), Holds(v, i)'
        PROVE  TurnAt(v, i)' \in 1..num + 1
    <3>1. CASE v = w /\ i = 0
      BY <1>1, <1>6, <3>1
    <3>2. CASE ~(v = w /\ i = 0)
      BY <1>1, <1>5, <1>7, <1>8, <2>1, <3>2 DEF TurnsHeldOnce
    <3> QED
      BY <3>1, <3>2
  <2>2. ASSUME NEW u \in Workers, NEW v \in Workers,
               NEW i \in Places(u), NEW j \in Places(v),
               Holds(u, i)', Holds(v, j)', TurnAt(u, i)' = TurnAt(v, j)'
        PROVE  u = v /\ i = j
    <3>1. i \in Nat /\ j \in Nat
      BY <1>7
    <3>2. \A x \in Workers : \A k \in Places(x) :
            Holds(x, k)' /\ (x # w \/ k # 0) => TurnAt(x, k)' # num + 1
      BY <1>1, <1>5, <1>7, <1>8 DEF TurnsHeldOnce
    <3>3. CASE u = w /\ i = 0
      BY <1>6, <2>2, <3>2, <3>3
    <3>4. CASE v = w /\ j = 0
      BY <1>6, <2>2, <3>2, <3>4
    <3>5. CASE ~(u = w /\ i = 0) /\ ~(v = w /\ j = 0)
      BY <1>5, <1>8, <2>2, <3>1, <3>5 DEF TurnsHeldOnce
    <3> QED
      BY <3>3, <3>4, <3>5
  <2>3. ASSUME NEW t \in 1..num + 1
        PROVE  \E v \in Workers : \E i \in Places(v) : Holds(v, i)' /\ TurnAt(v, i)' = t
    <3>1. CASE t = num + 1
      BY <1>6, <1>7, <3>1
    <3>2. CASE t # num + 1
      <4>1. t \in 1..num
        BY <1>1, <3>2
      <4>2. PICK v \in Workers : \E i \in Places(v) : Holds(v, i) /\ TurnAt(v, i) = t
        BY <1>8, <4>1 DEF TurnsHeldOnce
      <4>3. PICK i \in Places(v) : Holds(v, i) /\ TurnAt(v, i) = t
        BY <4>2
      <4>4. v # w \/ i # 0
        BY <1>6, <4>3
      <4> QED
        BY <1>5, <1>7, <4>3, <4>4
    <3> QED
      BY <3>1, <3>2
  <2> QED
    BY <1>2, <1>4, <2>1, <2>2, <2>3 DEF TurnsHeldOnce
<1>10. FullWhenLeaving'
  <2> SUFFICES ASSUME NEW v \in Workers,
                      pc'[v] = "finished" \/ (pc'[v] = "generate" /\ fills'[v])
               PROVE  num + 1 = BatchSize
    BY <1>2 DEF FullWhenLeaving
  <2>1. CASE v = w
    <3>1. pc'[w] = "generate"
      BY <1>2, <1>3
    <3>2. fills'[w]
      BY <2>1, <3>1
    <3>3. fills'[w] = (num + 1 >= BatchSize)
      BY <1>2, <1>3
    <3>4. num + 1 >= BatchSize
      BY <3>2, <3>3
    <3> QED
      BY <1>1, <3>4
  <2>2. CASE v # w
    <3>1. num = BatchSize
      BY <1>2, <1>3, <2>2 DEF BudgetInv, FullWhenLeaving
    <3> QED
      BY <1>1, <3>1
  <2> QED
    BY <2>1, <2>2
<1>11. \A v \in Workers : pc'[v] = "start" => outputs'[v] = <<>>
  BY <1>2, <1>3 DEF BudgetInv
<1> QED
  BY <1>1, <1>2, <1>9, <1>10, <1>11 DEF BudgetInv

\* Turning a reservation into a row, whatever becomes of the worker.
LEMMA TurnBudgetStep ==
    ASSUME TypeOK, BudgetInv, NEW w \in Workers, Training, Turn(w)
    PROVE  BudgetInv'
<1> DEFINE num == counter.num_turns
<1>0. PICK n \in Nat : n = Len(outputs[w])
  BY DEF TypeOK
<1>1. /\ pc[w] = "generate" /\ phase' = phase
      /\ counter' = counter /\ slot' = slot /\ fills' = fills
  BY DEF Turn, managerVars
<1>2. PICK l \in {"reserve", "finished", "crashed"} :
        /\ pc' = [pc EXCEPT ![w] = l]
        /\ l = "finished" => fills[w]
  BY TurnFacts DEF Training, Validation
<1>3. PICK new \in Seq(Row) :
        /\ outputs' = [outputs EXCEPT ![w] = new]
        /\ Len(new) >= n + 1
        /\ \A i \in 1..n : /\ new[i].boot = outputs[w][i].boot
                           /\ new[i].slot = outputs[w][i].slot
        /\ ~new[n + 1].boot
        /\ new[n + 1].slot = slot[w]
        /\ \A i \in n + 2 .. Len(new) : new[i].boot
  BY <1>0, TurnFacts
<1>4. /\ slot \in [Workers -> Nat] /\ outputs \in [Workers -> Seq(Row)]
      /\ pc \in [Workers -> {"start", "reserve", "generate", "finished", "crashed"}]
      /\ n \in Nat /\ num \in Nat
  BY DEF TypeOK
<1>5. \A v \in Workers \ {w} : /\ Places(v)' = Places(v)
                              /\ \A i \in Nat : /\ Holds(v, i)' <=> Holds(v, i)
                                               /\ TurnAt(v, i)' = TurnAt(v, i)
  BY <1>1, <1>2, <1>3, <1>4 DEF Places, Holds, TurnAt
<1>6. /\ outputs'[w] = new /\ Len(new) \in Nat /\ DOMAIN new = 1..Len(new)
      /\ DOMAIN outputs[w] = 1..n
  BY <1>0, <1>3, <1>4
<1>7. \A i \in 1..n : /\ Holds(w, i)' <=> Holds(w, i)
                      /\ TurnAt(w, i)' = TurnAt(w, i)
  BY <1>3, <1>4, <1>6 DEF Holds, TurnAt
<1>8. Holds(w, n + 1)' /\ TurnAt(w, n + 1)' = slot[w]
  <2>1. n + 1 # 0 /\ n + 1 \in DOMAIN new
    BY <1>3, <1>4, <1>6
  <2>2. n + 1 \in DOMAIN outputs'[w] /\ ~outputs'[w][n + 1].boot
    BY <1>3, <1>6, <2>1
  <2>3. outputs'[w][n + 1].slot = slot[w]
    BY <1>3, <1>6
  <2> QED
    BY <2>1, <2>2, <2>3 DEF Holds, TurnAt
<1>9. \A i \in Places(w)' : Holds(w, i)' => i \in 1..n+1
  <2> SUFFICES ASSUME NEW i \in 0..Len(new), Holds(w, i)'
               PROVE  i \in 1..n+1
    BY <1>6 DEF Places
  <2>1. i # 0
    BY <1>2, <1>4 DEF Holds
  <2>2. i \notin n + 2 .. Len(new)
    BY <1>3, <1>6, <2>1 DEF Holds
  <2> QED
    BY <1>4, <1>6, <2>1, <2>2
<1>10. Holds(w, 0) /\ TurnAt(w, 0) = slot[w]
  BY <1>1 DEF Holds, TurnAt
<1>11. /\ \A v \in Workers : Places(v) \subseteq Nat /\ 0 \in Places(v)
       /\ 1..n \subseteq Places(w) /\ 1..n \subseteq Places(w)'
       /\ n + 1 \in Places(w)' /\ n + 1 \notin 1..n
  BY <1>0, <1>3, <1>4, <1>6, PlacesFacts DEF Places
\* Where the turn held at a place of the new state was held before.
<1> DEFINE Was(v, i) == IF v = w /\ i = n + 1 THEN 0 ELSE i
<1>12. ASSUME NEW v \in Workers, NEW i \in Places(v)', Holds(v, i)'
       PROVE  /\ Was(v, i) \in Places(v)
              /\ Holds(v, Was(v, i)) /\ TurnAt(v, Was(v, i)) = TurnAt(v, i)'
              /\ i = (IF v = w /\ Was(v, i) = 0 THEN n + 1 ELSE Was(v, i))
  <2>1. CASE v # w
    <3>1. Was(v, i) = i
      BY <2>1
    <3>2. i \in Places(v) /\ i \in Nat
      BY <1>5, <1>11, <1>12, <2>1
    <3>3. Holds(v, i) /\ TurnAt(v, i) = TurnAt(v, i)'
      BY <1>5, <1>12, <2>1, <3>2
    <3> QED
      BY <2>1, <3>1, <3>2, <3>3
  <2>2. CASE v = w /\ i = n + 1
    <3>1. Was(v, i) = 0
      BY <2>2
    <3>2. TurnAt(v, 0) = TurnAt(v, i)'
      BY <1>8, <1>10, <2>2
    <3> QED
      BY <1>10, <1>11, <2>2, <3>1, <3>2
  <2>3. CASE v = w /\ i # n + 1
    <3>1. i \in 1..n
      BY <1>4, <1>9, <1>12, <2>3
    <3> QED
      BY <1>4, <1>7, <1>11, <1>12, <2>3, <3>1
  <2> QED
    BY <2>1, <2>2, <2>3
<1>13. TurnsHeldOnce
  BY DEF BudgetInv
<1>14. TurnsHeldOnce'
  <2>1. ASSUME NEW v \in Workers, NEW i \in Places(v)', Holds(v, i)'
        PROVE  TurnAt(v, i)' \in 1..num
    BY <1>12, <1>13, <2>1 DEF TurnsHeldOnce
  <2>2. ASSUME NEW u \in Workers, NEW v \in Workers,
               NEW i \in Places(u)', NEW j \in Places(v)',
               Holds(u, i)', Holds(v, j)', TurnAt(u, i)' = TurnAt(v, j)'
        PROVE  u = v /\ i = j
    <3>1. /\ Was(u, i) \in Places(u) /\ Holds(u, Was(u, i))
          /\ TurnAt(u, Was(u, i)) = TurnAt(u, i)'
          /\ i = (IF u = w /\ Was(u, i) = 0 THEN n + 1 ELSE Was(u, i))
      BY <1>12, <2>2
    <3>2. /\ Was(v, j) \in Places(v) /\ Holds(v, Was(v, j))
          /\ TurnAt(v, Was(v, j)) = TurnAt(v, j)'
          /\ j = (IF v = w /\ Was(v, j) = 0 THEN n + 1 ELSE Was(v, j))
      BY <1>12, <2>2
    <3> HIDE DEF Was
    <3>3. u = v /\ Was(u, i) = Was(v, j)
      BY <1>13, <2>2, <3>1, <3>2 DEF TurnsHeldOnce
    <3> QED
      BY <3>1, <3>2, <3>3
  <2>3. ASSUME NEW t \in 1..num
        PROVE  \E v \in Workers : \E i \in Places(v)' : Holds(v, i)' /\ TurnAt(v, i)' = t
    <3>1. PICK v \in Workers : \E i \in Places(v) : Holds(v, i) /\ TurnAt(v, i) = t
      BY <1>13 DEF TurnsHeldOnce
    <3>2. PICK i \in Places(v) : Holds(v, i) /\ TurnAt(v, i) = t
      BY <3>1
    <3>3. CASE v # w
      BY <1>5, <1>11, <3>2, <3>3
    <3>4. CASE v = w /\ i = 0
      BY <1>8, <1>10, <1>11, <3>2, <3>4
    <3>5. CASE v = w /\ i # 0
      <4>1. i \in 1..n
        BY <1>0, <1>4, <3>5 DEF Places
      <4>2. Holds(w, i)' /\ TurnAt(w, i)' = t
        BY <1>7, <3>2, <3>5, <4>1
      <4>3. i \in Places(w)'
        BY <1>11, <4>1
      <4> QED
        BY <3>5, <4>2, <4>3
    <3> QED
      BY <3>3, <3>4, <3>5
  <2> QED
    BY <1>1, <2>1, <2>2, <2>3 DEF TurnsHeldOnce
<1>15. FullWhenLeaving'
  <2> SUFFICES ASSUME NEW v \in Workers,
                      pc'[v] = "finished" \/ (pc'[v] = "generate" /\ fills[v])
               PROVE  num = BatchSize
    BY <1>1 DEF FullWhenLeaving
  <2>1. CASE v = w
    BY <1>1, <1>2, <1>4, <2>1 DEF BudgetInv, FullWhenLeaving
  <2>2. CASE v # w
    BY <1>2, <1>4, <2>2 DEF BudgetInv, FullWhenLeaving
  <2> QED
    BY <2>1, <2>2
<1>16. \A v \in Workers : pc'[v] = "start" => outputs'[v] = <<>>
  <2> SUFFICES ASSUME NEW v \in Workers, pc'[v] = "start"
               PROVE  outputs'[v] = <<>>
    OBVIOUS
  <2>1. v # w
    BY <1>2, <1>4
  <2> QED
    BY <1>2, <1>3, <1>4, <2>1 DEF BudgetInv
<1> QED
  BY <1>1, <1>14, <1>15, <1>16 DEF BudgetInv, Training

\* Leaving the loop on a full counter.
LEMMA RejectedBudget ==
    ASSUME TypeOK, BudgetInv, NEW w \in Workers, Training, Rejected(w)
    PROVE  BudgetInv'
<1> DEFINE num == counter.num_turns
<1>0. PICK n \in Nat : n = Len(outputs[w])
  BY DEF TypeOK
<1>1. /\ pc[w] = "reserve" /\ phase' = phase
      /\ counter' = counter /\ slot' = slot /\ fills' = fills
  BY DEF Rejected, managerVars
<1>2. /\ slot \in [Workers -> Nat] /\ outputs \in [Workers -> Seq(Row)]
      /\ pc \in [Workers -> {"start", "reserve", "generate", "finished", "crashed"}]
      /\ num \in Nat /\ DOMAIN outputs[w] = 1..n
  BY <1>0 DEF TypeOK
<1>3. num = BatchSize
  BY <1>2, BatchSizeAssumption DEF Rejected, Accepts, BudgetInv
<1>4. PICK l \in {"finished", "crashed"} : pc' = [pc EXCEPT ![w] = l]
  BY <1>2, LeaveLoopFacts DEF Rejected
<1>5. PICK new \in Seq(Row) :
        /\ outputs' = [outputs EXCEPT ![w] = new]
        /\ Len(new) >= n
        /\ \A i \in 1..n : new[i] = outputs[w][i]
        /\ \A i \in n + 1 .. Len(new) : new[i].boot
  BY <1>0, <1>2, LeaveLoopFacts DEF Rejected
<1>6. /\ outputs'[w] = new /\ Len(new) \in Nat /\ DOMAIN new = 1..Len(new)
  BY <1>2, <1>5
\* Every place holds what it held, and the places added hold no turn.
<1>7. \A v \in Workers : /\ Places(v) \subseteq Places(v)'
                         /\ \A i \in Places(v)' :
                               /\ Holds(v, i)' <=> i \in Places(v) /\ Holds(v, i)
                               /\ Holds(v, i)' => TurnAt(v, i)' = TurnAt(v, i)
  <2> SUFFICES ASSUME NEW v \in Workers
               PROVE  /\ Places(v) \subseteq Places(v)'
                      /\ \A i \in Places(v)' :
                            /\ Holds(v, i)' <=> i \in Places(v) /\ Holds(v, i)
                            /\ Holds(v, i)' => TurnAt(v, i)' = TurnAt(v, i)
    OBVIOUS
  <2>1. CASE v # w
    BY <1>1, <1>2, <1>4, <1>5, <2>1 DEF Places, Holds, TurnAt
  <2>2. CASE v = w
    <3>1. Places(v) = 0..n /\ Places(v)' = 0..Len(new)
      BY <1>0, <1>6, <2>2 DEF Places
    <3>2. Places(v) \subseteq Places(v)'
      BY <1>5, <1>6, <3>1
    <3>3. ~Holds(v, 0) /\ ~Holds(v, 0)'
      BY <1>1, <1>2, <1>4, <2>2 DEF Holds
    <3>4. \A i \in 1..n : (Holds(v, i)' <=> Holds(v, i)) /\ TurnAt(v, i)' = TurnAt(v, i)
      BY <1>2, <1>5, <1>6, <2>2 DEF Holds, TurnAt
    <3>5. \A i \in n + 1 .. Len(new) : ~Holds(v, i)'
      BY <1>5, <1>6, <2>2 DEF Holds
    <3>6. \A i \in 0..Len(new) : i = 0 \/ i \in 1..n \/ (i \in n + 1 .. Len(new) /\ i \notin 0..n)
      BY <1>6
    <3> QED
      BY <3>1, <3>2, <3>3, <3>4, <3>5, <3>6
  <2> QED
    BY <2>1, <2>2
<1>8. TurnsHeldOnce'
  BY <1>1, <1>7 DEF BudgetInv, TurnsHeldOnce
<1>9. FullWhenLeaving'
  BY <1>1, <1>3 DEF FullWhenLeaving
<1>10. \A v \in Workers : pc'[v] = "start" => outputs'[v] = <<>>
  BY <1>2, <1>4, <1>5 DEF BudgetInv
<1> QED
  BY <1>1, <1>8, <1>9, <1>10 DEF BudgetInv, Training

\* The remaining steps leave the turns and their places alone.
LEMMA QuietBudget ==
    ASSUME TypeOK, BudgetInv, Training', phase' = phase,
           UNCHANGED <<counter, outputs>>,
           \A v \in Workers : pc[v] # "start" => slot'[v] = slot[v] /\ fills'[v] = fills[v],
           NEW w \in Workers,
           \/ pc' = pc
           \/ pc[w] = "start" /\ pc' = [pc EXCEPT ![w] = "reserve"]
    PROVE  BudgetInv'
<1>1. Training
  BY DEF Training
<1>2. pc \in [Workers -> {"start", "reserve", "generate", "finished", "crashed"}]
  BY DEF TypeOK
<1>3. \A v \in Workers : /\ pc'[v] = "generate" <=> pc[v] = "generate"
                         /\ pc'[v] = "finished" <=> pc[v] = "finished"
                         /\ pc'[v] = "start" => pc[v] = "start"
  BY <1>2
<1>4. \A v \in Workers : /\ Places(v)' = Places(v)
                         /\ \A i \in Places(v) :
                               /\ Holds(v, i)' <=> Holds(v, i)
                               /\ Holds(v, i) => TurnAt(v, i)' = TurnAt(v, i)
  BY <1>3 DEF Places, Holds, TurnAt
<1>5. TurnsHeldOnce'
  <2>1. TurnsHeldOnce /\ counter' = counter
    BY <1>1 DEF BudgetInv
  <2>2. ASSUME NEW v \in Workers, NEW i \in Places(v), Holds(v, i)'
        PROVE  TurnAt(v, i)' \in 1..counter.num_turns
    BY <1>4, <2>1, <2>2 DEF TurnsHeldOnce
  <2>3. ASSUME NEW u \in Workers, NEW v \in Workers,
               NEW i \in Places(u), NEW j \in Places(v),
               Holds(u, i)', Holds(v, j)', TurnAt(u, i)' = TurnAt(v, j)'
        PROVE  u = v /\ i = j
    <3>1. Holds(u, i) /\ Holds(v, j) /\ TurnAt(u, i) = TurnAt(v, j)
      BY <1>4, <2>3
    <3> QED
      BY <2>1, <3>1 DEF TurnsHeldOnce
  <2>4. ASSUME NEW t \in 1..counter.num_turns
        PROVE  \E v \in Workers : \E i \in Places(v) : Holds(v, i)' /\ TurnAt(v, i)' = t
    <3>1. PICK v \in Workers : \E i \in Places(v) : Holds(v, i) /\ TurnAt(v, i) = t
      BY <2>1 DEF TurnsHeldOnce
    <3> QED
      BY <1>4, <3>1
  <2> QED
    BY <1>4, <2>1, <2>2, <2>3, <2>4 DEF TurnsHeldOnce
<1>6. FullWhenLeaving'
  BY <1>1, <1>3 DEF BudgetInv, FullWhenLeaving
<1> QED
  BY <1>1, <1>3, <1>5, <1>6 DEF BudgetInv

\* The budget invariant holds initially.
LEMMA BudgetInit == Init => BudgetInv
BY DEF Init, BudgetInv, Training

\* Every step preserves the budget invariant.
LEMMA BudgetStep == TypeOK /\ BudgetInv /\ [Next]_vars => BudgetInv'
<1> SUFFICES ASSUME TypeOK, BudgetInv, [Next]_vars, Training' PROVE BudgetInv'
  BY DEF BudgetInv
<1>1. ASSUME NEW mode \in {"train", "val"}, Dispatch(mode) PROVE BudgetInv'
  <2>1. /\ counter'.num_turns = 0 /\ counter'.batch_size = BatchSize
        /\ \A w \in Workers : outputs'[w] = <<>> /\ pc'[w] = "start"
    BY <1>1 DEF Dispatch
  <2>2. \A w \in Workers : \A i : ~Holds(w, i)'
    BY <2>1, EmptySeq DEF Holds
  <2>3. TurnsHeldOnce'
    BY <2>1, <2>2 DEF TurnsHeldOnce
  <2>4. FullWhenLeaving'
    BY <2>1 DEF FullWhenLeaving
  <2> QED
    BY <2>1, <2>3, <2>4, BatchSizeAssumption DEF BudgetInv
<1>2. ASSUME NEW w \in Workers, WorkerStep(w) PROVE BudgetInv'
  <2>1. CASE Begin(w)
    <3>1. /\ phase' = phase /\ counter' = counter /\ pc[w] = "start"
          /\ slot' = [slot EXCEPT ![w] = 0] /\ fills' = [fills EXCEPT ![w] = FALSE]
          /\ outputs' = [outputs EXCEPT ![w] = <<>>]
      BY <2>1 DEF Begin, managerVars
    <3>2. Training /\ ~Validation
      BY <3>1 DEF Training, Validation
    <3>3. pc' = [pc EXCEPT ![w] = "reserve"]
      BY <2>1, <3>2 DEF Begin
    <3>4. outputs' = outputs
      BY <3>1, <3>2 DEF BudgetInv, TypeOK
    <3>5. \A v \in Workers : pc[v] # "start" => slot'[v] = slot[v] /\ fills'[v] = fills[v]
      BY <3>1 DEF TypeOK
    <3> QED
      BY <3>1, <3>3, <3>4, <3>5, QuietBudget
  <2>2. CASE Reserve(w)
    BY <2>2, ReserveBudget DEF Reserve, managerVars, Training
  <2>3. CASE Rejected(w)
    BY <2>3, RejectedBudget DEF Rejected, managerVars, Training
  <2>4. CASE Turn(w)
    BY <2>4, TurnBudgetStep DEF Turn, managerVars, Training
  <2> QED
    BY <1>2, <2>1, <2>2, <2>3, <2>4 DEF WorkerStep
<1>3. CASE Gather
  BY <1>3 DEF Gather, Training
<1>4. CASE Fail
  BY <1>4 DEF Fail, Training
<1>5. CASE UNCHANGED vars
  <2>1. PICK w \in Workers : TRUE
    BY WorkersAssumption
  <2>2. UNCHANGED <<phase, counter, outputs, slot, fills, pc>>
    BY <1>5 DEF vars, managerVars, loopVars
  <2> QED
    BY <2>1, <2>2, QuietBudget
<1>6. CASE Stopped
  BY <1>5, <1>6 DEF Stopped
<1> QED
  BY <1>1, <1>2, <1>3, <1>4, <1>5, <1>6 DEF Next

\* In a training rollout the turns granted and the places that hold one
\* correspond one to one, for any number of workers and any batch size.
THEOREM BudgetCorrect == Spec => []BudgetInv
<1>1. Init => TypeOK /\ BudgetInv
  BY TypeInit, BudgetInit
<1>2. TypeOK /\ BudgetInv /\ [Next]_vars => (TypeOK /\ BudgetInv)'
  BY TypeStep, BudgetStep
<1> QED
  BY <1>1, <1>2, PTL DEF Spec

\* The places of TurnPlaces are those that hold a turn.
LEMMA TurnPlacesFacts ==
    ASSUME TypeOK
    PROVE  /\ \A p \in TurnPlaces : \E w \in Workers : \E i \in Places(w) :
                  p = <<w, i>> /\ Holds(w, i)
           /\ \A w \in Workers : \A i : Holds(w, i) => <<w, i>> \in TurnPlaces
<1>1. ASSUME NEW p \in TurnPlaces
      PROVE  \E w \in Workers : \E i \in Places(w) : p = <<w, i>> /\ Holds(w, i)
  <2>1. CASE p \in RealRows
    <3>1. PICK w \in Workers : p \in {<<w, i>> : i \in RealIndices(w)}
      BY <2>1 DEF RealRows
    <3>2. PICK i \in RealIndices(w) : p = <<w, i>>
      BY <3>1
    <3>3. i \in DOMAIN outputs[w] /\ ~outputs[w][i].boot /\ i # 0
      BY PlacesFacts DEF RealIndices
    <3>4. Holds(w, i) /\ i \in Places(w)
      BY <3>3, PlacesFacts DEF Holds
    <3> QED
      BY <3>2, <3>4
  <2>2. CASE p \notin RealRows
    <3>1. PICK w \in Workers : pc[w] = "generate" /\ p = <<w, 0>>
      BY <1>1, <2>2 DEF TurnPlaces
    <3>2. Holds(w, 0) /\ 0 \in Places(w)
      BY <3>1, PlacesFacts DEF Holds
    <3> QED
      BY <3>1, <3>2
  <2> QED
    BY <2>1, <2>2
<1>2. ASSUME NEW w \in Workers, NEW i, Holds(w, i)
      PROVE  <<w, i>> \in TurnPlaces
  <2>1. CASE i = 0
    BY <1>2, <2>1 DEF Holds, TurnPlaces
  <2>2. CASE i # 0
    <3>1. i \in RealIndices(w)
      BY <1>2, <2>2 DEF Holds, RealIndices
    <3> QED
      BY <3>1 DEF RealRows, TurnPlaces
  <2> QED
    BY <2>1, <2>2
<1> QED
  BY <1>1, <1>2

\* One-to-one correspondence is equality of cardinalities.
LEMMA CountTurns ==
    ASSUME TypeOK, BudgetInv, Training
    PROVE  Cardinality(TurnPlaces) = counter.num_turns
<1> DEFINE num == counter.num_turns
           F == [t \in 1..num |-> CHOOSE p \in TurnPlaces : TurnAt(p[1], p[2]) = t]
<1>1. num \in Nat /\ TurnsHeldOnce
  BY DEF TypeOK, BudgetInv
<1>2. ASSUME NEW t \in 1..num
      PROVE  F[t] \in TurnPlaces /\ TurnAt(F[t][1], F[t][2]) = t
  <2>1. PICK w \in Workers : \E i \in Places(w) : Holds(w, i) /\ TurnAt(w, i) = t
    BY <1>1 DEF TurnsHeldOnce
  <2>2. PICK i \in Places(w) : Holds(w, i) /\ TurnAt(w, i) = t
    BY <2>1
  <2>3. <<w, i>> \in TurnPlaces
    BY <2>2, TurnPlacesFacts
  <2>4. \E p \in TurnPlaces : TurnAt(p[1], p[2]) = t
    BY <2>2, <2>3
  <2> QED
    BY <2>4
<1> HIDE DEF F
<1>3. ASSUME NEW p \in TurnPlaces
      PROVE  TurnAt(p[1], p[2]) \in 1..num /\ F[TurnAt(p[1], p[2])] = p
  <2>1. PICK w \in Workers : \E i \in Places(w) : p = <<w, i>> /\ Holds(w, i)
    BY TurnPlacesFacts
  <2>2. PICK i \in Places(w) : p = <<w, i>> /\ Holds(w, i)
    BY <2>1
  <2>3. TurnAt(w, i) \in 1..num
    BY <1>1, <2>2 DEF TurnsHeldOnce
  <2> DEFINE q == F[TurnAt(w, i)]
  <2>4. q \in TurnPlaces /\ TurnAt(q[1], q[2]) = TurnAt(w, i)
    BY <1>2, <2>3
  <2> HIDE DEF q
  <2>5. PICK v \in Workers : \E j \in Places(v) : q = <<v, j>> /\ Holds(v, j)
    BY <2>4, TurnPlacesFacts
  <2>6. PICK j \in Places(v) : q = <<v, j>> /\ Holds(v, j)
    BY <2>5
  <2>7. v = w /\ j = i
    BY <1>1, <2>2, <2>4, <2>6 DEF TurnsHeldOnce
  <2> QED
    BY <2>2, <2>3, <2>6, <2>7 DEF q
<1>4. F \in Bijection(1..num, TurnPlaces)
  <2>1. F \in [1..num -> TurnPlaces]
    BY <1>2 DEF F
  <2>2. \A s, t \in 1..num : F[s] = F[t] => s = t
    BY <1>2
  <2>3. \A p \in TurnPlaces : \E t \in 1..num : F[t] = p
    BY <1>3
  <2> QED
    BY <2>1, <2>2, <2>3, Fun_IsBij
<1> QED
  BY <1>1, <1>4, FS_CountingElements DEF ExistsBijection

\* A training rollout never takes, or has under way, a turn it was not granted.
THEOREM NoOverrunHolds == Spec => []NoOverrun
<1>1. TypeOK /\ BudgetInv => NoOverrun
  BY CountTurns DEF NoOverrun, BudgetInv
<1> QED
  BY <1>1, TypeCorrect, BudgetCorrect, PTL

\* A training rollout that completes has exactly BatchSize real rows.
THEOREM ExactBatchHolds == Spec => []ExactBatch
<1>1. TypeOK /\ BudgetInv => ExactBatch
  <2> SUFFICES ASSUME TypeOK, BudgetInv, Training, AllFinished
               PROVE  Cardinality(RealRows) = BatchSize
    BY DEF ExactBatch
  <2>1. TurnPlaces = RealRows
    BY DEF TurnPlaces, AllFinished
  <2>2. counter.num_turns = BatchSize
    BY WorkersAssumption DEF BudgetInv, FullWhenLeaving, AllFinished
  <2> QED
    BY <2>1, <2>2, CountTurns
<1> QED
  BY <1>1, TypeCorrect, BudgetCorrect, PTL

-------------------------------------------------------------------------------
(* The workers act on what their environments show.                        *)

\* Every step leaves each worker with the observation its environment shows.
LEMMA ObsStep == TypeOK /\ ActsOnCurrentObs /\ [Next]_vars => ActsOnCurrentObs'
<1> SUFFICES ASSUME TypeOK, ActsOnCurrentObs, [Next]_vars,
                    NEW v \in Workers, (Training \/ Validation)',
                    pc'[v] \in {"reserve", "generate"}
             PROVE  agent'[v] = CurrentEnv(v)'.active /\ obs'[v] = GetLastObs(CurrentEnv(v)')
  BY DEF ActsOnCurrentObs, GetLastObs
<1> DEFINE Goal == agent'[v] = CurrentEnv(v)'.active /\ obs'[v] = GetLastObs(CurrentEnv(v)')
<1>0. /\ pc \in [Workers -> {"start", "reserve", "generate", "finished", "crashed"}]
      /\ agent \in [Workers -> Agents] /\ obs \in [Workers -> Observation]
      /\ env \in [Workers -> EnvState] /\ valEnv \in [Workers -> EnvState]
  BY DEF TypeOK
<1>1. ASSUME NEW mode \in {"train", "val"}, Dispatch(mode) PROVE Goal
  BY <1>1 DEF Dispatch
\* A step that leaves v's own variables alone.
<1>2. ASSUME phase' = phase, pc'[v] = pc[v], agent'[v] = agent[v], obs'[v] = obs[v],
             env'[v] = env[v], valEnv'[v] = valEnv[v]
      PROVE  Goal
  BY <1>2 DEF ActsOnCurrentObs, CurrentEnv, Training, Validation
<1>3. ASSUME NEW w \in Workers, WorkerStep(w) PROVE Goal
  <2>1. CASE Begin(w)
    <3>1. CASE v = w
      <4> DEFINE e == IF Validation THEN valEnv'[w] ELSE env[w]
      <4>1. /\ agent' = [agent EXCEPT ![w] = e.active]
            /\ obs' = [obs EXCEPT ![w] = GetLastObs(e)]
            /\ phase' = phase
        BY <2>1 DEF Begin, managerVars
      <4>2. ~Validation => env' = env
        BY <2>1 DEF Begin, envVars
      <4>3. CurrentEnv(w)' = e
        BY <4>1, <4>2 DEF CurrentEnv, Validation
      <4> HIDE DEF e
      <4> QED
        BY <1>0, <3>1, <4>1, <4>3
    <3>2. CASE v # w
      <4>1. /\ phase' = phase
            /\ \E l : pc' = [pc EXCEPT ![w] = l]
            /\ \E a : agent' = [agent EXCEPT ![w] = a]
            /\ \E o : obs' = [obs EXCEPT ![w] = o]
            /\ env' = env
            /\ valEnv' = valEnv \/ \E e : valEnv' = [valEnv EXCEPT ![w] = e]
        BY <2>1 DEF Begin, managerVars, envVars
      <4> QED
        BY <1>0, <1>2, <3>2, <4>1
    <3> QED
      BY <3>1, <3>2
  <2>2. CASE Reserve(w)
    <3>1. UNCHANGED <<phase, agent, obs, env, valEnv>> /\ pc[w] = "reserve"
          /\ pc' = [pc EXCEPT ![w] = "generate"]
      BY <2>2 DEF Reserve, managerVars, envVars
    <3>2. pc[v] \in {"reserve", "generate"}
      BY <1>0, <3>1
    <3> QED
      BY <3>1, <3>2 DEF ActsOnCurrentObs, CurrentEnv, Training, Validation
  <2>3. CASE Rejected(w)
    <3>1. UNCHANGED <<phase, agent, obs, env, valEnv>>
      BY <2>3 DEF Rejected, managerVars, envVars
    <3>2. \E l \in {"crashed", "finished"} : pc' = [pc EXCEPT ![w] = l]
      BY <2>3, LeaveLoopFacts DEF Rejected, TypeOK
    <3>3. v # w /\ pc'[v] = pc[v]
      BY <1>0, <3>2
    <3> QED
      BY <1>2, <3>1, <3>3
  <2>4. CASE Turn(w)
    <3>1. PICK e : /\ SetEnv(w, e)
                   /\ agent' = [agent EXCEPT ![w] = e.active]
                   /\ obs' = [obs EXCEPT ![w] = GetLastObs(e)]
      BY <2>4 DEF Turn
    <3>2. phase' = phase /\ \E l : pc' = [pc EXCEPT ![w] = l]
      BY <2>4, TurnFacts DEF Turn, managerVars
    <3>3. CASE v = w
      <4>1. CurrentEnv(w)' = e
        BY <1>0, <3>1, <3>2 DEF SetEnv, CurrentEnv, Validation
      <4> QED
        BY <1>0, <3>1, <3>3, <4>1
    <3>4. CASE v # w
      <4>1. env'[v] = env[v] /\ valEnv'[v] = valEnv[v]
        BY <1>0, <3>1, <3>4 DEF SetEnv
      <4> QED
        BY <1>0, <1>2, <3>1, <3>2, <3>4, <4>1
    <3> QED
      BY <3>3, <3>4
  <2> QED
    BY <1>3, <2>1, <2>2, <2>3, <2>4 DEF WorkerStep
<1>4. CASE Gather
  BY <1>4 DEF Gather, Training, Validation
<1>5. CASE Fail
  BY <1>5 DEF Fail, Training, Validation
<1>6. CASE UNCHANGED vars
  BY <1>2, <1>6 DEF vars, managerVars, envVars, loopVars
<1>7. CASE Stopped
  BY <1>6, <1>7 DEF Stopped
<1> QED
  BY <1>1, <1>3, <1>4, <1>5, <1>6, <1>7 DEF Next

\* In every rollout each worker acts as the agent whose turn it is, on the
\* current observation of its environment.
THEOREM ActsOnCurrentObsHolds == Spec => []ActsOnCurrentObs
<1>1. Init => ActsOnCurrentObs
  BY DEF Init, ActsOnCurrentObs, Training, Validation
<1> QED
  BY <1>1, ObsStep, TypeCorrect, PTL DEF Spec

-------------------------------------------------------------------------------
(* Rollout implements TurnBudget.                                          *)

\* The delivered turns are those of the real rows.
LEMMA DeliveredFacts ==
    ASSUME TypeOK
    PROVE  \A t : t \in DeliveredTurns <=>
              /\ Training
              /\ \E w \in Workers : \E i \in Places(w) :
                    i # 0 /\ Holds(w, i) /\ TurnAt(w, i) = t
<1>1. ASSUME NEW t, t \in DeliveredTurns
      PROVE  /\ Training
             /\ \E w \in Workers : \E i \in Places(w) :
                    i # 0 /\ Holds(w, i) /\ TurnAt(w, i) = t
  <2>1. Training
    BY <1>1 DEF DeliveredTurns
  <2>2. PICK x \in RealRows : t = outputs[x[1]][x[2]].slot
    BY <1>1, <2>1 DEF DeliveredTurns
  <2>3. PICK w \in Workers : x \in {<<w, i>> : i \in RealIndices(w)}
    BY DEF RealRows
  <2>4. PICK i \in RealIndices(w) : x = <<w, i>>
    BY <2>3
  <2>5. i \in DOMAIN outputs[w] /\ ~outputs[w][i].boot /\ i # 0
    BY PlacesFacts DEF RealIndices
  <2>6. Holds(w, i) /\ i \in Places(w) /\ TurnAt(w, i) = t
    BY <2>2, <2>4, <2>5, PlacesFacts DEF Holds, TurnAt
  <2> QED
    BY <2>1, <2>5, <2>6
<1>2. ASSUME NEW t, Training, NEW w \in Workers, NEW i \in Places(w),
             i # 0, Holds(w, i), TurnAt(w, i) = t
      PROVE  t \in DeliveredTurns
  <2>1. i \in RealIndices(w) /\ t = outputs[w][i].slot
    BY <1>2 DEF Holds, TurnAt, RealIndices
  <2>2. <<w, i>> \in RealRows
    BY <2>1 DEF RealRows
  <2> QED
    BY <1>2, <2>1, <2>2 DEF DeliveredTurns
<1> QED
  BY <1>1, <1>2

\* The delivered turns are the held turns that have a row.
DeliveredAreHeld ==
    \A t : t \in DeliveredTurns <=>
              /\ Training
              /\ \E w \in Workers : \E i \in Places(w) :
                    i # 0 /\ Holds(w, i) /\ TurnAt(w, i) = t

\* Delivered turns are held by rows.
LEMMA DeliveredHeld == TypeOK => DeliveredAreHeld
BY DeliveredFacts DEF DeliveredAreHeld

\* The same in the next state.
LEMMA DeliveredPrime ==
    ASSUME TypeOK'
    PROVE  \A t : t \in DeliveredTurns' <=>
              /\ Training'
              /\ \E w \in Workers : \E i \in Places(w)' :
                    i # 0 /\ Holds(w, i)' /\ TurnAt(w, i)' = t
<1>1. TypeOK' => DeliveredAreHeld'
  BY DeliveredHeld, PTL
<1> QED
  BY <1>1 DEF DeliveredAreHeld

\* A step that keeps the real rows keeps the delivered turns.
LEMMA SameDelivered ==
    ASSUME TypeOK, TypeOK', phase' = phase, NEW w \in Workers,
           \E new \in Seq(Row) :
              /\ outputs' = [outputs EXCEPT ![w] = new]
              /\ Len(new) >= Len(outputs[w])
              /\ \A i \in 1..Len(outputs[w]) : new[i] = outputs[w][i]
              /\ \A i \in Len(outputs[w]) + 1 .. Len(new) : new[i].boot
    PROVE  DeliveredTurns' = DeliveredTurns
<1>0. PICK n \in Nat : n = Len(outputs[w])
  BY DEF TypeOK
<1>1. PICK new \in Seq(Row) :
        /\ outputs' = [outputs EXCEPT ![w] = new] /\ Len(new) >= n
        /\ \A i \in 1..n : new[i] = outputs[w][i]
        /\ \A i \in n + 1 .. Len(new) : new[i].boot
  BY <1>0
<1>2. outputs \in [Workers -> Seq(Row)] /\ Len(new) \in Nat
  BY DEF TypeOK
<1>3. \A v \in Workers : RealIndices(v)' = RealIndices(v)
  <2> SUFFICES ASSUME NEW v \in Workers PROVE RealIndices(v)' = RealIndices(v)
    OBVIOUS
  <2>1. CASE v # w
    BY <1>1, <1>2, <2>1 DEF RealIndices
  <2>2. CASE v = w
    <3>1. DOMAIN outputs[w] = 1..n /\ outputs'[w] = new /\ DOMAIN new = 1..Len(new)
      BY <1>0, <1>1, <1>2
    <3>2. \A i \in 1..Len(new) : i \in 1..n \/ i \in n + 1 .. Len(new)
      BY <1>2
    <3>3. 1..n \subseteq 1..Len(new)
      BY <1>1, <1>2
    <3> QED
      BY <1>1, <2>2, <3>1, <3>2, <3>3 DEF RealIndices
  <2> QED
    BY <2>1, <2>2
<1>4. RealRows' = RealRows
  BY <1>3 DEF RealRows
<1>5. \A x \in RealRows : outputs'[x[1]][x[2]] = outputs[x[1]][x[2]]
  <2> SUFFICES ASSUME NEW x \in RealRows
               PROVE  outputs'[x[1]][x[2]] = outputs[x[1]][x[2]]
    OBVIOUS
  <2>1. PICK v \in Workers : x \in {<<v, i>> : i \in RealIndices(v)}
    BY DEF RealRows
  <2>2. PICK i \in RealIndices(v) : x = <<v, i>>
    BY <2>1
  <2>3. outputs'[v][i] = outputs[v][i]
    BY <1>0, <1>1, <1>2 DEF RealIndices
  <2> QED
    BY <2>2, <2>3
<1>6. Training' <=> Training
  BY DEF Training
<1>7. {outputs'[x[1]][x[2]].slot : x \in RealRows}
        = {outputs[x[1]][x[2]].slot : x \in RealRows}
  BY <1>5
<1>8. DeliveredTurns' = IF Training' THEN {outputs'[x[1]][x[2]].slot : x \in RealRows'} ELSE {}
  BY DEF DeliveredTurns
<1> QED
  BY <1>4, <1>6, <1>7, <1>8 DEF DeliveredTurns

\* A turn taken in training delivers the turn that was reserved for it.
LEMMA TurnDelivers ==
    ASSUME TypeOK, TypeOK', BudgetInv, Training, NEW w \in Workers, Turn(w)
    PROVE  /\ slot[w] \in GrantedTurns \ DeliveredTurns
           /\ DeliveredTurns' = DeliveredTurns \cup {slot[w]}
<1>0. PICK n \in Nat : n = Len(outputs[w])
  BY DEF TypeOK
<1>1. /\ pc[w] = "generate" /\ phase' = phase /\ counter' = counter /\ slot' = slot
      /\ TurnsHeldOnce /\ Training'
  BY DEF Turn, managerVars, BudgetInv, Training
<1>2. PICK new \in Seq(Row) :
        /\ outputs' = [outputs EXCEPT ![w] = new]
        /\ Len(new) >= n + 1
        /\ \A i \in 1..n : /\ new[i].boot = outputs[w][i].boot
                           /\ new[i].slot = outputs[w][i].slot
        /\ ~new[n + 1].boot
        /\ new[n + 1].slot = slot[w]
        /\ \A i \in n + 2 .. Len(new) : new[i].boot
  BY <1>0, TurnFacts
<1>3. outputs \in [Workers -> Seq(Row)] /\ Len(new) \in Nat
      /\ outputs'[w] = new /\ DOMAIN new = 1..Len(new) /\ DOMAIN outputs[w] = 1..n
  BY <1>0, <1>2 DEF TypeOK
<1>4. \A v \in Workers : 0 \in Places(v)
  BY PlacesFacts DEF Places
<1>5. Holds(w, 0) /\ TurnAt(w, 0) = slot[w]
  BY <1>1 DEF Holds, TurnAt
<1>6. slot[w] \in GrantedTurns
  BY <1>1, <1>4, <1>5 DEF TurnsHeldOnce, GrantedTurns
<1>7. slot[w] \notin DeliveredTurns
  <2> SUFFICES ASSUME NEW v \in Workers, NEW i \in Places(v),
                      i # 0, Holds(v, i), TurnAt(v, i) = slot[w]
               PROVE  FALSE
    BY DeliveredFacts
  <2> QED
    BY <1>1, <1>4, <1>5 DEF TurnsHeldOnce
<1>8. \A v \in Workers \ {w} : \A i \in Places(v) :
         /\ Places(v)' = Places(v)
         /\ i # 0 => (Holds(v, i)' <=> Holds(v, i)) /\ TurnAt(v, i)' = TurnAt(v, i)
  BY <1>2, <1>3 DEF Places, Holds, TurnAt
<1>9. \A i \in 1..n : (Holds(w, i)' <=> Holds(w, i)) /\ TurnAt(w, i)' = TurnAt(w, i)
  BY <1>2, <1>3 DEF Holds, TurnAt
<1>10. n + 1 \in Places(w)' /\ Holds(w, n + 1)' /\ TurnAt(w, n + 1)' = slot[w]
  <2>1. n + 1 # 0 /\ n + 1 \in 1..Len(new)
    BY <1>2, <1>3
  <2> QED
    BY <1>2, <1>3, <2>1 DEF Places, Holds, TurnAt
<1>11. /\ \A i \in Places(w) : i # 0 => i \in 1..n
       /\ \A i \in Places(w)' : i # 0 /\ Holds(w, i)' => i \in 1..n \/ i = n + 1
       /\ 1..n \subseteq Places(w) /\ 1..n \subseteq Places(w)' /\ 0 \notin 1..n
  <2>1. Places(w) = 0..n /\ Places(w)' = 0..Len(new)
    BY <1>0, <1>3 DEF Places
  <2>2. \A i \in n + 2 .. Len(new) : i # 0 /\ ~Holds(w, i)'
    BY <1>2, <1>3 DEF Holds
  <2>3. \A i \in 0..Len(new) : i = 0 \/ i \in 1..n \/ i = n + 1 \/ i \in n + 2 .. Len(new)
    BY <1>3
  <2>4. \A i \in 0..n : i # 0 => i \in 1..n
    OBVIOUS
  <2>5. 1..n \subseteq 0..n /\ 1..n \subseteq 0..Len(new) /\ 0 \notin 1..n
    BY <1>2, <1>3
  <2> QED
    BY <2>1, <2>2, <2>3, <2>4, <2>5
<1>12. ASSUME NEW t, t \in DeliveredTurns'
       PROVE  t \in DeliveredTurns \cup {slot[w]}
  <2>1. \E v \in Workers : \E i \in Places(v)' : i # 0 /\ Holds(v, i)' /\ TurnAt(v, i)' = t
    BY <1>12, DeliveredPrime
  <2>2. PICK v \in Workers : \E i \in Places(v)' : i # 0 /\ Holds(v, i)' /\ TurnAt(v, i)' = t
    BY <2>1
  <2>3. PICK i \in Places(v)' : i # 0 /\ Holds(v, i)' /\ TurnAt(v, i)' = t
    BY <2>2
  <2>4. CASE v # w
    <3>1. i \in Places(v) /\ Holds(v, i) /\ TurnAt(v, i) = t
      BY <1>4, <1>8, <2>3, <2>4
    <3> QED
      BY <2>3, <3>1, DeliveredFacts
  <2>5. CASE v = w /\ i = n + 1
    BY <1>10, <2>3, <2>5
  <2>6. CASE v = w /\ i # n + 1
    <3>1. i \in 1..n
      BY <1>11, <2>3, <2>6
    <3>2. i \in Places(w) /\ Holds(w, i) /\ TurnAt(w, i) = t
      BY <1>9, <1>11, <2>3, <2>6, <3>1
    <3> QED
      BY <2>3, <3>2, DeliveredFacts
  <2> QED
    BY <2>4, <2>5, <2>6
<1>13. ASSUME NEW t, t \in DeliveredTurns \cup {slot[w]}
       PROVE  t \in DeliveredTurns'
  <2>1. CASE t = slot[w]
    <3>1. n + 1 # 0
      OBVIOUS
    <3> QED
      BY <1>1, <1>10, <2>1, <3>1, DeliveredPrime
  <2>2. CASE t \in DeliveredTurns
    <3>1. PICK v \in Workers : \E i \in Places(v) : i # 0 /\ Holds(v, i) /\ TurnAt(v, i) = t
      BY <2>2, DeliveredFacts
    <3>2. PICK i \in Places(v) : i # 0 /\ Holds(v, i) /\ TurnAt(v, i) = t
      BY <3>1
    <3>3. i \in Places(v)' /\ Holds(v, i)' /\ TurnAt(v, i)' = t
      BY <1>8, <1>9, <1>11, <3>2
    <3> QED
      BY <1>1, <3>2, <3>3, DeliveredPrime
  <2> QED
    BY <1>13, <2>1, <2>2
<1> QED
  BY <1>6, <1>7, <1>12, <1>13

\* Every step of a rollout is a step of TurnBudget or changes nothing it sees.
LEMMA BudgetSimulation ==
    TypeOK /\ TypeOK' /\ BudgetInv /\ [Next]_vars => [Budget!Next]_(Budget!vars)
<1> SUFFICES ASSUME TypeOK, TypeOK', BudgetInv, [Next]_vars
             PROVE  [Budget!Next]_(Budget!vars)
  OBVIOUS
<1> DEFINE Same == /\ Training' = Training /\ GrantedTurns' = GrantedTurns
                   /\ DeliveredTurns' = DeliveredTurns
                   /\ (phase = "failed")' = (phase = "failed")
<1>0. Same => [Budget!Next]_(Budget!vars)
  BY DEF Budget!vars
<1>1. ASSUME NEW mode \in {"train", "val"}, Dispatch(mode)
      PROVE  [Budget!Next]_(Budget!vars)
  <2>1. ~Training /\ phase # "failed" /\ phase' = mode /\ counter'.num_turns = 0
        /\ outputs' = [w \in Workers |-> <<>>]
    BY <1>1 DEF Dispatch, Training
  <2>2. GrantedTurns = {} /\ DeliveredTurns = {}
    BY <2>1 DEF GrantedTurns, DeliveredTurns
  <2>3. RealRows' = {}
    BY <2>1, EmptySeq DEF RealRows, RealIndices
  <2>4. GrantedTurns' = {} /\ DeliveredTurns' = {}
    BY <2>1, <2>3 DEF GrantedTurns, DeliveredTurns
  <2>5. CASE mode = "train"
    <3>1. Training' /\ phase' # "failed"
      BY <2>1, <2>5 DEF Training
    <3>2. Budget!Open
      BY <2>1, <2>2, <2>4, <3>1 DEF Budget!Open
    <3> QED
      BY <3>2 DEF Budget!Next
  <2>6. CASE mode = "val"
    BY <1>0, <2>1, <2>2, <2>4, <2>6 DEF Training
  <2> QED
    BY <2>5, <2>6
<1>2. ASSUME NEW w \in Workers, WorkerStep(w)
      PROVE  [Budget!Next]_(Budget!vars)
  <2>0. phase' = phase
    BY <1>2 DEF WorkerStep, Begin, Reserve, Rejected, Turn, managerVars
  <2>1. CASE ~Training
    BY <1>0, <2>0, <2>1 DEF Training, GrantedTurns, DeliveredTurns
  <2>2. CASE Training /\ Begin(w)
    <3>1. counter' = counter /\ outputs' = [outputs EXCEPT ![w] = <<>>] /\ pc[w] = "start"
      BY <2>2 DEF Begin
    <3>2. outputs' = outputs
      BY <2>2, <3>1 DEF BudgetInv, TypeOK
    <3>3. DeliveredTurns' = DeliveredTurns
      BY <2>0, <3>2 DEF Training, DeliveredTurns, RealRows, RealIndices
    <3>4. GrantedTurns' = GrantedTurns
      BY <2>0, <3>1 DEF Training, GrantedTurns
    <3> QED
      BY <1>0, <2>0, <3>3, <3>4 DEF Training
  <2>3. CASE Training /\ Reserve(w)
    <3>1. counter'.num_turns = counter.num_turns + 1 /\ outputs' = outputs
      BY <2>3 DEF Reserve, TypeOK
    <3>2. DeliveredTurns' = DeliveredTurns /\ Training'
      BY <2>0, <2>3, <3>1 DEF DeliveredTurns, RealRows, RealIndices, Training
    <3>3. counter.num_turns \in Nat /\ counter.num_turns + 1 <= BatchSize /\ BatchSize \in Nat
      BY <2>3, BatchSizeAssumption DEF Reserve, Accepts, BudgetInv, TypeOK
    <3>4. GrantedTurns = 1..counter.num_turns /\ GrantedTurns' = 1..counter.num_turns + 1
      BY <2>3, <3>1, <3>2 DEF GrantedTurns
    <3>5. counter.num_turns + 1 \in 1..BatchSize \ GrantedTurns
      BY <3>3, <3>4
    <3>6. GrantedTurns' = GrantedTurns \cup {counter.num_turns + 1}
      BY <3>3, <3>4
    <3>7. Budget!Grant
      BY <2>0, <2>3, <3>2, <3>5, <3>6 DEF Budget!Grant
    <3> QED
      BY <3>7 DEF Budget!Next
  <2>4. CASE Training /\ Rejected(w)
    <3>1. counter' = counter /\ outputs[w] \in Seq(Row) /\ LeaveLoop(w, outputs[w], {})
      BY <2>4 DEF Rejected, TypeOK
    <3>2. DeliveredTurns' = DeliveredTurns
      BY <2>0, <3>1, LeaveLoopFacts, SameDelivered
    <3> QED
      BY <1>0, <2>0, <3>1, <3>2 DEF Training, GrantedTurns
  <2>5. CASE Training /\ Turn(w)
    <3>1. counter' = counter
      BY <2>5 DEF Turn
    <3>2. /\ slot[w] \in GrantedTurns \ DeliveredTurns
          /\ DeliveredTurns' = DeliveredTurns \cup {slot[w]}
      BY <2>5, TurnDelivers
    <3>3. Training' /\ GrantedTurns' = GrantedTurns
      BY <2>0, <2>5, <3>1 DEF Training, GrantedTurns
    <3>4. Budget!Deliver
      BY <2>0, <2>5, <3>2, <3>3 DEF Budget!Deliver
    <3> QED
      BY <3>4 DEF Budget!Next
  <2> QED
    BY <1>2, <2>1, <2>2, <2>3, <2>4, <2>5 DEF WorkerStep
<1>3. CASE Gather
  <2>1. phase # "failed" /\ phase' = "ready"
    BY <1>3 DEF Gather
  <2>2. CASE Training
    <3>1. GrantedTurns' = {} /\ DeliveredTurns' = {} /\ ~Training'
      BY <2>1 DEF Training, GrantedTurns, DeliveredTurns
    <3>2. counter.num_turns = BatchSize /\ TurnsHeldOnce
      BY <1>3, <2>2, WorkersAssumption DEF Gather, AllFinished, BudgetInv, FullWhenLeaving
    <3>3. \A w \in Workers : ~Holds(w, 0)
      BY <1>3 DEF Gather, AllFinished, Holds
    <3>4. ASSUME NEW t \in 1..BatchSize PROVE t \in DeliveredTurns
      <4>1. PICK w \in Workers : \E i \in Places(w) : Holds(w, i) /\ TurnAt(w, i) = t
        BY <3>2 DEF TurnsHeldOnce
      <4>2. PICK i \in Places(w) : Holds(w, i) /\ TurnAt(w, i) = t
        BY <4>1
      <4> QED
        BY <2>2, <3>3, <4>2, DeliveredFacts
    <3>5. ASSUME NEW t, t \in DeliveredTurns PROVE t \in 1..BatchSize
      <4>1. PICK w \in Workers : \E i \in Places(w) : Holds(w, i) /\ TurnAt(w, i) = t
        BY <3>5, DeliveredFacts
      <4> QED
        BY <3>2, <4>1 DEF TurnsHeldOnce
    <3>6. DeliveredTurns = 1..BatchSize
      BY <3>4, <3>5
    <3>7. Budget!Close
      BY <2>1, <2>2, <3>1, <3>6 DEF Budget!Close
    <3> QED
      BY <3>7 DEF Budget!Next
  <2>3. CASE ~Training
    BY <1>0, <2>1, <2>3 DEF Training, GrantedTurns, DeliveredTurns
  <2> QED
    BY <2>2, <2>3
<1>4. CASE Fail
  <2>1. phase # "failed" /\ phase' = "failed"
    BY <1>4 DEF Fail
  <2>2. ~Training' /\ GrantedTurns' = {} /\ DeliveredTurns' = {}
    BY <2>1 DEF Training, GrantedTurns, DeliveredTurns
  <2>3. Budget!Abort
    BY <2>1, <2>2 DEF Budget!Abort, Training
  <2> QED
    BY <2>3 DEF Budget!Next
<1>5. CASE UNCHANGED vars
  <2>1. UNCHANGED <<phase, counter, outputs>>
    BY <1>5 DEF vars, managerVars, loopVars
  <2> QED
    BY <1>0, <2>1 DEF Training, GrantedTurns, DeliveredTurns, RealRows, RealIndices
<1>6. CASE Stopped
  BY <1>5, <1>6 DEF Stopped
<1> QED
  BY <1>1, <1>2, <1>3, <1>4, <1>5, <1>6 DEF Next

\* The rollout keeps TurnBudget's promise.
THEOREM RolloutRefinesTurnBudget == Spec => BudgetSpec
<1>1. Init => Budget!Init
  BY DEF Init, Budget!Init, Training, GrantedTurns, DeliveredTurns
<1>2. TypeOK /\ TypeOK' /\ BudgetInv /\ [Next]_vars => [Budget!Next]_(Budget!vars)
  BY BudgetSimulation
<1> QED
  BY <1>1, <1>2, TypeCorrect, BudgetCorrect, PTL DEF Spec, BudgetSpec, Budget!Spec

-------------------------------------------------------------------------------
(* The rows of a worker in terms of its environment e.                     *)

Latest(rows, i) ==
    \A j \in DOMAIN rows :
        rows[j].agent = rows[i].agent /\ rows[j].episode = rows[i].episode => j <= i

Paid(rows, i, e) == Over(e, rows[i].episode) /\ Latest(rows, i)

\* Rows of turns, in order.
Real(rows) ==
    \A i \in DOMAIN rows : ~rows[i].boot /\ rows[i].agent \in Agents /\ rows[i].turn_id = i - 1

\* Of each agent's rows of an episode, the last is credited when it is over; no
\* row of an episode comes before one of an earlier episode.
Credited(rows, e) ==
    /\ Real(rows)
    /\ \A i \in DOMAIN rows : rows[i].episode <= e.episode
    /\ \A i, j \in DOMAIN rows : i <= j => rows[i].episode <= rows[j].episode
    /\ \A i \in DOMAIN rows :
          /\ rows[i].credit = IF Paid(rows, i, e) THEN 1 ELSE 0
          /\ rows[i].done <=> Paid(rows, i, e)
    /\ \A i \in DOMAIN rows : Over(e, rows[i].episode) =>
          \E k \in DOMAIN rows :
              /\ i <= k /\ rows[k].done
              /\ rows[k].agent = rows[i].agent /\ rows[k].episode = rows[i].episode

\* episode_last_row has the last row of every agent that has one in the episode
\* that is played.
Known(rows, e, last) ==
    /\ \A a \in Agents :
          \/ /\ last[a] = 0
             /\ \A i \in DOMAIN rows : ~(rows[i].agent = a /\ rows[i].episode = e.episode)
          \/ /\ last[a] \in DOMAIN rows /\ Latest(rows, last[a])
             /\ rows[last[a]].agent = a /\ rows[last[a]].episode = e.episode
    /\ e.done => \A i \in DOMAIN rows : rows[i].episode # e.episode

LEMMA AppendFacts ==
    ASSUME NEW rows \in Seq(Row), NEW row \in Row
    PROVE  LET new == Append(rows, row)
               n == Len(rows)
           IN  /\ new \in Seq(Row) /\ n \in Nat /\ Len(new) = n + 1
               /\ DOMAIN rows = 1..n /\ DOMAIN new = 1..(n + 1)
               /\ \A i \in 1..n : i \in 1..(n + 1) /\ new[i] = rows[i]
               /\ n + 1 \in 1..(n + 1) /\ new[n + 1] = row
               /\ \A i \in 1..(n + 1) : i \in 1..n \/ i = n + 1
               /\ \A i \in 1..n : i <= n + 1 /\ ~(n + 1 <= i)
               /\ n + 1 <= n + 1 /\ (n + 1) - 1 = n
<1> DEFINE n == Len(rows)
<1>1. n \in Nat
  OBVIOUS
<1>2. \A i \in 1..(n + 1) : i \in 1..n \/ i = n + 1
  BY <1>1
<1> QED
  BY <1>1, <1>2, AppendProperties

\* A row's number and episode.
LEMMA RowTypes ==
    ASSUME NEW rows \in Seq(Row), NEW i \in DOMAIN rows
    PROVE  /\ rows[i] \in Row /\ rows[i].episode \in Nat /\ rows[i].done \in BOOLEAN
           /\ rows[i].credit \in Nat /\ rows[i].turn_id \in Nat /\ i \in Nat
<1>1. rows[i] \in Row /\ i \in Nat
  OBVIOUS
<1> QED
  BY <1>1 DEF Row

\* A turn within an episode, or the first one of the episode after e.
LEMMA TurnInEpisode ==
    ASSUME NEW rows \in Seq(Row), NEW e \in EnvState, NEW f \in EnvState,
           NEW last \in [Agents -> Nat], NEW row \in Row,
           Credited(rows, e), Known(rows, e, last),
           ~f.done, f.episode = IF e.done THEN e.episode + 1 ELSE e.episode,
           row.agent \in Agents, row.episode = f.episode, row.turn_id = Len(rows),
           ~row.boot, ~row.done, row.credit = 0
    PROVE  /\ Credited(Append(rows, row), f)
           /\ Known(Append(rows, row), f, [last EXCEPT ![row.agent] = Len(rows) + 1])
<1> DEFINE n == Len(rows)
           new == Append(rows, row)
           last1 == [last EXCEPT ![row.agent] = n + 1]
<1>1. /\ new \in Seq(Row) /\ n \in Nat /\ DOMAIN rows = 1..n /\ DOMAIN new = 1..(n + 1)
      /\ \A i \in 1..n : i \in 1..(n + 1) /\ new[i] = rows[i] /\ i <= n + 1 /\ ~(n + 1 <= i)
      /\ n + 1 \in 1..(n + 1) /\ new[n + 1] = row
      /\ \A i \in 1..(n + 1) : i \in 1..n \/ i = n + 1
      /\ n + 1 <= n + 1 /\ (n + 1) - 1 = n
  BY AppendFacts
<1> HIDE DEF new, n
<1>2. e.episode \in Nat /\ f.episode \in Nat /\ e.done \in BOOLEAN
  BY DEF EnvState
<1>3. \A i \in 1..n : rows[i].episode \in Nat /\ rows[i].episode <= e.episode
  BY <1>1, RowTypes DEF Credited
<1>4. \A i \in 1..n : rows[i].episode <= f.episode
  BY <1>2, <1>3
<1>5. ASSUME NEW i \in 1..n
      PROVE  /\ Over(f, rows[i].episode) <=> Over(e, rows[i].episode)
             /\ Over(f, rows[i].episode) => rows[i].episode # f.episode
  BY <1>2, <1>3, <1>5 DEF Over
<1>6. ASSUME NEW i \in 1..n, Over(f, rows[i].episode)
      PROVE  Latest(new, i) <=> Latest(rows, i)
  <2>1. ~(new[n + 1].agent = new[i].agent /\ new[n + 1].episode = new[i].episode)
    BY <1>1, <1>5, <1>6
  <2> QED
    BY <1>1, <2>1 DEF Latest
<1>7. \A i \in 1..n : Paid(new, i, f) <=> Paid(rows, i, e)
  BY <1>1, <1>5, <1>6 DEF Paid
<1>8. ~Over(f, new[n + 1].episode) /\ ~Paid(new, n + 1, f)
  BY <1>1, <1>2 DEF Over, Paid
<1>9. Real(new)
  BY <1>1 DEF Credited, Real, n
<1>10. Credited(new, f)
  <2>1. \A i \in 1..(n + 1) : new[i].episode <= f.episode
    BY <1>1, <1>2, <1>4
  <2>2. \A i, j \in 1..(n + 1) : i <= j => new[i].episode <= new[j].episode
    <3>1. \A i, j \in 1..n : i <= j => new[i].episode <= new[j].episode
      BY <1>1 DEF Credited
    <3>2. ASSUME NEW i \in 1..(n + 1), NEW j \in 1..(n + 1), i <= j, ~(i \in 1..n /\ j \in 1..n)
          PROVE  new[i].episode <= new[j].episode
      <4>1. j = n + 1
        BY <1>1, <3>2
      <4>2. new[j].episode = f.episode
        BY <1>1, <4>1
      <4> QED
        BY <2>1, <4>2
    <3> QED
      BY <3>1, <3>2
  <2>3. \A i \in 1..(n + 1) : /\ new[i].credit = IF Paid(new, i, f) THEN 1 ELSE 0
                              /\ new[i].done <=> Paid(new, i, f)
    <3>1. \A i \in 1..n : /\ rows[i].credit = IF Paid(rows, i, e) THEN 1 ELSE 0
                          /\ rows[i].done <=> Paid(rows, i, e)
      BY <1>1 DEF Credited
    <3> QED
      BY <1>1, <1>7, <1>8, <3>1
  <2>4. ASSUME NEW i \in DOMAIN new, Over(f, new[i].episode)
        PROVE  \E k \in DOMAIN new :
                  /\ i <= k /\ new[k].done
                  /\ new[k].agent = new[i].agent /\ new[k].episode = new[i].episode
    <3>1. i \in 1..n /\ Over(e, rows[i].episode)
      BY <1>1, <1>5, <1>8, <2>4
    <3>2. PICK k \in 1..n : /\ i <= k /\ rows[k].done
                            /\ rows[k].agent = rows[i].agent /\ rows[k].episode = rows[i].episode
      BY <1>1, <3>1 DEF Credited
    <3> QED
      BY <1>1, <3>1, <3>2
  <2>5. DOMAIN new = 1..(n + 1)
    BY <1>1
  <2> QED
    BY <1>9, <2>1, <2>2, <2>3, <2>4, <2>5 DEF Credited
<1>11. Known(new, f, last1)
  <2>1. ASSUME NEW a \in Agents
        PROVE  \/ /\ last1[a] = 0
                  /\ \A i \in 1..(n + 1) : ~(new[i].agent = a /\ new[i].episode = f.episode)
               \/ /\ last1[a] \in 1..(n + 1) /\ Latest(new, last1[a])
                  /\ new[last1[a]].agent = a /\ new[last1[a]].episode = f.episode
    <3>1. CASE a = row.agent
      <4>1. last1[a] = n + 1
        BY <3>1
      <4>2. Latest(new, n + 1)
        BY <1>1 DEF Latest
      <4> QED
        BY <1>1, <3>1, <4>1, <4>2
    <3>2. CASE a # row.agent
      <4>1. last1[a] = last[a]
        BY <3>2
      <4>2. CASE \A i \in 1..n : ~(rows[i].agent = a /\ rows[i].episode = e.episode)
        <5>1. last[a] = 0
          BY <1>1, <4>2 DEF Known
        <5>2. \A i \in 1..n : ~(rows[i].agent = a /\ rows[i].episode = f.episode)
          BY <1>2, <1>3, <4>2
        <5> QED
          BY <1>1, <3>2, <4>1, <5>1, <5>2
      <4>3. CASE ~\A i \in 1..n : ~(rows[i].agent = a /\ rows[i].episode = e.episode)
        <5>1. /\ last[a] \in 1..n /\ Latest(rows, last[a])
              /\ rows[last[a]].agent = a /\ rows[last[a]].episode = e.episode
          BY <1>1, <4>3 DEF Known
        <5>2. ~e.done /\ f.episode = e.episode
          BY <1>1, <4>3 DEF Known
        <5>3. Latest(new, last[a])
          BY <1>1, <3>2, <5>1 DEF Latest
        <5> QED
          BY <1>1, <4>1, <5>1, <5>2, <5>3
      <4> QED
        BY <4>2, <4>3
    <3> QED
      BY <3>1, <3>2
  <2> HIDE DEF last1
  <2> QED
    BY <1>1, <2>1 DEF Known
<1> QED
  BY <1>10, <1>11 DEF new, n

\* Row i is the last row of an agent other than the one that closed the episode.
Hit(last, closer, i) == \E a \in Agents \ {closer} : last[a] = i

\* Routing leaves the rows where they are ...
LEMMA RoutedKeeps ==
    ASSUME NEW rows \in Seq(Row), NEW last, NEW closer, NEW i \in 1..Len(rows)
    PROVE  /\ RouteUtilities(rows, last, closer)[i].agent = rows[i].agent
           /\ RouteUtilities(rows, last, closer)[i].episode = rows[i].episode
           /\ RouteUtilities(rows, last, closer)[i].turn_id = rows[i].turn_id
           /\ RouteUtilities(rows, last, closer)[i].boot = rows[i].boot
           /\ RouteUtilities(rows, last, closer)[i].prompt = rows[i].prompt
<1>1. rows[i] \in Row /\ i \in DOMAIN rows
  OBVIOUS
<1>2. RouteUtilities(rows, last, closer)[i] =
        IF Hit(last, closer, i) THEN [rows[i] EXCEPT !.credit = @ + 1, !.done = TRUE] ELSE rows[i]
  BY <1>1 DEF RouteUtilities, Hit
<1> QED
  BY <1>1, <1>2 DEF Row

\* ... credits the agents' last ones ...
LEMMA RoutedCredits ==
    ASSUME NEW rows \in Seq(Row), NEW last, NEW closer, NEW i \in 1..Len(rows)
    PROVE  Hit(last, closer, i) =>
              /\ RouteUtilities(rows, last, closer)[i].credit = rows[i].credit + 1
              /\ RouteUtilities(rows, last, closer)[i].done = TRUE
<1>1. rows[i] \in Row /\ i \in DOMAIN rows
  OBVIOUS
<1>2. Hit(last, closer, i) => RouteUtilities(rows, last, closer)[i] =
                                [rows[i] EXCEPT !.credit = @ + 1, !.done = TRUE]
  BY <1>1 DEF RouteUtilities, Hit
<1> QED
  BY <1>1, <1>2 DEF Row

\* ... and leaves the others alone.
LEMMA RoutedOthers ==
    ASSUME NEW rows \in Seq(Row), NEW last, NEW closer, NEW i \in 1..Len(rows),
           ~Hit(last, closer, i)
    PROVE  RouteUtilities(rows, last, closer)[i] = rows[i]
<1>1. i \in DOMAIN rows
  OBVIOUS
<1> QED
  BY <1>1 DEF RouteUtilities, Hit

\* The turn that ends the episode: every agent's utility goes to its last row.
LEMMA TurnEndsEpisode ==
    ASSUME NEW rows \in Seq(Row), NEW e \in EnvState, NEW f \in EnvState,
           NEW last \in [Agents -> Nat], NEW row \in Row,
           Credited(rows, e), Known(rows, e, last),
           ~e.done, f.done, f.episode = e.episode,
           row.agent \in Agents, row.episode = f.episode, row.turn_id = Len(rows),
           ~row.boot, row.done, row.credit = 1
    PROVE  Credited(RouteUtilities(Append(rows, row), last, row.agent), f)
<1> DEFINE n == Len(rows)
           new == Append(rows, row)
           q == RouteUtilities(new, last, row.agent)
<1>1. /\ new \in Seq(Row) /\ n \in Nat /\ DOMAIN rows = 1..n /\ DOMAIN new = 1..(n + 1)
      /\ Len(new) = n + 1
      /\ \A i \in 1..n : i \in 1..(n + 1) /\ new[i] = rows[i] /\ i <= n + 1 /\ ~(n + 1 <= i)
      /\ n + 1 \in 1..(n + 1) /\ new[n + 1] = row
      /\ \A i \in 1..(n + 1) : i \in 1..n \/ i = n + 1
      /\ n + 1 <= n + 1 /\ (n + 1) - 1 = n
  BY AppendFacts
<1> HIDE DEF new, n
<1>2. /\ DOMAIN q = 1..(n + 1)
      /\ \A i \in 1..(n + 1) :
            /\ q[i].agent = new[i].agent /\ q[i].episode = new[i].episode
            /\ q[i].turn_id = new[i].turn_id /\ q[i].boot = new[i].boot
            /\ Hit(last, row.agent, i) => q[i].credit = new[i].credit + 1 /\ q[i].done
            /\ ~Hit(last, row.agent, i) => q[i] = new[i]
  <2>1. DOMAIN q = 1..(n + 1)
    BY <1>1 DEF RouteUtilities
  <2>2. ASSUME NEW i \in 1..(n + 1)
        PROVE  /\ q[i].agent = new[i].agent /\ q[i].episode = new[i].episode
               /\ q[i].turn_id = new[i].turn_id /\ q[i].boot = new[i].boot
               /\ Hit(last, row.agent, i) => q[i].credit = new[i].credit + 1 /\ q[i].done
               /\ ~Hit(last, row.agent, i) => q[i] = new[i]
    <3>1. new \in Seq(Row) /\ i \in 1..Len(new)
      BY <1>1
    <3>2. /\ q[i].agent = new[i].agent /\ q[i].episode = new[i].episode
          /\ q[i].turn_id = new[i].turn_id /\ q[i].boot = new[i].boot
      BY <3>1, RoutedKeeps
    <3>3. Hit(last, row.agent, i) => q[i].credit = new[i].credit + 1 /\ q[i].done = TRUE
      BY <3>1, RoutedCredits
    <3>4. ~Hit(last, row.agent, i) => q[i] = new[i]
      BY <3>1, RoutedOthers
    <3> QED
      BY <3>2, <3>3, <3>4
  <2> QED
    BY <2>1, <2>2
<1> HIDE DEF q
<1>3. e.episode \in Nat /\ f.episode = e.episode
  BY DEF EnvState
<1>4. \A i \in 1..n : rows[i].episode \in Nat /\ rows[i].episode <= e.episode
  BY <1>1, RowTypes DEF Credited
<1>5. \A i \in 1..(n + 1) : Over(f, q[i].episode)
  BY DEF Over
<1>6. \A i \in 1..(n + 1) : Latest(q, i) <=> Latest(new, i)
  BY <1>1, <1>2 DEF Latest
<1>7. \A i \in 1..(n + 1) : Paid(q, i, f) <=> Latest(new, i)
  BY <1>5, <1>6 DEF Paid
\* The agents' last rows of the episode are known.
<1>8. ASSUME NEW i \in 1..n, Hit(last, row.agent, i)
      PROVE  Latest(new, i) /\ rows[i].episode = e.episode
  <2>1. PICK a \in Agents \ {row.agent} : last[a] = i
    BY <1>8 DEF Hit
  <2>2. i # 0
    OBVIOUS
  <2>3. /\ Latest(rows, i) /\ rows[i].agent = a /\ rows[i].episode = e.episode
    BY <1>1, <2>1, <2>2 DEF Known
  <2>4. Latest(new, i)
    BY <1>1, <2>1, <2>3 DEF Latest
  <2> QED
    BY <2>3, <2>4
<1>9. ASSUME NEW i \in 1..n, rows[i].episode = e.episode, rows[i].agent # row.agent
      PROVE  \E k \in 1..n : /\ i <= k /\ Hit(last, row.agent, k) /\ rows[k].agent = rows[i].agent
                              /\ rows[k].episode = e.episode /\ (Latest(new, i) => k = i)
  <2>1. rows[i].agent \in Agents
    BY <1>1 DEF Credited, Real
  <2> DEFINE k == last[rows[i].agent]
  <2>2. /\ k \in 1..n /\ Latest(rows, k) /\ rows[k].agent = rows[i].agent
        /\ rows[k].episode = e.episode
    BY <1>1, <1>9, <2>1 DEF Known
  <2>3. Hit(last, row.agent, k)
    BY <1>9, <2>1 DEF Hit
  <2> HIDE DEF k
  <2>4. i <= k
    BY <1>1, <1>9, <2>2 DEF Latest
  <2>5. ASSUME Latest(new, i) PROVE k = i
    <3>1. new[k].agent = new[i].agent /\ new[k].episode = new[i].episode /\ k \in DOMAIN new
      BY <1>1, <1>9, <2>2
    <3>2. k <= i
      BY <2>5, <3>1 DEF Latest
    <3> QED
      BY <1>1, <2>2, <2>4, <3>2
  <2> QED
    BY <2>2, <2>3, <2>4, <2>5
<1>10. ~Hit(last, row.agent, n + 1) /\ Latest(new, n + 1)
  <2>1. ASSUME NEW a \in Agents PROVE last[a] # n + 1
    <3>1. last[a] = 0 \/ last[a] \in 1..n
      BY <1>1 DEF Known
    <3> QED
      BY <1>1, <3>1
  <2> QED
    BY <1>1, <2>1 DEF Latest, Hit
<1>11. ASSUME NEW i \in 1..n, rows[i].episode = e.episode
       PROVE  Hit(last, row.agent, i) <=> Latest(new, i)
  <2>1. CASE rows[i].agent = row.agent
    <3>1. ~Latest(new, i)
      <4>1. /\ n + 1 \in DOMAIN new /\ new[n + 1].agent = new[i].agent
            /\ new[n + 1].episode = new[i].episode /\ ~(n + 1 <= i)
        BY <1>1, <1>11, <2>1
      <4> QED
        BY <4>1 DEF Latest
    <3> QED
      BY <1>8, <3>1
  <2>2. CASE rows[i].agent # row.agent
    BY <1>8, <1>9, <1>11, <2>2
  <2> QED
    BY <2>1, <2>2
<1>12. ASSUME NEW i \in 1..n, rows[i].episode # e.episode
       PROVE  ~Hit(last, row.agent, i) /\ (Latest(new, i) <=> Paid(rows, i, e))
  <2>1. ~Hit(last, row.agent, i)
    BY <1>8, <1>12
  <2>2. Over(e, rows[i].episode)
    BY <1>3, <1>4, <1>12 DEF Over
  <2>3. Latest(new, i) <=> Latest(rows, i)
    <3>1. new[n + 1].episode # new[i].episode
      BY <1>1, <1>3, <1>12
    <3> QED
      BY <1>1, <3>1 DEF Latest
  <2> QED
    BY <2>1, <2>2, <2>3 DEF Paid
<1>13. ASSUME NEW i \in 1..(n + 1)
       PROVE  /\ q[i].credit = IF Paid(q, i, f) THEN 1 ELSE 0
              /\ q[i].done <=> Paid(q, i, f)
  <2>1. CASE i = n + 1
    BY <1>1, <1>2, <1>7, <1>10, <2>1
  <2>2. CASE i \in 1..n
    <3>1. /\ rows[i].credit = IF Paid(rows, i, e) THEN 1 ELSE 0
          /\ rows[i].done <=> Paid(rows, i, e)
      BY <1>1, <2>2 DEF Credited
    <3>2. CASE rows[i].episode = e.episode
      <4>1. ~Paid(rows, i, e)
        BY <1>3, <3>2 DEF Paid, Over
      <4>2. new[i].credit = 0 /\ ~new[i].done
        BY <1>1, <2>2, <3>1, <4>1
      <4> QED
        BY <1>2, <1>7, <1>11, <2>2, <3>2, <4>2
    <3>3. CASE rows[i].episode # e.episode
      <4>1. q[i] = rows[i]
        BY <1>1, <1>2, <1>12, <2>2, <3>3
      <4> QED
        BY <1>7, <1>12, <2>2, <3>1, <3>3, <4>1
    <3> QED
      BY <3>2, <3>3
  <2> QED
    BY <1>1, <2>1, <2>2
<1>14. ASSUME NEW i \in 1..(n + 1)
       PROVE  \E k \in 1..(n + 1) :
                 /\ i <= k /\ q[k].done
                 /\ q[k].agent = q[i].agent /\ q[k].episode = q[i].episode
  <2>1. i = n + 1 \/ i \in 1..n
    BY <1>1
  <2>2. q[n + 1].done /\ q[n + 1].agent = row.agent /\ q[n + 1].episode = e.episode
    BY <1>1, <1>2, <1>3, <1>10
  <2>3. CASE i = n + 1 \/ (rows[i].episode = e.episode /\ rows[i].agent = row.agent)
    BY <1>1, <1>2, <2>1, <2>2, <2>3
  <2>4. CASE i \in 1..n /\ rows[i].episode = e.episode /\ rows[i].agent # row.agent
    <3>1. PICK k \in 1..n : /\ i <= k /\ Hit(last, row.agent, k) /\ rows[k].agent = rows[i].agent
                            /\ rows[k].episode = e.episode
      BY <1>9, <2>4
    <3>2. /\ k \in 1..(n + 1) /\ i <= k /\ q[k].done
          /\ q[k].agent = rows[k].agent /\ q[k].episode = rows[k].episode
          /\ q[i].agent = rows[i].agent /\ q[i].episode = rows[i].episode
      BY <1>1, <1>2, <2>4, <3>1
    <3> QED
      BY <2>4, <3>1, <3>2
  <2>5. CASE i \in 1..n /\ rows[i].episode # e.episode
    <3>1. Over(e, rows[i].episode)
      BY <1>3, <1>4, <2>5 DEF Over
    <3>2. PICK k \in 1..n : /\ i <= k /\ rows[k].done
                            /\ rows[k].agent = rows[i].agent /\ rows[k].episode = rows[i].episode
      BY <1>1, <2>5, <3>1 DEF Credited
    <3>3. q[k] = rows[k]
      BY <1>1, <1>2, <1>12, <2>5, <3>2
    <3>4. /\ k \in 1..(n + 1) /\ i <= k /\ q[k].done
          /\ q[i].agent = rows[i].agent /\ q[i].episode = rows[i].episode
      BY <1>1, <1>2, <2>5, <3>2, <3>3
    <3> QED
      BY <3>2, <3>3, <3>4
  <2> QED
    BY <2>1, <2>3, <2>4, <2>5
<1>15. Real(q)
  <2>1. \A i \in 1..(n + 1) : ~new[i].boot /\ new[i].agent \in Agents /\ new[i].turn_id = i - 1
    BY <1>1 DEF Credited, Real, n
  <2> QED
    BY <1>2, <2>1 DEF Real
<1>16. \A i \in 1..(n + 1) : q[i].episode <= f.episode
  <2>1. f.episode <= f.episode
    BY <1>3
  <2>2. \A i \in 1..n : q[i].episode <= f.episode
    BY <1>1, <1>2, <1>3, <1>4
  <2>3. q[n + 1].episode <= f.episode
    BY <1>1, <1>2, <2>1
  <2> QED
    BY <1>1, <2>2, <2>3
<1>17. \A i, j \in 1..(n + 1) : i <= j => q[i].episode <= q[j].episode
  <2>1. \A i, j \in 1..n : i <= j => rows[i].episode <= rows[j].episode
    BY <1>1 DEF Credited
  <2>2. q[n + 1].episode = f.episode
    BY <1>1, <1>2
  <2> QED
    BY <1>1, <1>2, <1>16, <2>1, <2>2
<1>18. DOMAIN q = 1..(n + 1)
  BY <1>2
<1>19. Credited(q, f)
  BY <1>13, <1>14, <1>15, <1>16, <1>17, <1>18 DEF Credited
<1> QED
  BY <1>19 DEF q, new

\* The next episode begins with no rows.
LEMMA EpisodeBegins ==
    ASSUME NEW rows \in Seq(Row), NEW e \in EnvState, NEW f \in EnvState,
           Credited(rows, e), e.done, ~f.done, f.episode = e.episode + 1
    PROVE  Credited(rows, f) /\ Known(rows, f, NoRows)
<1>1. e.episode \in Nat
  BY DEF EnvState
<1>2. \A i \in DOMAIN rows : rows[i].episode \in Nat /\ rows[i].episode <= e.episode
  BY RowTypes DEF Credited
<1>3. \A i \in DOMAIN rows : rows[i].episode < f.episode /\ rows[i].episode <= f.episode
  BY <1>1, <1>2
<1>4. \A i \in DOMAIN rows : Over(e, rows[i].episode) /\ Over(f, rows[i].episode)
  BY <1>3 DEF Over
<1>5. \A i \in DOMAIN rows : Paid(rows, i, e) <=> Paid(rows, i, f)
  BY <1>4 DEF Paid
<1>6. Credited(rows, f)
  BY <1>3, <1>4, <1>5 DEF Credited
<1>7. Known(rows, f, NoRows)
  BY <1>1, <1>3, <1>2 DEF Known, NoRows
<1> QED
  BY <1>6, <1>7

-------------------------------------------------------------------------------
(* The steps of a worker.                                                  *)

\* A turn in the terms of the lemmas above: its row, the environment f after it,
\* and whether it ended the episode.
TurnOf(w, row, f, ended) ==
    LET e    == CurrentEnv(w)
        new  == Append(outputs[w], row)
        rows == IF ended THEN RouteUtilities(new, lastRow[w], agent[w]) ELSE new
    IN  /\ row.agent = agent[w] /\ row.episode = f.episode /\ row.turn_id = Len(outputs[w])
        /\ row.prompt = obs[w] /\ ~row.boot /\ row.done = ended
        /\ row.credit = IF ended THEN 1 ELSE 0
        /\ f.episode = IF e.done THEN e.episode + 1 ELSE e.episode
        /\ f.done = ended /\ (ended => ~e.done)
        /\ lastRow'[w] = IF ended THEN NoRows
                         ELSE [lastRow[w] EXCEPT ![agent[w]] = Len(outputs[w]) + 1]
        /\ IF fills[w] \/ (ended /\ Validation)
           THEN /\ LeaveLoop(w, rows, IF Validation THEN Agents ELSE {})
                /\ CurrentEnv(w)' = f
           ELSE /\ outputs' = [outputs EXCEPT ![w] = rows]
                /\ pc' = [pc EXCEPT ![w] = IF Validation THEN "generate" ELSE "reserve"]
                /\ CurrentEnv(w)' \in EnvState
                /\ ~ended => CurrentEnv(w)' = f
                /\ ended => CurrentEnv(w)'.episode = f.episode + 1 /\ ~CurrentEnv(w)'.done

LEMMA TurnTaken ==
    ASSUME TypeOK, NEW w \in Workers, Turn(w)
    PROVE  \E row \in Row, f \in EnvState, ended \in BOOLEAN : TurnOf(w, row, f, ended)
<1> DEFINE before == CurrentEnv(w)
           After(active, t) == Step(before, agent[w], active, t)
           Leaves(t) == fills[w] \/ (Ends(before, t) /\ Validation)
           Rows(active, t, empty) == TurnRows(w, After(active, t), Ends(before, t), empty)
<1>1. PICK active \in Agents, t \in BOOLEAN, empty \in EmptyResponses :
        \E e \in NextEnvs(After(active, t), Ends(before, t) /\ ~Leaves(t)) :
          /\ SetEnv(w, e)
          /\ agent' = [agent EXCEPT ![w] = e.active]
          /\ obs' = [obs EXCEPT ![w] = GetLastObs(e)]
          /\ lastRow' = [lastRow EXCEPT ![w] = TurnLastRow(w, Ends(before, t))]
          /\ IF Leaves(t)
             THEN LeaveLoop(w, Rows(active, t, empty), IF Validation THEN Agents ELSE {})
             ELSE /\ outputs' = [outputs EXCEPT ![w] = Rows(active, t, empty)]
                  /\ pc' = [pc EXCEPT ![w] = IF Validation THEN "generate" ELSE "reserve"]
  BY Zenon DEF Turn
<1>2. before \in EnvState /\ agent[w] \in Agents
  BY DEF CurrentEnv, TypeOK
<1>3. After(active, t) \in EnvState /\ Ends(before, t) \in BOOLEAN
  BY <1>2, EnvTypes
<1>4. PICK e \in NextEnvs(After(active, t), Ends(before, t) /\ ~Leaves(t)) :
          /\ SetEnv(w, e)
          /\ lastRow' = [lastRow EXCEPT ![w] = TurnLastRow(w, Ends(before, t))]
          /\ IF Leaves(t)
             THEN LeaveLoop(w, Rows(active, t, empty), IF Validation THEN Agents ELSE {})
             ELSE /\ outputs' = [outputs EXCEPT ![w] = Rows(active, t, empty)]
                  /\ pc' = [pc EXCEPT ![w] = IF Validation THEN "generate" ELSE "reserve"]
  BY <1>1
<1> DEFINE f == After(active, t)
           ended == Ends(before, t)
           row == TurnRow(w, f, ended, empty)
<1>5. empty \in BOOLEAN
  BY <1>1, EmptyResponsesAssumption
<1>6. row \in Row
  BY <1>3, <1>5, TurnRowType
<1>7. /\ f.episode = IF before.done THEN before.episode + 1 ELSE before.episode
      /\ f.done = ended /\ (ended => ~before.done)
  BY <1>2 DEF Step, Reset, Ends, EnvState
<1>8. /\ row.agent = agent[w] /\ row.episode = f.episode /\ row.turn_id = Len(outputs[w])
      /\ row.prompt = obs[w] /\ ~row.boot /\ row.done = ended
      /\ row.credit = IF ended THEN 1 ELSE 0
  BY DEF TurnRow
<1>9. Rows(active, t, empty) = IF ended
                               THEN RouteUtilities(Append(outputs[w], row), lastRow[w], agent[w])
                               ELSE Append(outputs[w], row)
  BY DEF TurnRows
<1>10. lastRow'[w] = IF ended THEN NoRows
                     ELSE [lastRow[w] EXCEPT ![agent[w]] = Len(outputs[w]) + 1]
  BY <1>4 DEF TurnLastRow, TypeOK
<1>11. CurrentEnv(w)' = e
  <2>1. phase' = phase
    BY DEF Turn, managerVars
  <2>2. env \in [Workers -> EnvState] /\ valEnv \in [Workers -> EnvState]
    BY DEF TypeOK
  <2> QED
    BY <1>4, <2>1, <2>2 DEF SetEnv, CurrentEnv, Validation
<1>12. (ended /\ ~Leaves(t)) => \E a \in Agents : e = Reset(f, a)
  BY <1>4 DEF NextEnvs
<1>13. ~(ended /\ ~Leaves(t)) => e = f
  BY <1>4 DEF NextEnvs
<1> HIDE DEF f, row, before, Rows
<1>14. e \in EnvState
  <2>1. \A a \in Agents : Reset(f, a) \in EnvState
    BY <1>2, <1>3, EnvTypes DEF f
  <2> QED
    BY <1>3, <1>12, <1>13, <2>1 DEF f
<1>15. (ended /\ ~Leaves(t)) => e.episode = f.episode + 1 /\ ~e.done
  BY <1>12 DEF Reset
<1> DEFINE rows == Rows(active, t, empty)
<1>16. IF fills[w] \/ (ended /\ Validation)
       THEN LeaveLoop(w, rows, IF Validation THEN Agents ELSE {}) /\ CurrentEnv(w)' = f
       ELSE /\ outputs' = [outputs EXCEPT ![w] = rows]
            /\ pc' = [pc EXCEPT ![w] = IF Validation THEN "generate" ELSE "reserve"]
            /\ CurrentEnv(w)' \in EnvState
            /\ ~ended => CurrentEnv(w)' = f
            /\ ended => CurrentEnv(w)'.episode = f.episode + 1 /\ ~CurrentEnv(w)'.done
  BY <1>4, <1>11, <1>13, <1>14, <1>15
<1> HIDE DEF ended, rows
<1>17. TurnOf(w, row, f, ended)
  BY <1>7, <1>8, <1>9, <1>10, <1>16 DEF TurnOf, before, rows
<1>18. f \in EnvState /\ ended \in BOOLEAN
  BY <1>3 DEF f, ended
<1> QED
  BY <1>6, <1>17, <1>18

\* A step of another worker does not touch what is v's.
LEMMA OthersKept ==
    ASSUME TypeOK, NEW w \in Workers, NEW v \in Workers, v # w, WorkerStep(w)
    PROVE  /\ pc'[v] = pc[v] /\ outputs'[v] = outputs[v] /\ lastRow'[v] = lastRow[v]
           /\ env'[v] = env[v] /\ valEnv'[v] = valEnv[v] /\ fills'[v] = fills[v]
           /\ obs'[v] = obs[v]
<1>1. /\ pc \in [Workers -> {"start", "reserve", "generate", "finished", "crashed"}]
      /\ outputs \in [Workers -> Seq(Row)] /\ lastRow \in [Workers -> [Agents -> Nat]]
      /\ env \in [Workers -> EnvState] /\ valEnv \in [Workers -> EnvState]
      /\ fills \in [Workers -> BOOLEAN] /\ obs \in [Workers -> Observation]
  BY DEF TypeOK
<1>2. CASE Begin(w)
  <2>1. /\ \E l : pc' = [pc EXCEPT ![w] = l]
        /\ outputs' = [outputs EXCEPT ![w] = <<>>] /\ lastRow' = [lastRow EXCEPT ![w] = NoRows]
        /\ fills' = [fills EXCEPT ![w] = FALSE]
        /\ \E o : obs' = [obs EXCEPT ![w] = o]
        /\ env' = env /\ (valEnv' = valEnv \/ \E e : valEnv' = [valEnv EXCEPT ![w] = e])
    BY <1>2 DEF Begin, envVars
  <2> QED
    BY <1>1, <2>1
<1>3. CASE Reserve(w)
  BY <1>1, <1>3 DEF Reserve, envVars
<1>4. CASE Rejected(w)
  <2>1. /\ \E l : pc' = [pc EXCEPT ![w] = l]
        /\ \E rows : outputs' = [outputs EXCEPT ![w] = rows]
        /\ UNCHANGED <<lastRow, env, valEnv, fills, obs>>
    BY <1>4 DEF Rejected, LeaveLoop, envVars
  <2> QED
    BY <1>1, <2>1
<1>5. CASE Turn(w)
  <2>1. /\ \E l : pc' = [pc EXCEPT ![w] = l]
        /\ \E rows : outputs' = [outputs EXCEPT ![w] = rows]
    <3>1. \E l \in {"reserve", "generate", "finished", "crashed"} : pc' = [pc EXCEPT ![w] = l]
      BY <1>5, TurnFacts
    <3>2. \E rows \in Seq(Row) : outputs' = [outputs EXCEPT ![w] = rows]
      BY <1>5, TurnFacts
    <3>3. \E l : pc' = [pc EXCEPT ![w] = l]
      BY <3>1
    <3>4. \E rows : outputs' = [outputs EXCEPT ![w] = rows]
      BY <3>2
    <3> QED
      BY <3>3, <3>4
  <2>2. /\ \E l : lastRow' = [lastRow EXCEPT ![w] = l]
        /\ \E o : obs' = [obs EXCEPT ![w] = o]
        /\ \E e : SetEnv(w, e)
        /\ fills' = fills
    BY <1>5, Zenon DEF Turn
  <2>3. env'[v] = env[v] /\ valEnv'[v] = valEnv[v]
    BY <1>1, <2>2 DEF SetEnv
  <2> QED
    BY <1>1, <2>1, <2>2, <2>3
<1> QED
  BY <1>2, <1>3, <1>4, <1>5 DEF WorkerStep

LEMMA PhaseKept ==
    ASSUME NEW w \in Workers, WorkerStep(w)
    PROVE  phase' = phase /\ (Training \/ Validation)
  BY DEF WorkerStep, Begin, Reserve, Rejected, Turn, managerVars, Training, Validation

-------------------------------------------------------------------------------
(* Credit in training.                                                     *)

\* The rows of a worker are credited at every point of its loop, and it leaves
\* with the three bootstrap rows behind them.
CreditInv(w) ==
    Training =>
        /\ pc[w] \in {"reserve", "generate"} =>
              Credited(outputs[w], env[w]) /\ Known(outputs[w], env[w], lastRow[w])
        /\ pc[w] = "crashed" => Credited(outputs[w], env[w])
        /\ pc[w] = "finished" =>
              \E rows \in Seq(Row) :
                  /\ ~CannotBootstrap(rows) /\ Credited(rows, env[w])
                  /\ outputs[w] = WithBootstrap(rows, {})

LEMMA LeavingKeepsCredit ==
    ASSUME TypeOK, Training, phase' = phase, NEW w \in Workers, NEW rows \in Seq(Row),
           LeaveLoop(w, rows, {}), Credited(rows, env'[w])
    PROVE  CreditInv(w)'
<1>1. pc \in [Workers -> {"start", "reserve", "generate", "finished", "crashed"}]
      /\ outputs \in [Workers -> Seq(Row)]
  BY DEF TypeOK
<1>2. CASE CannotBootstrap(rows)
  <2>1. pc'[w] = "crashed" /\ outputs'[w] = rows
    BY <1>1, <1>2 DEF LeaveLoop
  <2> QED
    BY <2>1 DEF CreditInv
<1>3. CASE ~CannotBootstrap(rows)
  <2>1. pc'[w] = "finished" /\ outputs'[w] = WithBootstrap(rows, {})
    BY <1>1, <1>3 DEF LeaveLoop
  <2> QED
    BY <1>3, <2>1 DEF CreditInv
<1> QED
  BY <1>2, <1>3

LEMMA TurnKeepsCredit ==
    ASSUME TypeOK, Training, NEW w \in Workers, CreditInv(w), Turn(w)
    PROVE  CreditInv(w)'
<1>1. /\ pc \in [Workers -> {"start", "reserve", "generate", "finished", "crashed"}]
      /\ outputs \in [Workers -> Seq(Row)] /\ lastRow[w] \in [Agents -> Nat]
      /\ env[w] \in EnvState /\ agent[w] \in Agents /\ outputs[w] \in Seq(Row)
  BY DEF TypeOK
<1>2. phase' = phase /\ ~Validation
  BY DEF Turn, managerVars, Training, Validation
<1>3. CurrentEnv(w) = env[w] /\ CurrentEnv(w)' = env'[w]
  BY <1>2 DEF CurrentEnv, Validation
<1>4. Credited(outputs[w], env[w]) /\ Known(outputs[w], env[w], lastRow[w])
  BY DEF Turn, CreditInv
<1>5. PICK row \in Row, f \in EnvState, ended \in BOOLEAN : TurnOf(w, row, f, ended)
  BY TurnTaken
<1> DEFINE new == Append(outputs[w], row)
           rows == IF ended THEN RouteUtilities(new, lastRow[w], agent[w]) ELSE new
<1>6. /\ row.agent = agent[w] /\ row.episode = f.episode /\ row.turn_id = Len(outputs[w])
      /\ ~row.boot /\ row.done = ended /\ row.credit = IF ended THEN 1 ELSE 0
      /\ f.episode = IF env[w].done THEN env[w].episode + 1 ELSE env[w].episode
      /\ f.done = ended /\ (ended => ~env[w].done)
      /\ lastRow'[w] = IF ended THEN NoRows
                       ELSE [lastRow[w] EXCEPT ![agent[w]] = Len(outputs[w]) + 1]
  BY <1>3, <1>5 DEF TurnOf
<1>7. IF fills[w]
      THEN LeaveLoop(w, rows, {}) /\ env'[w] = f
      ELSE /\ outputs' = [outputs EXCEPT ![w] = rows] /\ pc' = [pc EXCEPT ![w] = "reserve"]
           /\ env'[w] \in EnvState
           /\ ~ended => env'[w] = f
           /\ ended => env'[w].episode = f.episode + 1 /\ ~env'[w].done
  BY <1>2, <1>3, <1>5 DEF TurnOf
<1>8. rows \in Seq(Row)
  <2>1. new \in Seq(Row)
    BY <1>1
  <2> QED
    BY <2>1, RouteUtilitiesFacts
<1>9. Credited(rows, f)
  <2>1. CASE ended
    BY <1>1, <1>4, <1>6, <2>1, TurnEndsEpisode
  <2>2. CASE ~ended
    BY <1>1, <1>4, <1>6, <2>2, TurnInEpisode
  <2> QED
    BY <2>1, <2>2
<1>10. ASSUME ~ended PROVE Known(rows, f, lastRow'[w])
  <2>1. Known(new, f, [lastRow[w] EXCEPT ![row.agent] = Len(outputs[w]) + 1])
    BY <1>1, <1>4, <1>6, <1>10, TurnInEpisode
  <2>2. /\ rows = new
        /\ lastRow'[w] = [lastRow[w] EXCEPT ![row.agent] = Len(outputs[w]) + 1]
    BY <1>6, <1>10
  <2> QED
    BY <2>1, <2>2
<1> HIDE DEF rows
<1>11. CASE fills[w]
  BY <1>2, <1>7, <1>8, <1>9, <1>11, LeavingKeepsCredit
<1>12. CASE ~fills[w]
  <2>1. outputs'[w] = rows /\ pc'[w] = "reserve"
    BY <1>1, <1>7, <1>12
  <2>2. Credited(rows, env'[w]) /\ Known(rows, env'[w], lastRow'[w])
    <3>1. CASE ended
      BY <1>6, <1>7, <1>8, <1>9, <1>12, <3>1, EpisodeBegins
    <3>2. CASE ~ended
      BY <1>7, <1>9, <1>10, <1>12, <3>2
    <3> QED
      BY <3>1, <3>2
  <2> QED
    BY <2>1, <2>2 DEF CreditInv
<1> QED
  BY <1>11, <1>12

LEMMA StepKeepsCredit ==
    ASSUME TypeOK, NEW w \in Workers, CreditInv(w), WorkerStep(w)
    PROVE  CreditInv(w)'
<1>1. /\ pc \in [Workers -> {"start", "reserve", "generate", "finished", "crashed"}]
      /\ outputs \in [Workers -> Seq(Row)] /\ lastRow \in [Workers -> [Agents -> Nat]]
      /\ phase' = phase
  BY PhaseKept DEF TypeOK
<1>2. CASE ~Training
  BY <1>1, <1>2 DEF CreditInv, Training
<1>3. CASE Training /\ Begin(w)
  <2>1. pc'[w] = "reserve" /\ outputs'[w] = <<>> /\ lastRow'[w] = NoRows
    BY <1>1, <1>3 DEF Begin, Training, Validation
  <2>2. Credited(<<>>, env'[w]) /\ Known(<<>>, env'[w], NoRows)
    BY DEF Credited, Real, Known, NoRows
  <2> QED
    BY <2>1, <2>2 DEF CreditInv
<1>4. CASE Training /\ Reserve(w)
  <2>1. pc[w] = "reserve" /\ pc'[w] = "generate" /\ UNCHANGED <<outputs, env, lastRow>>
    BY <1>1, <1>4 DEF Reserve, envVars
  <2> QED
    BY <1>4, <2>1 DEF CreditInv
<1>5. CASE Training /\ Rejected(w)
  <2>1. pc[w] = "reserve" /\ LeaveLoop(w, outputs[w], {}) /\ env' = env
    BY <1>5 DEF Rejected, envVars
  <2>2. Credited(outputs[w], env'[w]) /\ outputs[w] \in Seq(Row)
    BY <1>1, <1>5, <2>1 DEF CreditInv
  <2> QED
    BY <1>1, <1>5, <2>1, <2>2, LeavingKeepsCredit
<1>6. CASE Training /\ Turn(w)
  BY <1>6, TurnKeepsCredit
<1> QED
  BY <1>2, <1>3, <1>4, <1>5, <1>6 DEF WorkerStep

LEMMA NextKeepsCredit ==
    ASSUME TypeOK, NEW v \in Workers, CreditInv(v), [Next]_vars
    PROVE  CreditInv(v)'
<1>1. ASSUME NEW mode \in {"train", "val"}, Dispatch(mode) PROVE CreditInv(v)'
  BY <1>1 DEF Dispatch, CreditInv
<1>2. ASSUME NEW w \in Workers, WorkerStep(w) PROVE CreditInv(v)'
  <2>1. CASE w = v
    BY <1>2, <2>1, StepKeepsCredit
  <2>2. CASE w # v
    <3>1. /\ pc'[v] = pc[v] /\ outputs'[v] = outputs[v] /\ lastRow'[v] = lastRow[v]
          /\ env'[v] = env[v] /\ phase' = phase
      BY <1>2, <2>2, OthersKept, PhaseKept
    <3> QED
      BY <3>1 DEF CreditInv, Training
  <2> QED
    BY <2>1, <2>2
<1>3. CASE Gather \/ Fail
  BY <1>3 DEF Gather, Fail, CreditInv, Training
<1>4. CASE UNCHANGED vars
  BY <1>4 DEF vars, managerVars, envVars, loopVars, CreditInv, Training
<1>5. CASE Stopped
  BY <1>4, <1>5 DEF Stopped
<1> QED
  BY <1>1, <1>2, <1>3, <1>4, <1>5 DEF Next

LEMMA CreditInvariant == Spec => [](TypeOK /\ \A w \in Workers : CreditInv(w))
<1>1. Init => \A w \in Workers : CreditInv(w)
  BY DEF Init, CreditInv, Training
<1>2. TypeOK /\ (\A w \in Workers : CreditInv(w)) /\ [Next]_vars =>
        (\A w \in Workers : CreditInv(w))'
  BY NextKeepsCredit
<1> QED
  BY <1>1, <1>2, TypeCorrect, PTL DEF Spec

-------------------------------------------------------------------------------
(* What leaves the worker.                                                 *)

\* The rows there were, then one for each of the three agents.
LEMMA BootstrapRows ==
    ASSUME NEW rows \in Seq(Row), ~CannotBootstrap(rows), NEW credited
    PROVE  LET b == WithBootstrap(rows, credited)
               n == Len(rows)
           IN  /\ n \in Nat \ {0} /\ DOMAIN rows = 1..n /\ DOMAIN b = 1..(n + 3)
               /\ b \in Seq(Row)
               /\ \A i \in 1..n : i \in 1..(n + 3) /\ b[i] = rows[i]
               /\ \A k \in 1..3 : /\ n + k \in 1..(n + 3)
                                  /\ b[n + k] = BootstrapRow(rows, BootAgents[k], credited)
               /\ \A i \in 1..(n + 3) : i \in 1..n \/ \E k \in 1..3 : i = n + k
<1> DEFINE n == Len(rows)
           b == WithBootstrap(rows, credited)
           boots == [k \in 1..Len(BootAgents) |-> BootstrapRow(rows, BootAgents[k], credited)]
<1>1. n \in Nat \ {0} /\ DOMAIN rows = 1..n
  BY DEF CannotBootstrap
<1>2. b \in Seq(Row) /\ Len(b) = n + 3
  BY WithBootstrapFacts
<1>3. DOMAIN b = 1..(n + 3)
  BY <1>1, <1>2
<1>4. \A i \in 1..n : i \in 1..(n + 3) /\ b[i] = rows[i]
  BY <1>1, WithBootstrapFacts
<1>5. \A k \in 1..3 : /\ n + k \in 1..(n + 3)
                      /\ b[n + k] = BootstrapRow(rows, BootAgents[k], credited)
  <2>1. Len(BootAgents) = 3
    BY DEF BootAgents
  <2>2. \A k \in 1..3 : boots[k] = BootstrapRow(rows, BootAgents[k], credited)
    BY <2>1
  <2>3. \A k \in 1..3 : boots[k] \in Row
    <3>1. rows[n] \in Row /\ n \in Nat
      BY <1>1
    <3>2. Len(BootAgents) = 3 /\ \A k \in 1..3 : BootAgents[k] \in AgentIds
      BY <2>1 DEF AgentIds
    <3> QED
      BY <3>1, <3>2 DEF BootstrapRow, Row
  <2>4. boots \in Seq(Row) /\ Len(boots) = 3 /\ b = rows \o boots
    BY <2>1, <2>3 DEF WithBootstrap
  <2> HIDE DEF boots, b
  <2>5. \A k \in 1..3 : b[n + k] = boots[k]
    <3> SUFFICES ASSUME NEW k \in 1..3 PROVE b[n + k] = boots[k]
      OBVIOUS
    <3>1. PICK i \in 1..(n + 3) : i = n + k /\ i - n = k /\ ~(i <= n)
      BY <1>1
    <3>2. i \in n + 1 .. Len(b)
      BY <1>1, <1>2, <3>1
    <3>3. b[i] = boots[i - n]
      BY <1>1, <1>2, <2>4, <3>2
    <3> QED
      BY <3>1, <3>3
  <2>6. \A k \in 1..3 : n + k \in 1..(n + 3)
    BY <1>1
  <2> QED
    BY <2>2, <2>5, <2>6
<1>6. \A i \in 1..(n + 3) : i \in 1..n \/ \E k \in 1..3 : i = n + k
  <2> SUFFICES ASSUME NEW i \in 1..(n + 3), i \notin 1..n PROVE \E k \in 1..3 : i = n + k
    OBVIOUS
  <2>1. i - n \in 1..3 /\ i = n + (i - n)
    BY <1>1
  <2> QED
    BY <2>1
<1> QED
  BY <1>1, <1>2, <1>3, <1>4, <1>5, <1>6

\* The rows of w that are turns, at any point of its loop.
LEMMA TurnsAmongRows ==
    ASSUME TypeOK, Training, NEW w \in Workers, CreditInv(w), pc[w] # "start"
    PROVE  \E rows \in Seq(Row) :
              /\ Credited(rows, env[w])
              /\ DOMAIN rows \subseteq DOMAIN outputs[w]
              /\ \A i \in DOMAIN rows : outputs[w][i] = rows[i]
              /\ \A i \in DOMAIN outputs[w] : outputs[w][i].boot <=> i \notin DOMAIN rows
<1>1. pc[w] \in {"start", "reserve", "generate", "finished", "crashed"}
      /\ outputs[w] \in Seq(Row)
  BY DEF TypeOK
<1>2. CASE pc[w] \in {"reserve", "generate", "crashed"}
  <2>1. Credited(outputs[w], env[w])
    BY <1>2 DEF CreditInv
  <2>2. \A i \in DOMAIN outputs[w] : ~outputs[w][i].boot
    BY <2>1 DEF Credited, Real
  <2> QED
    BY <1>1, <2>1, <2>2
<1>3. CASE pc[w] = "finished"
  <2>1. PICK rows \in Seq(Row) : /\ ~CannotBootstrap(rows) /\ Credited(rows, env[w])
                                 /\ outputs[w] = WithBootstrap(rows, {})
    BY <1>3 DEF CreditInv
  <2> DEFINE n == Len(rows)
  <2>2. /\ n \in Nat \ {0} /\ DOMAIN rows = 1..n /\ DOMAIN outputs[w] = 1..(n + 3)
        /\ \A i \in 1..n : i \in 1..(n + 3) /\ outputs[w][i] = rows[i]
        /\ \A k \in 1..3 : outputs[w][n + k] = BootstrapRow(rows, BootAgents[k], {})
        /\ \A i \in 1..(n + 3) : i \in 1..n \/ \E k \in 1..3 : i = n + k
    BY <2>1, BootstrapRows
  <2>3. \A k \in 1..3 : outputs[w][n + k].boot /\ n + k \notin 1..n
    BY <2>2 DEF BootstrapRow
  <2>4. \A i \in 1..n : ~outputs[w][i].boot
    BY <2>1, <2>2 DEF Credited, Real
  <2> HIDE DEF n
  <2> QED
    BY <2>1, <2>2, <2>3, <2>4
<1> QED
  BY <1>1, <1>2, <1>3

LEMMA UtilityOfRow ==
    ASSUME TypeOK, Training, NEW w \in Workers, CreditInv(w), pc[w] # "start",
           NEW i \in DOMAIN outputs[w], ~outputs[w][i].boot
    PROVE  LET paid == Over(env[w], outputs[w][i].episode) /\ LastInEpisode(w, i)
           IN  /\ outputs[w][i].credit = (IF paid THEN 1 ELSE 0)
               /\ outputs[w][i].done = paid
<1>1. PICK rows \in Seq(Row) :
              /\ Credited(rows, env[w])
              /\ DOMAIN rows \subseteq DOMAIN outputs[w]
              /\ \A j \in DOMAIN rows : outputs[w][j] = rows[j]
              /\ \A j \in DOMAIN outputs[w] : outputs[w][j].boot <=> j \notin DOMAIN rows
  BY TurnsAmongRows
<1>2. i \in DOMAIN rows /\ outputs[w][i] = rows[i]
  BY <1>1
<1>3. LastInEpisode(w, i) <=> Latest(rows, i)
  BY <1>1, <1>2 DEF LastInEpisode, Latest
<1>4. /\ rows[i].credit = IF Paid(rows, i, env[w]) THEN 1 ELSE 0
      /\ rows[i].done <=> Paid(rows, i, env[w])
  BY <1>1, <1>2 DEF Credited
<1>5. rows[i].done \in BOOLEAN
  BY <1>2, RowTypes
<1>6. Paid(rows, i, env[w]) <=> Over(env[w], outputs[w][i].episode) /\ LastInEpisode(w, i)
  BY <1>2, <1>3 DEF Paid
<1>7. (Over(env[w], outputs[w][i].episode) /\ LastInEpisode(w, i)) \in BOOLEAN
  BY DEF Over, LastInEpisode
<1> QED
  BY <1>2, <1>4, <1>5, <1>6, <1>7

\* Every agent's utility is added to exactly one row, its last of the episode,
\* and only that row is marked done, whatever agents the environment has and
\* however the workers shared the budget (tool_agent_loop.py:716).
THEOREM UtilityRoutedOnceHolds == Spec => []UtilityRoutedOnce
<1>1. TypeOK /\ (\A w \in Workers : CreditInv(w)) => UtilityRoutedOnce
  <2> SUFFICES ASSUME TypeOK, \A w \in Workers : CreditInv(w), Training,
                      NEW w \in Workers, pc[w] # "start",
                      NEW i \in DOMAIN outputs[w], ~outputs[w][i].boot
               PROVE  LET paid == Over(env[w], outputs[w][i].episode) /\ LastInEpisode(w, i)
                      IN  /\ outputs[w][i].credit = (IF paid THEN 1 ELSE 0)
                          /\ outputs[w][i].done = paid
    BY DEF UtilityRoutedOnce
  <2> QED
    BY UtilityOfRow
<1> QED
  BY <1>1, CreditInvariant, PTL

LEMMA RowsDoNotLeak ==
    ASSUME TypeOK, Training, NEW w \in Workers, CreditInv(w), pc[w] = "finished",
           NEW i \in DOMAIN outputs[w], NEW j \in DOMAIN outputs[w],
           i < j, outputs[w][i].agent = outputs[w][j].agent,
           outputs[w][i].episode # outputs[w][j].episode
    PROVE  \E k \in i..j-1 : outputs[w][k].agent = outputs[w][i].agent /\ outputs[w][k].done
<1>1. PICK rows \in Seq(Row) : /\ ~CannotBootstrap(rows) /\ Credited(rows, env[w])
                               /\ outputs[w] = WithBootstrap(rows, {})
  BY DEF CreditInv
<1> DEFINE n == Len(rows)
           b == outputs[w]
<1>2. /\ n \in Nat \ {0} /\ DOMAIN rows = 1..n /\ DOMAIN b = 1..(n + 3)
      /\ \A x \in 1..n : x \in 1..(n + 3) /\ b[x] = rows[x]
      /\ \A x \in 1..3 : b[n + x] = BootstrapRow(rows, BootAgents[x], {})
      /\ \A x \in 1..(n + 3) : x \in 1..n \/ \E y \in 1..3 : x = n + y
  BY <1>1, BootstrapRows
<1> HIDE DEF n
\* A bootstrap row has the episode of the last turn.
<1>3. \A y \in 1..3 : /\ b[n + y].agent = BootAgents[y] /\ b[n + y].episode = rows[n].episode
                      /\ n < n + y
  BY <1>2 DEF BootstrapRow, n
<1>4. i \in 1..n
  <2> SUFFICES ASSUME i \notin 1..n PROVE FALSE
    OBVIOUS
  <2>1. PICK y \in 1..3 : i = n + y
    BY <1>2
  <2>2. j \notin 1..n
    BY <1>2, <2>1
  <2>3. PICK z \in 1..3 : j = n + z
    BY <1>2, <2>2
  <2> QED
    BY <1>3, <2>1, <2>3
<1>5. env[w].episode \in Nat
  BY DEF TypeOK, EnvState
<1>6. \A x \in 1..n : rows[x].episode \in Nat /\ rows[x].episode <= env[w].episode
  BY <1>1, <1>2, RowTypes DEF Credited
\* The row of b that gives j its episode comes after i.
<1>7. \E x \in 1..n : i <= x /\ x <= j /\ b[j].episode = rows[x].episode
  <2>1. CASE j \in 1..n
    BY <1>2, <1>4, <2>1
  <2>2. CASE j \notin 1..n
    <3>1. PICK z \in 1..3 : j = n + z
      BY <1>2, <2>2
    <3> QED
      BY <1>2, <1>3, <1>4, <3>1, SMTT(20)
  <2> QED
    BY <2>1, <2>2
<1>8. rows[i].episode < b[j].episode /\ b[j].episode <= env[w].episode
  <2>1. PICK x \in 1..n : i <= x /\ b[j].episode = rows[x].episode
    BY <1>7
  <2>2. rows[i].episode <= rows[x].episode
    BY <1>1, <1>2, <1>4, <2>1 DEF Credited
  <2>3. rows[i].episode # b[j].episode
    BY <1>2, <1>4
  <2> QED
    BY <1>4, <1>6, <2>1, <2>2, <2>3
<1>9. Over(env[w], rows[i].episode)
  BY <1>4, <1>5, <1>6, <1>7, <1>8 DEF Over
<1>10. PICK k \in 1..n : /\ i <= k /\ rows[k].done
                         /\ rows[k].agent = rows[i].agent /\ rows[k].episode = rows[i].episode
  BY <1>1, <1>2, <1>4, <1>9 DEF Credited
<1>11. k < j
  <2>1. CASE j \in 1..n
    <3> SUFFICES ASSUME j <= k PROVE FALSE
      BY <1>2, <2>1
    <3>1. rows[j].episode <= rows[k].episode
      BY <1>1, <1>2, <2>1 DEF Credited
    <3> QED
      BY <1>2, <1>6, <1>8, <1>4, <1>10, <2>1, <3>1
  <2>2. CASE j \notin 1..n
    <3>1. PICK z \in 1..3 : j = n + z
      BY <1>2, <2>2
    <3> QED
      BY <1>2, <3>1
  <2> QED
    BY <2>1, <2>2
<1>12. k \in i..j-1 /\ b[k] = rows[k] /\ b[i] = rows[i]
  BY <1>2, <1>4, <1>10, <1>11
<1> QED
  BY <1>10, <1>12

\* In a gathered training rollout, a chain that passes from one episode to
\* another has a done row in between, and a bootstrap row adds no reward: GAE
\* carries nothing across the end of an episode (core_algos.py:311).
THEOREM NoLeakAcrossEpisodesHolds == Spec => []NoLeakAcrossEpisodes
<1>1. ASSUME TypeOK, Training, NEW w \in Workers, CreditInv(w), pc[w] = "finished",
             NEW j \in DOMAIN outputs[w], outputs[w][j].boot
      PROVE  outputs[w][j].credit = 0
  <2>1. PICK rows \in Seq(Row) : /\ ~CannotBootstrap(rows) /\ Credited(rows, env[w])
                                 /\ outputs[w] = WithBootstrap(rows, {})
    BY <1>1 DEF CreditInv
  <2> DEFINE n == Len(rows)
  <2>2. /\ DOMAIN rows = 1..n /\ DOMAIN outputs[w] = 1..(n + 3)
        /\ \A x \in 1..n : outputs[w][x] = rows[x]
        /\ \A x \in 1..3 : outputs[w][n + x] = BootstrapRow(rows, BootAgents[x], {})
        /\ \A x \in 1..(n + 3) : x \in 1..n \/ \E y \in 1..3 : x = n + y
    BY <2>1, BootstrapRows
  <2> HIDE DEF n
  <2>3. j \notin 1..n
    BY <1>1, <2>1, <2>2 DEF Credited, Real
  <2>4. PICK y \in 1..3 : j = n + y
    BY <1>1, <2>2, <2>3
  <2> QED
    BY <2>2, <2>4 DEF BootstrapRow
<1>2. TypeOK /\ (\A w \in Workers : CreditInv(w)) => NoLeakAcrossEpisodes
  BY <1>1, RowsDoNotLeak DEF NoLeakAcrossEpisodes
<1> QED
  BY <1>2, CreditInvariant, PTL

-------------------------------------------------------------------------------
(* Stripping, for an environment whose agents are the three that bootstrap *)
(* rows are made for.  (With a fourth one, rollout_five shows a chain that *)
(* ends in a real row, and loses it.)                                      *)

ThreeAgents == Agents \subseteq {"prof_1", "prof_2", "prof_3"}

\* The last row of each of the three agents' chains is its bootstrap row.
LEMMA BootstrapRowIsLast ==
    ASSUME ThreeAgents, NEW w \in Workers, NEW rows \in Seq(Row), NEW credited,
           ~CannotBootstrap(rows), Real(rows), outputs[w] = WithBootstrap(rows, credited),
           NEW k \in 1..3
    PROVE  LastOfChain(w, BootAgents[k]) = Len(rows) + k
<1> DEFINE n == Len(rows)
           b == outputs[w]
           a == BootAgents[k]
           IsLast(i) == \A j \in Chain(w, a) \ {i} :
                            \/ b[j].turn_id < b[i].turn_id
                            \/ b[j].turn_id = b[i].turn_id /\ j < i
<1>1. /\ n \in Nat \ {0} /\ DOMAIN rows = 1..n /\ DOMAIN b = 1..(n + 3)
      /\ \A x \in 1..n : x \in 1..(n + 3) /\ b[x] = rows[x]
      /\ \A x \in 1..3 : /\ n + x \in 1..(n + 3)
                         /\ b[n + x] = BootstrapRow(rows, BootAgents[x], credited)
      /\ \A x \in 1..(n + 3) : x \in 1..n \/ \E y \in 1..3 : x = n + y
  BY BootstrapRows
<1>2. \A x \in 1..3 : b[n + x].agent = BootAgents[x] /\ b[n + x].turn_id = n
  BY <1>1 DEF BootstrapRow
<1>3. \A x \in 1..n : b[x].turn_id = x - 1
  BY <1>1 DEF Real
<1> HIDE DEF n
<1>4. \A x \in 1..3 : BootAgents[x] = a => x = k
  BY DEF BootAgents
<1>5. n + k \in Chain(w, a)
  BY <1>1, <1>2 DEF Chain
<1>6. ASSUME NEW j \in Chain(w, a), j # n + k
      PROVE  b[j].turn_id < b[n + k].turn_id
  <2>1. j \in 1..(n + 3) /\ b[j].agent = a
    BY <1>1, <1>6 DEF Chain
  <2>2. j \in 1..n
    <3> SUFFICES ASSUME j \notin 1..n PROVE FALSE
      OBVIOUS
    <3>1. PICK y \in 1..3 : j = n + y
      BY <1>1, <2>1
    <3> QED
      BY <1>2, <1>4, <1>6, <2>1, <3>1
  <2> QED
    BY <1>1, <1>2, <1>3, <2>2
<1>7. IsLast(n + k)
  BY <1>6
<1>8. ASSUME NEW i \in Chain(w, a), IsLast(i) PROVE i = n + k
  <2> SUFFICES ASSUME i # n + k PROVE FALSE
    OBVIOUS
  <2>1. b[i].turn_id < b[n + k].turn_id
    BY <1>6
  <2>2. b[n + k].turn_id = n /\ b[i].turn_id \in Int
    <3>1. i \in 1..(n + 3)
      BY <1>1, <1>8 DEF Chain
    <3> QED
      BY <1>1, <1>2, <1>3, <3>1
  <2>3. b[n + k].turn_id < b[i].turn_id \/ b[n + k].turn_id = b[i].turn_id
    BY <1>5, <1>8
  <2> QED
    BY <1>1, <2>1, <2>2, <2>3
<1>9. LastOfChain(w, a) = CHOOSE i \in Chain(w, a) : IsLast(i)
  BY DEF LastOfChain
<1> HIDE DEF IsLast
<1>10. (CHOOSE i \in Chain(w, a) : IsLast(i)) = n + k
  BY <1>5, <1>7, <1>8
<1> QED
  BY <1>9, <1>10 DEF n

\* The agents of a worker's rows are the three.
LEMMA ChainsOfThree ==
    ASSUME ThreeAgents, NEW w \in Workers, NEW rows \in Seq(Row), NEW credited,
           ~CannotBootstrap(rows), Real(rows), outputs[w] = WithBootstrap(rows, credited)
    PROVE  ChainAgents(w) = {BootAgents[k] : k \in 1..3}
<1> DEFINE n == Len(rows)
           b == outputs[w]
<1>1. /\ DOMAIN rows = 1..n /\ DOMAIN b = 1..(n + 3)
      /\ \A x \in 1..n : b[x] = rows[x]
      /\ \A x \in 1..3 : /\ n + x \in 1..(n + 3)
                         /\ b[n + x] = BootstrapRow(rows, BootAgents[x], credited)
      /\ \A x \in 1..(n + 3) : x \in 1..n \/ \E y \in 1..3 : x = n + y
  BY BootstrapRows
<1>2. \A x \in 1..3 : b[n + x].agent = BootAgents[x]
  BY <1>1 DEF BootstrapRow
<1> HIDE DEF n
<1>3. \A x \in 1..n : b[x].agent \in {BootAgents[k] : k \in 1..3}
  <2>1. \A x \in 1..n : b[x].agent \in {"prof_1", "prof_2", "prof_3"}
    BY <1>1 DEF Real, ThreeAgents
  <2>2. BootAgents[1] = "prof_1" /\ BootAgents[2] = "prof_2" /\ BootAgents[3] = "prof_3"
    BY DEF BootAgents
  <2>3. 1 \in 1..3 /\ 2 \in 1..3 /\ 3 \in 1..3
    OBVIOUS
  <2> QED
    BY <2>1, <2>2, <2>3
<1>4. ChainAgents(w) \subseteq {BootAgents[k] : k \in 1..3}
  BY <1>1, <1>2, <1>3 DEF ChainAgents
<1>5. {BootAgents[k] : k \in 1..3} \subseteq ChainAgents(w)
  BY <1>1, <1>2 DEF ChainAgents
<1> QED
  BY <1>4, <1>5

\* Dropping the last row of every chain drops the bootstrap rows and no other
\* (metric_utils.py remove_last_turn_in_episode_multiagent).
THEOREM StripLeavesRealRowsHolds ==
    ASSUME ThreeAgents
    PROVE  Spec => []StripLeavesRealRows
<1>1. ASSUME TypeOK, Training, NEW w \in Workers, CreditInv(w), pc[w] = "finished"
      PROVE  {LastOfChain(w, a) : a \in ChainAgents(w)}
               = {i \in DOMAIN outputs[w] : outputs[w][i].boot}
  <2>1. PICK rows \in Seq(Row) : /\ ~CannotBootstrap(rows) /\ Credited(rows, env[w])
                                 /\ outputs[w] = WithBootstrap(rows, {})
    BY <1>1 DEF CreditInv
  <2>2. Real(rows)
    BY <2>1 DEF Credited
  <2> DEFINE n == Len(rows)
             b == outputs[w]
  <2>3. /\ DOMAIN rows = 1..n /\ DOMAIN b = 1..(n + 3)
        /\ \A x \in 1..n : b[x] = rows[x]
        /\ \A x \in 1..3 : /\ n + x \in 1..(n + 3)
                           /\ b[n + x] = BootstrapRow(rows, BootAgents[x], {})
        /\ \A x \in 1..(n + 3) : x \in 1..n \/ \E y \in 1..3 : x = n + y
    BY <2>1, BootstrapRows
  <2>4. \A k \in 1..3 : LastOfChain(w, BootAgents[k]) = n + k
    BY <2>1, <2>2, BootstrapRowIsLast
  <2>5. ChainAgents(w) = {BootAgents[k] : k \in 1..3}
    BY <2>1, <2>2, ChainsOfThree
  <2>6. {LastOfChain(w, a) : a \in ChainAgents(w)} = {n + k : k \in 1..3}
    BY <2>4, <2>5
  <2>7. \A x \in 1..3 : b[n + x].boot
    BY <2>3 DEF BootstrapRow
  <2>8. \A x \in 1..n : ~b[x].boot
    BY <2>2, <2>3 DEF Real
  <2> HIDE DEF n
  <2>9. {i \in DOMAIN b : b[i].boot} = {n + k : k \in 1..3}
    BY <2>3, <2>7, <2>8
  <2> QED
    BY <2>6, <2>9
<1>2. TypeOK /\ (\A w \in Workers : CreditInv(w)) => StripLeavesRealRows
  BY <1>1 DEF StripLeavesRealRows, AllFinished
<1> QED
  BY <1>2, CreditInvariant, PTL

-------------------------------------------------------------------------------
(* Validation.                                                             *)

\* The turns of one episode, from its first observation on.
OneEpisode(rows, e) ==
    /\ Real(rows)
    /\ \A i \in DOMAIN rows : rows[i].episode = e.episode
    /\ 1 \in DOMAIN rows => ~rows[1].prompt.terminal

\* A validation worker never asks the counter, and plays its own environment's
\* episode until it is over.
EpisodePlayed(w) ==
    Validation =>
        /\ pc[w] # "reserve"
        /\ pc[w] = "generate" =>
              ~fills[w] /\ ~valEnv[w].done /\ OneEpisode(outputs[w], valEnv[w])
        /\ pc[w] = "finished" =>
              \E rows \in Seq(Row) :
                  /\ ~CannotBootstrap(rows) /\ OneEpisode(rows, valEnv[w])
                  /\ outputs[w] = WithBootstrap(rows, Agents)
                  /\ valEnv[w].done

CounterIdle == Validation => counter.num_turns = 0

ValidationInv == CounterIdle /\ \A w \in Workers : EpisodePlayed(w)

LEMMA AppendKeepsEpisode ==
    ASSUME NEW rows \in Seq(Row), NEW e \in EnvState, NEW row \in Row,
           OneEpisode(rows, e), ~row.boot, row.agent \in Agents, row.episode = e.episode,
           row.turn_id = Len(rows), ~row.prompt.terminal
    PROVE  OneEpisode(Append(rows, row), e)
<1> DEFINE n == Len(rows)
           new == Append(rows, row)
<1>1. /\ n \in Nat /\ DOMAIN rows = 1..n /\ DOMAIN new = 1..(n + 1)
      /\ \A i \in 1..n : new[i] = rows[i]
      /\ new[n + 1] = row
      /\ \A i \in 1..(n + 1) : i \in 1..n \/ i = n + 1
      /\ (n + 1) - 1 = n
  BY AppendFacts
<1>2. row.turn_id = n
  OBVIOUS
<1> HIDE DEF new, n
<1>3. Real(new) /\ \A i \in DOMAIN new : new[i].episode = e.episode
  BY <1>1, <1>2 DEF OneEpisode, Real
<1>4. ~new[1].prompt.terminal
  <2>1. CASE 1 \in 1..n
    BY <1>1, <2>1 DEF OneEpisode
  <2>2. CASE 1 \notin 1..n
    <3>1. n + 1 = 1
      BY <1>1, <2>2
    <3> QED
      BY <1>1, <3>1
  <2> QED
    BY <2>1, <2>2
<1>5. OneEpisode(new, e)
  BY <1>3, <1>4 DEF OneEpisode
<1> QED
  BY <1>5 DEF new

LEMMA RoutingKeepsEpisode ==
    ASSUME NEW rows \in Seq(Row), NEW e \in EnvState, NEW last, NEW closer, OneEpisode(rows, e)
    PROVE  OneEpisode(RouteUtilities(rows, last, closer), e)
<1> DEFINE q == RouteUtilities(rows, last, closer)
<1>1. DOMAIN q = DOMAIN rows /\ DOMAIN rows = 1..Len(rows)
  BY DEF RouteUtilities
<1>2. \A i \in DOMAIN rows :
        /\ q[i].agent = rows[i].agent /\ q[i].episode = rows[i].episode
        /\ q[i].turn_id = rows[i].turn_id /\ q[i].boot = rows[i].boot
        /\ q[i].prompt = rows[i].prompt
  BY <1>1, RoutedKeeps
<1> HIDE DEF q
<1>3. OneEpisode(q, e)
  BY <1>1, <1>2 DEF OneEpisode, Real
<1> QED
  BY <1>3 DEF q

LEMMA TurnKeepsEpisode ==
    ASSUME TypeOK, ActsOnCurrentObs, Validation, NEW w \in Workers, EpisodePlayed(w), Turn(w)
    PROVE  EpisodePlayed(w)'
<1>1. /\ pc \in [Workers -> {"start", "reserve", "generate", "finished", "crashed"}]
      /\ outputs \in [Workers -> Seq(Row)] /\ outputs[w] \in Seq(Row)
      /\ valEnv[w] \in EnvState /\ agent[w] \in Agents
  BY DEF TypeOK
<1>2. phase' = phase /\ fills' = fills /\ pc[w] = "generate"
  BY DEF Turn, managerVars
<1>3. CurrentEnv(w) = valEnv[w] /\ CurrentEnv(w)' = valEnv'[w]
  BY <1>2 DEF CurrentEnv, Validation
<1>4. ~fills[w] /\ ~valEnv[w].done /\ OneEpisode(outputs[w], valEnv[w])
  BY <1>2 DEF EpisodePlayed
<1>5. ~obs[w].terminal
  <2>1. obs[w] = GetLastObs(valEnv[w])
    BY <1>2, <1>3 DEF ActsOnCurrentObs
  <2> QED
    BY <1>4, <2>1 DEF GetLastObs
<1>6. PICK row \in Row, f \in EnvState, ended \in BOOLEAN : TurnOf(w, row, f, ended)
  BY TurnTaken
<1> DEFINE new == Append(outputs[w], row)
           rows == IF ended THEN RouteUtilities(new, lastRow[w], agent[w]) ELSE new
<1>7. /\ row.agent = agent[w] /\ row.episode = f.episode /\ row.turn_id = Len(outputs[w])
      /\ ~row.boot /\ row.prompt = obs[w] /\ f.episode = valEnv[w].episode /\ f.done = ended
  BY <1>3, <1>4, <1>6 DEF TurnOf
<1>8. IF ended
      THEN LeaveLoop(w, rows, Agents) /\ valEnv'[w] = f
      ELSE /\ outputs' = [outputs EXCEPT ![w] = rows] /\ pc' = [pc EXCEPT ![w] = "generate"]
           /\ valEnv'[w] = f
  BY <1>3, <1>4, <1>6 DEF TurnOf
<1>9. OneEpisode(outputs[w], f)
  BY <1>4, <1>7 DEF OneEpisode
<1>10. new \in Seq(Row) /\ OneEpisode(new, f)
  BY <1>1, <1>5, <1>7, <1>9, AppendKeepsEpisode
<1> HIDE DEF new
<1>11. rows \in Seq(Row) /\ OneEpisode(rows, f)
  BY <1>10, RouteUtilitiesFacts, RoutingKeepsEpisode
<1> HIDE DEF rows
<1>12. CASE ended /\ CannotBootstrap(rows)
  <2>1. pc'[w] = "crashed"
    BY <1>1, <1>8, <1>12 DEF LeaveLoop
  <2> QED
    BY <2>1 DEF EpisodePlayed
<1>13. CASE ended /\ ~CannotBootstrap(rows)
  <2>1. pc'[w] = "finished" /\ outputs'[w] = WithBootstrap(rows, Agents)
        /\ valEnv'[w] = f /\ f.done
    BY <1>1, <1>7, <1>8, <1>13 DEF LeaveLoop
  <2> QED
    BY <1>11, <1>13, <2>1 DEF EpisodePlayed
<1>14. CASE ~ended
  <2>1. pc'[w] = "generate" /\ outputs'[w] = rows /\ valEnv'[w] = f /\ ~f.done /\ ~fills'[w]
    BY <1>1, <1>2, <1>4, <1>7, <1>8, <1>14
  <2> QED
    BY <1>11, <2>1 DEF EpisodePlayed
<1> QED
  BY <1>12, <1>13, <1>14

LEMMA StepKeepsEpisode ==
    ASSUME TypeOK, ActsOnCurrentObs, NEW w \in Workers, EpisodePlayed(w), WorkerStep(w)
    PROVE  EpisodePlayed(w)'
<1>1. /\ pc \in [Workers -> {"start", "reserve", "generate", "finished", "crashed"}]
      /\ outputs \in [Workers -> Seq(Row)] /\ fills \in [Workers -> BOOLEAN]
      /\ valEnv \in [Workers -> EnvState] /\ phase' = phase
  BY PhaseKept DEF TypeOK
<1>2. CASE ~Validation
  BY <1>1, <1>2 DEF EpisodePlayed, Validation
<1>3. CASE Validation /\ Begin(w)
  <2>1. /\ pc'[w] = "generate" /\ outputs'[w] = <<>> /\ ~fills'[w]
        /\ \E active \in Agents : valEnv'[w] = Reset(valEnv[w], active)
    BY <1>1, <1>3 DEF Begin
  <2>2. ~valEnv'[w].done
    BY <2>1 DEF Reset
  <2>3. OneEpisode(<<>>, valEnv'[w])
    BY DEF OneEpisode, Real
  <2> QED
    BY <2>1, <2>2, <2>3 DEF EpisodePlayed
<1>4. CASE Validation /\ (Reserve(w) \/ Rejected(w))
  BY <1>4 DEF Reserve, Rejected, EpisodePlayed
<1>5. CASE Validation /\ Turn(w)
  BY <1>5, TurnKeepsEpisode
<1> QED
  BY <1>2, <1>3, <1>4, <1>5 DEF WorkerStep

LEMMA NextKeepsEpisodes ==
    TypeOK /\ ActsOnCurrentObs /\ ValidationInv /\ [Next]_vars => ValidationInv'
<1> SUFFICES ASSUME TypeOK, ActsOnCurrentObs, ValidationInv, [Next]_vars
             PROVE  ValidationInv'
  OBVIOUS
<1>1. ASSUME NEW mode \in {"train", "val"}, Dispatch(mode) PROVE ValidationInv'
  BY <1>1 DEF Dispatch, ValidationInv, CounterIdle, EpisodePlayed
<1>2. ASSUME NEW w \in Workers, WorkerStep(w) PROVE ValidationInv'
  <2>1. CounterIdle'
    <3>1. phase' = phase
      BY <1>2, PhaseKept
    <3>2. counter' = counter \/ ~Validation
      BY <1>2 DEF WorkerStep, Begin, Reserve, Rejected, Turn, ValidationInv, EpisodePlayed
    <3> QED
      BY <3>1, <3>2 DEF ValidationInv, CounterIdle, Validation
  <2>2. ASSUME NEW v \in Workers PROVE EpisodePlayed(v)'
    <3>1. EpisodePlayed(v)
      BY DEF ValidationInv
    <3>2. CASE w = v
      BY <1>2, <3>1, <3>2, StepKeepsEpisode
    <3>3. CASE w # v
      <4>1. /\ pc'[v] = pc[v] /\ outputs'[v] = outputs[v] /\ fills'[v] = fills[v]
            /\ valEnv'[v] = valEnv[v] /\ phase' = phase
        BY <1>2, <3>3, OthersKept, PhaseKept
      <4> QED
        BY <3>1, <4>1 DEF EpisodePlayed, Validation
    <3> QED
      BY <3>2, <3>3
  <2> QED
    BY <2>1, <2>2 DEF ValidationInv
<1>3. CASE Gather \/ Fail
  BY <1>3 DEF Gather, Fail, ValidationInv, CounterIdle, EpisodePlayed, Validation
<1>4. CASE UNCHANGED vars
  BY <1>4 DEF vars, managerVars, envVars, loopVars, ValidationInv, CounterIdle,
              EpisodePlayed, Validation
<1>5. CASE Stopped
  BY <1>4, <1>5 DEF Stopped
<1> QED
  BY <1>1, <1>2, <1>3, <1>4, <1>5 DEF Next

LEMMA ValidationInvariant == Spec => [](TypeOK /\ ValidationInv)
<1>1. Init => ValidationInv
  BY DEF Init, ValidationInv, CounterIdle, EpisodePlayed, Validation
<1> QED
  BY <1>1, NextKeepsEpisodes, TypeCorrect, ActsOnCurrentObsHolds, PTL DEF Spec

LEMMA ScoreOfWorker ==
    ASSUME ThreeAgents, Validation, NEW w \in Workers, EpisodePlayed(w), pc[w] = "finished"
    PROVE  /\ \A i, j \in DOMAIN outputs[w] : outputs[w][i].episode = outputs[w][j].episode
           /\ ~outputs[w][1].prompt.terminal
           /\ valEnv[w].done
           /\ \A a \in Agents : outputs[w][LastOfChain(w, a)].credit = 1
<1>1. PICK rows \in Seq(Row) : /\ ~CannotBootstrap(rows) /\ OneEpisode(rows, valEnv[w])
                               /\ outputs[w] = WithBootstrap(rows, Agents)
                               /\ valEnv[w].done
  BY DEF EpisodePlayed
<1> DEFINE n == Len(rows)
           b == outputs[w]
<1>2. /\ n \in Nat \ {0} /\ DOMAIN rows = 1..n /\ DOMAIN b = 1..(n + 3)
      /\ \A x \in 1..n : b[x] = rows[x]
      /\ \A x \in 1..3 : b[n + x] = BootstrapRow(rows, BootAgents[x], Agents)
      /\ \A x \in 1..(n + 3) : x \in 1..n \/ \E y \in 1..3 : x = n + y
  BY <1>1, BootstrapRows
<1>3. \A x \in 1..3 : /\ b[n + x].episode = rows[n].episode
                      /\ b[n + x].credit = IF BootAgents[x] \in Agents THEN 1 ELSE 0
  BY <1>2 DEF BootstrapRow
<1>4. \A k \in 1..3 : LastOfChain(w, BootAgents[k]) = n + k
  BY <1>1, BootstrapRowIsLast DEF OneEpisode
<1> HIDE DEF n
<1>5. 1 \in 1..n /\ n \in 1..n
  BY <1>2
<1>6. \A i \in DOMAIN b : b[i].episode = valEnv[w].episode
  BY <1>1, <1>2, <1>3, <1>5 DEF OneEpisode
<1>7. ~b[1].prompt.terminal
  BY <1>1, <1>2, <1>5 DEF OneEpisode
<1>8. ASSUME NEW a \in Agents PROVE b[LastOfChain(w, a)].credit = 1
  <2>1. a \in {"prof_1", "prof_2", "prof_3"}
    BY DEF ThreeAgents
  <2>2. BootAgents[1] = "prof_1" /\ BootAgents[2] = "prof_2" /\ BootAgents[3] = "prof_3"
    BY DEF BootAgents
  <2>3. PICK k \in 1..3 : BootAgents[k] = a
    BY <2>1, <2>2
  <2> QED
    BY <1>3, <1>4, <2>3
<1> QED
  BY <1>1, <1>6, <1>7, <1>8

\* What a finished validation call reports for a worker is one whole episode of
\* its own environment, each agent's utility once, at the end of its chain
\* (tool_agent_loop.py:778).
THEOREM ValidationScoreHolds ==
    ASSUME ThreeAgents
    PROVE  Spec => []ValidationScore
<1>1. TypeOK /\ ValidationInv => ValidationScore
  BY ScoreOfWorker DEF ValidationInv, CounterIdle, ValidationScore, AllFinished
<1> QED
  BY <1>1, ValidationInvariant, PTL

-------------------------------------------------------------------------------
(* Episodes.                                                               *)

\* What a step may do to the training environment of w.
PlaysOn(w) ==
    /\ env'[w].episode # env[w].episode =>
          \/ env[w].done
          \/ \E i \in DOMAIN outputs'[w] : /\ outputs'[w][i].episode = env[w].episode
                                          /\ outputs'[w][i].done
    /\ Validation => env'[w] = env[w]

\* A training turn moves to another episode with the row that ended the old one.
LEMMA TrainingTurnPlaysOn ==
    ASSUME TypeOK, Training, NEW w \in Workers, Turn(w)
    PROVE  PlaysOn(w)
<1>1. /\ outputs \in [Workers -> Seq(Row)] /\ outputs[w] \in Seq(Row)
      /\ env[w] \in EnvState /\ agent[w] \in Agents
  BY DEF TypeOK
<1>2. phase' = phase /\ ~Validation
  BY DEF Turn, managerVars, Training, Validation
<1>3. CurrentEnv(w) = env[w] /\ CurrentEnv(w)' = env'[w]
  BY <1>2 DEF CurrentEnv, Validation
<1>4. PICK row \in Row, f \in EnvState, ended \in BOOLEAN : TurnOf(w, row, f, ended)
  BY TurnTaken
<1> DEFINE n == Len(outputs[w])
           new == Append(outputs[w], row)
           rows == RouteUtilities(new, lastRow[w], agent[w])
<1>5. /\ row.episode = f.episode /\ row.done = ended
      /\ f.episode = IF env[w].done THEN env[w].episode + 1 ELSE env[w].episode
  BY <1>3, <1>4 DEF TurnOf
<1>6. CASE env[w].done
  BY <1>2, <1>6 DEF PlaysOn
<1>7. CASE ~env[w].done /\ (fills[w] \/ ~ended)
  <2>1. env'[w] = f
    BY <1>2, <1>3, <1>4, <1>7 DEF TurnOf
  <2> QED
    BY <1>2, <1>5, <1>7, <2>1 DEF PlaysOn
<1>8. CASE ~env[w].done /\ ~fills[w] /\ ended
  <2>1. outputs' = [outputs EXCEPT ![w] = rows]
    BY <1>2, <1>4, <1>8 DEF TurnOf
  <2>2. /\ n \in Nat /\ new \in Seq(Row) /\ Len(new) = n + 1 /\ new[n + 1] = row
        /\ DOMAIN new = 1..(n + 1) /\ n + 1 \in 1..(n + 1)
    BY <1>1, AppendFacts
  <2> HIDE DEF n, new
  <2>3. rows[n + 1].episode = row.episode
    BY <2>2, RoutedKeeps
  <2>4. rows[n + 1].done
    <3>1. n + 1 \in 1..Len(new)
      BY <2>2
    <3>2. Hit(lastRow[w], agent[w], n + 1) => rows[n + 1].done = TRUE
      BY <2>2, <3>1, RoutedCredits
    <3>3. ~Hit(lastRow[w], agent[w], n + 1) => rows[n + 1] = row
      BY <2>2, <3>1, RoutedOthers
    <3> QED
      BY <1>5, <1>8, <3>2, <3>3
  <2>5. DOMAIN rows = 1..(n + 1)
    BY <2>2 DEF RouteUtilities
  <2> HIDE DEF rows
  <2>6. outputs'[w] = rows
    BY <1>1, <2>1
  <2> QED
    BY <1>2, <1>5, <1>8, <2>2, <2>3, <2>4, <2>5, <2>6 DEF PlaysOn
<1> QED
  BY <1>6, <1>7, <1>8

LEMMA StepPlaysOn ==
    ASSUME TypeOK, NEW v \in Workers, NEW w \in Workers, WorkerStep(v)
    PROVE  PlaysOn(w)
<1>1. CASE env'[w] = env[w]
  BY <1>1 DEF PlaysOn
<1>2. CASE v # w
  BY <1>1, <1>2, OthersKept
<1>3. CASE Begin(v) \/ Reserve(v) \/ Rejected(v)
  <2>1. env' = env
    BY <1>3 DEF Begin, Reserve, Rejected, envVars
  <2> QED
    BY <1>1, <2>1
<1>4. CASE v = w /\ Turn(v) /\ Training
  BY <1>4, TrainingTurnPlaysOn
<1>5. CASE Turn(v) /\ ~Training
  <2>1. Validation
    BY <1>5, PhaseKept
  <2>2. \E e : SetEnv(v, e)
    BY <1>5, Zenon DEF Turn
  <2>3. env' = env
    BY <2>1, <2>2 DEF SetEnv
  <2> QED
    BY <1>1, <2>3
<1> QED
  BY <1>2, <1>3, <1>4, <1>5 DEF WorkerStep

\* A training episode is never abandoned: its environment goes on to another
\* one only when it is over, and validation leaves it alone, for any number of
\* workers and rollouts (tool_agent_loop.py:802, agent_loop.py:642).
THEOREM EpisodeRunsToEndHolds == Spec => EpisodeRunsToEnd
<1>1. ASSUME TypeOK, [Next]_vars PROVE [\A w \in Workers : PlaysOn(w)]_vars
  <2>1. ASSUME NEW mode \in {"train", "val"}, Dispatch(mode)
        PROVE  \A w \in Workers : PlaysOn(w)
    BY <2>1 DEF Dispatch, envVars, PlaysOn
  <2>2. ASSUME NEW v \in Workers, WorkerStep(v) PROVE \A w \in Workers : PlaysOn(w)
    BY <1>1, <2>2, StepPlaysOn
  <2>3. CASE Gather \/ Fail
    BY <2>3 DEF Gather, Fail, envVars, PlaysOn
  <2>4. CASE Stopped \/ UNCHANGED vars
    BY <2>4 DEF Stopped
  <2> QED
    BY <1>1, <2>1, <2>2, <2>3, <2>4 DEF Next
<1>2. (\A w \in Workers : PlaysOn(w)) <=>
      \A w \in Workers :
          /\ env'[w].episode # env[w].episode =>
                \/ env[w].done
                \/ \E i \in DOMAIN outputs'[w] : /\ outputs'[w][i].episode = env[w].episode
                                                /\ outputs'[w][i].done
          /\ Validation => env'[w] = env[w]
  BY DEF PlaysOn
<1> QED
  BY <1>1, <1>2, TypeCorrect, PTL DEF Spec, EpisodeRunsToEnd

-------------------------------------------------------------------------------
(* The rows of a worker, in the order of its chains.                       *)

\* Row j is the next one of the agent of row i.
Follows(rows, i, j) ==
    /\ i < j /\ rows[j].agent = rows[i].agent
    /\ \A k \in DOMAIN rows : i < k /\ k < j => rows[k].agent # rows[i].agent

\* What GAE meets on its way along the rows b that a worker leaves, in an
\* environment e: the turn numbers of a chain rise, its last row and no other
\* is a bootstrap row; done is where an episode that is over ends, and there is
\* the credit; from any other row of an episode the next row is of the same
\* episode, or of one that is not over either, or ends the chain.
WellChained(b, e) ==
    /\ \E n \in Nat : DOMAIN b = 1..n
    /\ \A i \in DOMAIN b : b[i] \in Row
    /\ \A i, j \in DOMAIN b : i < j /\ b[i].agent = b[j].agent => b[i].turn_id < b[j].turn_id
    /\ \A i \in DOMAIN b :
          b[i].boot <=> ~\E j \in DOMAIN b : i < j /\ b[i].agent = b[j].agent
    /\ \A i \in DOMAIN b : ~b[i].boot =>
          /\ b[i].credit = IF b[i].done THEN 1 ELSE 0
          /\ b[i].done => Over(e, b[i].episode)
    /\ \A i, j \in DOMAIN b : Follows(b, i, j) =>
          /\ Over(e, b[i].episode) /\ ~b[i].done => ~b[j].boot /\ Over(e, b[j].episode)
          /\ ~Over(e, b[i].episode) => b[j].boot \/ ~Over(e, b[j].episode)

LEMMA RowsAreWellChained ==
    ASSUME ThreeAgents, TypeOK, NEW w \in Workers,
           NEW rows \in Seq(Row), ~CannotBootstrap(rows), Credited(rows, env[w])
    PROVE  WellChained(WithBootstrap(rows, {}), env[w])
<1> DEFINE b == WithBootstrap(rows, {})
           n == Len(rows)
           e == env[w]
<1>1. /\ n \in Nat \ {0} /\ DOMAIN rows = 1..n /\ DOMAIN b = 1..(n + 3)
      /\ b \in Seq(Row)
      /\ \A i \in 1..n : i \in 1..(n + 3) /\ b[i] = rows[i]
      /\ \A k \in 1..3 : /\ n + k \in 1..(n + 3)
                         /\ b[n + k] = BootstrapRow(rows, BootAgents[k], {})
      /\ \A i \in 1..(n + 3) : i \in 1..n \/ \E k \in 1..3 : i = n + k
  BY BootstrapRows
<1>2. /\ Real(rows)
      /\ \A i, j \in 1..n : i <= j => rows[i].episode <= rows[j].episode
      /\ \A i \in 1..n : /\ rows[i].credit = IF Paid(rows, i, e) THEN 1 ELSE 0
                         /\ rows[i].done <=> Paid(rows, i, e)
  BY <1>1 DEF Credited
<1>3. \A k \in 1..3 : /\ b[n + k].agent = BootAgents[k] /\ b[n + k].turn_id = n
                      /\ b[n + k].boot
  BY <1>1 DEF BootstrapRow
<1>4. \A i \in 1..n : ~b[i].boot /\ b[i].turn_id = i - 1 /\ b[i].agent \in Agents
  BY <1>1, <1>2 DEF Real
<1>5. \A k, l \in 1..3 : BootAgents[k] = BootAgents[l] => k = l
  BY DEF BootAgents
<1>6. \A a \in Agents : \E k \in 1..3 : BootAgents[k] = a
  <2>1. BootAgents[1] = "prof_1" /\ BootAgents[2] = "prof_2" /\ BootAgents[3] = "prof_3"
    BY DEF BootAgents
  <2>2. 1 \in 1..3 /\ 2 \in 1..3 /\ 3 \in 1..3
    OBVIOUS
  <2> QED
    BY <2>1, <2>2 DEF ThreeAgents
<1>7. e.episode \in Nat
  BY DEF TypeOK, EnvState
<1>8. \A i \in 1..n : rows[i] \in Row /\ rows[i].episode \in Nat
  BY <1>1, RowTypes
<1> HIDE DEF b, n, e
<1>9. \A i \in 1..(n + 3) : b[i] \in Row
  BY <1>1
<1>10. \A i \in 1..n : \E j \in 1..(n + 3) : i < j /\ b[i].agent = b[j].agent
  <2> TAKE i \in 1..n
  <2>1. PICK k \in 1..3 : BootAgents[k] = b[i].agent
    BY <1>4, <1>6
  <2>2. i < n + k
    BY <1>1
  <2> QED
    BY <1>1, <1>3, <2>1, <2>2
<1>11. ASSUME NEW k \in 1..3, NEW j \in 1..(n + 3), n + k < j, b[n + k].agent = b[j].agent
       PROVE  FALSE
  <2>1. j \notin 1..n
    BY <1>1, <1>11
  <2>2. PICK l \in 1..3 : j = n + l
    BY <1>1, <2>1
  <2> QED
    BY <1>1, <1>3, <1>5, <1>11, <2>2
<1>12. ASSUME NEW i \in 1..(n + 3), NEW j \in 1..(n + 3), i < j, b[i].agent = b[j].agent
       PROVE  i \in 1..n /\ b[i].turn_id < b[j].turn_id
  <2>1. i \in 1..n
    BY <1>1, <1>11, <1>12
  <2>2. CASE j \in 1..n
    BY <1>4, <1>12, <2>1, <2>2
  <2>3. CASE j \notin 1..n
    <3>1. PICK l \in 1..3 : j = n + l
      BY <1>1, <2>3
    <3> QED
      BY <1>1, <1>3, <1>4, <2>1, <3>1
  <2> QED
    BY <2>1, <2>2, <2>3
<1>13. \A i \in 1..(n + 3) :
          b[i].boot <=> ~\E j \in 1..(n + 3) : i < j /\ b[i].agent = b[j].agent
  <2> TAKE i \in 1..(n + 3)
  <2>1. CASE i \in 1..n
    BY <1>4, <1>10, <2>1
  <2>2. CASE i \notin 1..n
    BY <1>3, <1>1, <1>11, <2>2
  <2> QED
    BY <2>1, <2>2
<1>14. \A i \in 1..(n + 3) : ~b[i].boot =>
          /\ i \in 1..n
          /\ b[i].credit = IF b[i].done THEN 1 ELSE 0
          /\ b[i].done => Over(e, b[i].episode)
  <2> SUFFICES ASSUME NEW i \in 1..(n + 3), ~b[i].boot
               PROVE  /\ i \in 1..n
                      /\ b[i].credit = IF b[i].done THEN 1 ELSE 0
                      /\ b[i].done => Over(e, b[i].episode)
    OBVIOUS
  <2>1. i \in 1..n /\ b[i] = rows[i]
    BY <1>1, <1>3
  <2> QED
    BY <1>2, <2>1 DEF Paid
<1>15. ASSUME NEW i \in 1..(n + 3), NEW j \in 1..(n + 3), Follows(b, i, j)
       PROVE  /\ Over(e, b[i].episode) /\ ~b[i].done => ~b[j].boot /\ Over(e, b[j].episode)
              /\ ~Over(e, b[i].episode) => b[j].boot \/ ~Over(e, b[j].episode)
  <2>1. /\ i < j /\ b[j].agent = b[i].agent
        /\ \A k \in 1..(n + 3) : i < k /\ k < j => b[k].agent # b[i].agent
    BY <1>1, <1>15 DEF Follows
  <2>2. i \in 1..n /\ b[i] = rows[i]
    BY <1>1, <1>12, <2>1
  <2>3. ASSUME Over(e, b[i].episode), ~b[i].done PROVE ~b[j].boot /\ Over(e, b[j].episode)
    <3>1. ~Latest(rows, i)
      BY <1>2, <2>2, <2>3 DEF Paid
    <3>2. PICK k \in 1..n : /\ rows[k].agent = rows[i].agent
                            /\ rows[k].episode = rows[i].episode /\ ~(k <= i)
      BY <1>1, <3>1 DEF Latest
    <3>3. k \in 1..(n + 3) /\ i < k /\ b[k].agent = b[i].agent
      BY <1>1, <2>2, <3>2
    <3>4. j <= k
      BY <1>1, <2>1, <3>3
    <3>5. j \in 1..n
      BY <1>1, <3>4
    <3>6. rows[i].episode <= rows[j].episode /\ rows[j].episode <= rows[k].episode
      BY <1>2, <2>1, <2>2, <3>4, <3>5
    <3>7. rows[j].episode = rows[i].episode
      BY <1>8, <2>2, <3>2, <3>5, <3>6
    <3> QED
      BY <1>1, <1>4, <2>2, <2>3, <3>5, <3>7
  <2>4. ASSUME ~Over(e, b[i].episode), ~b[j].boot PROVE ~Over(e, b[j].episode)
    <3>1. j \in 1..n /\ b[j] = rows[j]
      BY <1>1, <1>3, <2>4
    <3>2. rows[i].episode <= rows[j].episode
      BY <1>2, <2>1, <2>2, <3>1
    <3> QED
      BY <1>7, <1>8, <2>2, <2>4, <3>1, <3>2 DEF Over
  <2> QED
    BY <2>3, <2>4
<1>16. WellChained(b, e)
  <2>1. n + 3 \in Nat /\ DOMAIN b = 1..(n + 3)
    BY <1>1
  <2> QED
    BY <1>9, <1>12, <1>13, <1>14, <1>15, <2>1 DEF WellChained
<1> QED
  BY <1>16 DEF b, e

-------------------------------------------------------------------------------
(* The batch.                                                              *)

BatchRow(w, i) ==
    [env |-> w, agent |-> outputs[w][i].agent,
     turn_id |-> outputs[w][i].turn_id, done |-> outputs[w][i].done,
     row |-> outputs[w][i]]

\* The n rows of the batch are the rows of the workers, those of w from
\* at[w] + 1 on.
Laid(batch, n, at) ==
    /\ n \in Nat /\ DOMAIN batch = 1..n
    /\ \A w \in Workers : \A i \in DOMAIN outputs[w] :
          at[w] + i \in 1..n /\ batch[at[w] + i] = BatchRow(w, i)
    /\ \A j \in 1..n : \E w \in Workers : \E i \in DOMAIN outputs[w] : j = at[w] + i

LEMMA BatchLayout ==
    ASSUME TypeOK
    PROVE  \E n : \E at \in [Workers -> Nat] : Laid(Batch, n, at)
<1> DEFINE order == SetToSeq(Workers)
           c == Cardinality(Workers)
           A == {BatchRow(w, i) : w \in Workers, i \in Nat}
           part(w) == [i \in DOMAIN outputs[w] |-> BatchRow(w, i)]
           seqs == [k \in DOMAIN order |-> part(order[k])]
<1>1. /\ c \in Nat /\ order \in [1..c -> Workers] /\ order \in Seq(Workers) /\ Len(order) = c
      /\ \A k, l \in 1..c : order[k] = order[l] => k = l
      /\ \A w \in Workers : \E k \in 1..c : order[k] = w
  BY SetToSeqLists, WorkersAssumption
<1>2. Batch = FlattenSeq(seqs)
  BY DEF Batch, BatchRow
<1>3. \A w \in Workers : /\ outputs[w] \in Seq(Row) /\ Len(outputs[w]) \in Nat
                          /\ DOMAIN outputs[w] = 1..Len(outputs[w])
  BY DEF TypeOK
<1> HIDE DEF order, c
<1>4. \A w \in Workers : part(w) \in Seq(A) /\ Len(part(w)) = Len(outputs[w])
                         /\ \A i \in DOMAIN outputs[w] : part(w)[i] = BatchRow(w, i)
  <2> TAKE w \in Workers
  <2> DEFINE n == Len(outputs[w])
  <2>1. n \in Nat /\ DOMAIN outputs[w] = 1..n
    BY <1>3
  <2>2. \A i \in 1..n : BatchRow(w, i) \in A
    BY <2>1
  <2> HIDE DEF A, n
  <2>3. part(w) \in [1..n -> A] /\ \A i \in 1..n : part(w)[i] = BatchRow(w, i)
    BY <2>1, <2>2
  <2> HIDE DEF part
  <2> QED
    BY <2>1, <2>3 DEF n
<1> HIDE DEF part, A
<1>5. seqs \in Seq(Seq(A)) /\ Len(seqs) = c /\ \A k \in 1..c : seqs[k] = part(order[k])
  <2>1. DOMAIN order = 1..c /\ \A k \in 1..c : part(order[k]) \in Seq(A)
    BY <1>1, <1>4
  <2>2. seqs \in [1..c -> Seq(A)] /\ \A k \in 1..c : seqs[k] = part(order[k])
    BY <2>1
  <2> HIDE DEF seqs
  <2> QED
    BY <1>1, <2>2
<1> HIDE DEF seqs
<1>6. PICK off : Concatenates(Batch, seqs, c, off, A)
  BY <1>2, <1>5, FlattenConcatenates
<1> DEFINE n == off[c + 1]
           position == [w \in Workers |-> CHOOSE k \in 1..c : order[k] = w]
           at == [w \in Workers |-> off[position[w]]]
<1>7. \A w \in Workers : position[w] \in 1..c /\ order[position[w]] = w
  BY <1>1
<1> HIDE DEF position
<1>8. /\ off \in [1..(c + 1) -> Nat] /\ Batch \in Seq(A) /\ Len(Batch) = n
      /\ \A k \in 1..c : \A i \in 1..Len(seqs[k]) :
            off[k] + i \in 1..Len(Batch) /\ Batch[off[k] + i] = seqs[k][i]
      /\ \A j \in 1..Len(Batch) : \E k \in 1..c : \E i \in 1..Len(seqs[k]) : j = off[k] + i
  BY <1>6 DEF Concatenates
<1>9. at \in [Workers -> Nat] /\ n \in Nat /\ DOMAIN Batch = 1..n
  <2>1. n \in Nat /\ \A w \in Workers : off[position[w]] \in Nat
    BY <1>1, <1>7, <1>8
  <2> QED
    BY <1>8, <2>1
<1>10. \A w \in Workers : at[w] = off[position[w]]
  OBVIOUS
<1>11. \A k \in 1..c : at[order[k]] = off[k] /\ order[k] \in Workers
  BY <1>1, <1>7
<1> HIDE DEF at, n
<1>12. ASSUME NEW w \in Workers, NEW i \in DOMAIN outputs[w]
       PROVE  at[w] + i \in 1..n /\ Batch[at[w] + i] = BatchRow(w, i)
  <2>1. seqs[position[w]] = part(w)
    BY <1>5, <1>7
  <2>2. i \in 1..Len(seqs[position[w]])
    BY <1>3, <1>4, <2>1
  <2> QED
    BY <1>4, <1>7, <1>8, <1>10, <2>1, <2>2
<1>13. ASSUME NEW j \in 1..n
       PROVE  \E w \in Workers : \E i \in DOMAIN outputs[w] : j = at[w] + i
  <2>1. PICK k \in 1..c : \E i \in 1..Len(seqs[k]) : j = off[k] + i
    BY <1>8
  <2>2. DOMAIN outputs[order[k]] = 1..Len(seqs[k])
    BY <1>3, <1>4, <1>5, <1>11
  <2> QED
    BY <1>11, <2>1, <2>2
<1>14. Laid(Batch, n, at)
  BY <1>9, <1>12, <1>13 DEF Laid
<1> QED
  BY <1>9, <1>14

\* WellChained, row by row of the batch.
Chained(batch, n) ==
    /\ IsBatch(batch, n)
    /\ \A j \in 1..n : Later(batch, j) = {} <=> batch[j].row.boot
    /\ \A j \in 1..n : ~batch[j].row.boot =>
          LET over == EpisodeOver(batch[j])
              x    == Following(batch, j)
          IN  /\ batch[j].row.credit = IF batch[j].done THEN 1 ELSE 0
              /\ batch[j].done => over
              /\ x \in 1..n /\ batch[x].env = batch[j].env /\ batch[x].agent = batch[j].agent
              /\ over /\ ~batch[j].done => ~batch[x].row.boot /\ EpisodeOver(batch[x])
              /\ ~over => batch[x].row.boot \/ ~EpisodeOver(batch[x])

\* The rows after a row in its chain are those of the same worker's agent.
LEMMA LaterInWorker ==
    ASSUME NEW batch, NEW n, NEW at \in [Workers -> Nat], Laid(batch, n, at),
           \A w \in Workers : WellChained(outputs[w], env[w])
    PROVE  /\ IsBatch(batch, n)
           /\ \A w \in Workers : \A i \in DOMAIN outputs[w] :
                 Later(batch, at[w] + i) =
                    {at[w] + k : k \in {l \in DOMAIN outputs[w] :
                                          i < l /\ outputs[w][i].agent = outputs[w][l].agent}}
<1>1. /\ n \in Nat /\ DOMAIN batch = 1..n
      /\ \A w \in Workers : \A i \in DOMAIN outputs[w] :
            at[w] + i \in 1..n /\ batch[at[w] + i] = BatchRow(w, i)
      /\ \A j \in 1..n : \E w \in Workers : \E i \in DOMAIN outputs[w] : j = at[w] + i
  BY DEF Laid
<1>2. \A w \in Workers : \A i \in DOMAIN outputs[w] : outputs[w][i] \in Row /\ i \in Nat
  BY DEF WellChained
<1>3. \A w \in Workers : \A i \in DOMAIN outputs[w] :
        /\ batch[at[w] + i].env = w
        /\ batch[at[w] + i].agent = outputs[w][i].agent
        /\ batch[at[w] + i].turn_id = outputs[w][i].turn_id
        /\ outputs[w][i].turn_id \in Int
  <2> TAKE w \in Workers
  <2> TAKE i \in DOMAIN outputs[w]
  <2>1. batch[at[w] + i] = BatchRow(w, i)
    BY <1>1
  <2>2. outputs[w][i].turn_id \in Int
    BY <1>2 DEF Row
  <2> HIDE DEF Row
  <2> QED
    BY <2>1, <2>2 DEF BatchRow
<1>4. IsBatch(batch, n)
  <2> SUFFICES ASSUME NEW j \in 1..n PROVE batch[j].turn_id \in Int
    BY <1>1 DEF IsBatch
  <2>1. PICK w \in Workers : \E i \in DOMAIN outputs[w] : j = at[w] + i
    BY <1>1
  <2> QED
    BY <1>3, <2>1
<1>5. ASSUME NEW w \in Workers, NEW i \in DOMAIN outputs[w], NEW l \in DOMAIN outputs[w]
      PROVE  at[w] + l \in Later(batch, at[w] + i) <=>
                i < l /\ outputs[w][i].agent = outputs[w][l].agent
  <2> DEFINE j == at[w] + i
             k == at[w] + l
             b == outputs[w]
  <2>1. j \in 1..n /\ k \in 1..n /\ at[w] \in Nat /\ i \in Nat /\ l \in Nat
    BY <1>1, <1>2
  <2>2. k \in Group(batch, j) <=> b[i].agent = b[l].agent
    BY <1>1, <1>3, <2>1, SMTT(20) DEF Group
  <2>3. InOrder(batch, j, k) <=> \/ b[i].turn_id < b[l].turn_id
                                 \/ (b[i].turn_id = b[l].turn_id /\ j < k)
    BY <1>3 DEF InOrder
  <2>4. j < k <=> i < l
    BY <2>1
  <2>5. /\ i < l /\ b[i].agent = b[l].agent => b[i].turn_id < b[l].turn_id
        /\ l < i /\ b[i].agent = b[l].agent => b[l].turn_id < b[i].turn_id
    BY DEF WellChained
  <2>6. b[i].turn_id \in Int /\ b[l].turn_id \in Int
    BY <1>3
  <2> HIDE DEF j, k, b
  <2>7. k \in Later(batch, j) <=> b[i].agent = b[l].agent /\ InOrder(batch, j, k)
    BY <2>2 DEF Later
  <2>8. b[i].agent = b[l].agent => (InOrder(batch, j, k) <=> i < l)
    <3>1. i < l \/ l < i \/ (i = l /\ b[i].turn_id = b[l].turn_id)
      BY <2>1
    <3> QED
      BY <2>1, <2>3, <2>4, <2>5, <2>6, <3>1
  <2>9. k \in Later(batch, j) <=> i < l /\ b[i].agent = b[l].agent
    BY <2>7, <2>8
  <2> QED
    BY <2>9 DEF j, k, b
<1>6. ASSUME NEW w \in Workers, NEW i \in DOMAIN outputs[w], NEW k \in Later(batch, at[w] + i)
      PROVE  \E l \in DOMAIN outputs[w] : k = at[w] + l
  <2>1. at[w] + i \in 1..n /\ k \in 1..n /\ batch[k].env = batch[at[w] + i].env
    BY <1>1 DEF Later, Group
  <2>2. PICK v \in Workers : \E l \in DOMAIN outputs[v] : k = at[v] + l
    BY <1>1, <2>1
  <2>3. v = w
    BY <1>3, <2>1, <2>2
  <2> QED
    BY <2>2, <2>3
<1> QED
  BY <1>4, <1>5, <1>6

LEMMA BatchIsChained ==
    ASSUME NEW batch, NEW n, NEW at \in [Workers -> Nat], Laid(batch, n, at),
           \A w \in Workers : WellChained(outputs[w], env[w])
    PROVE  Chained(batch, n)
<1>1. IsBatch(batch, n)
  BY LaterInWorker
<1>2. SUFFICES ASSUME NEW j \in 1..n
               PROVE  /\ Later(batch, j) = {} <=> batch[j].row.boot
                      /\ ~batch[j].row.boot =>
                           LET over == EpisodeOver(batch[j])
                               x    == Following(batch, j)
                           IN  /\ batch[j].row.credit = IF batch[j].done THEN 1 ELSE 0
                               /\ batch[j].done => over
                               /\ x \in 1..n /\ batch[x].env = batch[j].env
                               /\ batch[x].agent = batch[j].agent
                               /\ over /\ ~batch[j].done =>
                                    ~batch[x].row.boot /\ EpisodeOver(batch[x])
                               /\ ~over => batch[x].row.boot \/ ~EpisodeOver(batch[x])
  BY <1>1 DEF Chained
<1>3. /\ n \in Nat /\ DOMAIN batch = 1..n
      /\ \A w \in Workers : \A i \in DOMAIN outputs[w] :
            at[w] + i \in 1..n /\ batch[at[w] + i] = BatchRow(w, i)
      /\ \A k \in 1..n : \E w \in Workers : \E i \in DOMAIN outputs[w] : k = at[w] + i
  BY DEF Laid
<1>4. PICK w \in Workers : \E i \in DOMAIN outputs[w] : j = at[w] + i
  BY <1>3
<1>5. PICK i \in DOMAIN outputs[w] : j = at[w] + i
  BY <1>4
<1> DEFINE b == outputs[w]
           e == env[w]
<1>6. Later(batch, j) = {at[w] + k : k \in {l \in DOMAIN b : i < l /\ b[i].agent = b[l].agent}}
  BY <1>5, LaterInWorker
<1>7. \A l \in DOMAIN b : /\ batch[at[w] + l].row = b[l] /\ batch[at[w] + l].env = w
                          /\ batch[at[w] + l].agent = b[l].agent
                          /\ batch[at[w] + l].done = b[l].done
                          /\ at[w] + l \in 1..n
  <2> TAKE l \in DOMAIN b
  <2>1. batch[at[w] + l] = BatchRow(w, l) /\ at[w] + l \in 1..n
    BY <1>3
  <2> QED
    BY <2>1 DEF BatchRow
<1>8. \A l \in DOMAIN b : EpisodeOver(batch[at[w] + l]) <=> Over(e, b[l].episode)
  BY <1>7 DEF EpisodeOver
<1>9. WellChained(b, e)
  OBVIOUS
<1> HIDE DEF b, e
<1>10. b[i].boot <=> ~\E l \in DOMAIN b : i < l /\ b[i].agent = b[l].agent
  BY <1>5, <1>9 DEF WellChained, b
<1>11. Later(batch, j) = {} <=> batch[j].row.boot
  BY <1>5, <1>6, <1>7, <1>10 DEF b
<1>12. ASSUME ~batch[j].row.boot
       PROVE  LET over == EpisodeOver(batch[j])
                  x    == Following(batch, j)
              IN  /\ batch[j].row.credit = IF batch[j].done THEN 1 ELSE 0
                  /\ batch[j].done => over
                  /\ x \in 1..n /\ batch[x].env = batch[j].env
                  /\ batch[x].agent = batch[j].agent
                  /\ over /\ ~batch[j].done => ~batch[x].row.boot /\ EpisodeOver(batch[x])
                  /\ ~over => batch[x].row.boot \/ ~EpisodeOver(batch[x])
  <2> DEFINE x == Following(batch, j)
  <2>1. x \in Later(batch, j) /\ Later(batch, j) = {x} \cup Later(batch, x)
    BY <1>1, <1>11, <1>12, FollowingFacts
  <2> HIDE DEF x
  <2>2. PICK l \in DOMAIN b : x = at[w] + l /\ i < l /\ b[i].agent = b[l].agent
    BY <1>6, <2>1
  <2>3. Later(batch, x) = {at[w] + k : k \in {m \in DOMAIN b : l < m /\ b[l].agent = b[m].agent}}
    BY <2>2, LaterInWorker DEF b
  <2>4. i \in DOMAIN b /\ at[w] \in Nat /\ \A k \in DOMAIN b : k \in Nat
    BY <1>5, <1>9 DEF WellChained, b
  <2>5. ASSUME NEW k \in DOMAIN b, i < k, k < l PROVE b[k].agent # b[i].agent
    <3> SUFFICES ASSUME b[k].agent = b[i].agent PROVE FALSE
      OBVIOUS
    <3>1. at[w] + k \in Later(batch, j)
      BY <1>6, <2>5
    <3>2. at[w] + k # x
      BY <2>2, <2>4, <2>5
    <3>3. at[w] + k \in Later(batch, x)
      BY <2>1, <3>1, <3>2
    <3>4. PICK m \in DOMAIN b : at[w] + k = at[w] + m /\ l < m
      BY <2>3, <3>3
    <3> QED
      BY <2>4, <2>5, <3>4
  <2>6. Follows(b, i, l)
    BY <2>2, <2>5 DEF Follows
  <2>7. /\ batch[j].row = b[i] /\ batch[j].env = w /\ batch[j].agent = b[i].agent
        /\ batch[j].done = b[i].done
        /\ EpisodeOver(batch[j]) <=> Over(e, b[i].episode)
    BY <1>5, <1>7, <1>8, <2>4
  <2>8. /\ batch[x].row = b[l] /\ batch[x].env = w /\ batch[x].agent = b[l].agent
        /\ EpisodeOver(batch[x]) <=> Over(e, b[l].episode)
        /\ x \in 1..n
    BY <1>7, <1>8, <2>2
  <2>9. /\ b[i].credit = IF b[i].done THEN 1 ELSE 0
        /\ b[i].done => Over(e, b[i].episode)
        /\ Over(e, b[i].episode) /\ ~b[i].done => ~b[l].boot /\ Over(e, b[l].episode)
        /\ ~Over(e, b[i].episode) => b[l].boot \/ ~Over(e, b[l].episode)
    BY <1>9, <1>12, <2>4, <2>6, <2>7 DEF WellChained
  <2> QED
    BY <2>2, <2>7, <2>8, <2>9 DEF x
<1> QED
  BY <1>11, <1>12

-------------------------------------------------------------------------------
(* What GAE makes of the batch when nothing is discounted.                 *)

Undiscounted == Gamma = 1 /\ Lambda = 1

PlainStep(batch, i, x, rewards, values, next) ==
    rewards[i] - values[i] + IF batch[i].done THEN 0 ELSE values[x] + next

LEMMA UndiscountedStep ==
    ASSUME Undiscounted, NEW batch, NEW i, NEW x, NEW rewards, NEW values, NEW next \in Int,
           rewards[i] \in Int, values[i] \in Int, values[x] \in Int
    PROVE  GaeStep(batch, i, x, rewards, values, next)
             = PlainStep(batch, i, x, rewards, values, next)
<1> DEFINE y == values[x]
<1>1. CASE batch[i].done
  <2>1. Live(batch, i) = 0
    BY <1>1 DEF Live
  <2>2. 1 * y * 0 = 0 /\ 1 * 1 * 0 * next = 0
    OBVIOUS
  <2>3. GaeStep(batch, i, x, rewards, values, next) = (rewards[i] + 0 - values[i]) + 0
    BY <2>1, <2>2 DEF GaeStep, Undiscounted
  <2> QED
    BY <1>1, <2>3 DEF PlainStep
<1>2. CASE ~batch[i].done
  <2>1. Live(batch, i) = 1
    BY <1>2 DEF Live
  <2>2. 1 * y * 1 = y /\ 1 * 1 * 1 * next = next
    OBVIOUS
  <2>3. GaeStep(batch, i, x, rewards, values, next) = (rewards[i] + y - values[i]) + next
    BY <2>1, <2>2 DEF GaeStep, Undiscounted
  <2> QED
    BY <1>2, <2>3 DEF PlainStep
<1> QED
  BY <1>1, <1>2

\* Every credit is worth c.
Pays(batch, n, c, rewards) ==
    \A j \in 1..n : ~batch[j].row.boot => rewards[j] = c * batch[j].row.credit

Earned(batch, n, c, values, adv) ==
    \A j \in 1..n :
        /\ adv[j] \in Int /\ BootRow(batch, j) \in 1..n
        /\ ~batch[j].row.boot =>
              adv[j] + values[j] = IF EpisodeOver(batch[j]) THEN c ELSE values[BootRow(batch, j)]

\* Along a chain, advantage and value of a row that is not a bootstrap row: the
\* reward at the end of its episode if that is over, and otherwise the value of
\* the bootstrap row at the end of the chain.
LEMMA AdvantageAndValue ==
    ASSUME Undiscounted, NEW batch, NEW n, Chained(batch, n),
           NEW c \in Int, NEW rewards \in [1..n -> Int], Pays(batch, n, c, rewards),
           NEW values \in [1..n -> Int]
    PROVE  Earned(batch, n, c, values, TurnAdvantages(batch, rewards, values))
<1> DEFINE adv == TurnAdvantages(batch, rewards, values)
           worth(j) == IF EpisodeOver(batch[j]) THEN c ELSE values[BootRow(batch, j)]
           S == {j \in 1..n : ~batch[j].row.boot => adv[j] + values[j] = worth(j)}
<1>1. IsBatch(batch, n) /\ DOMAIN batch = 1..n
  BY DEF Chained, IsBatch
<1>2. \A j \in 1..n : adv[j] \in Int /\ (batch[j].row.boot => adv[j] = 0)
  BY <1>1, AdvantageOfRow DEF Chained
<1>3. \A j \in 1..n : Later(batch, j) = {} => j \in S
  BY DEF Chained
\* A chain has one bootstrap row.
<1>4. ASSUME NEW j \in 1..n, NEW x \in 1..n, batch[x].row.boot,
             batch[x].env = batch[j].env, batch[x].agent = batch[j].agent
      PROVE  BootRow(batch, j) = x
  <2>1. ASSUME NEW y \in 1..n, batch[y].row.boot,
               batch[y].env = batch[j].env, batch[y].agent = batch[j].agent
        PROVE  y = x
    <3>1. Later(batch, x) = {} /\ Later(batch, y) = {}
      BY <1>4, <2>1 DEF Chained
    <3>2. x \in Group(batch, y) /\ y \in Group(batch, x)
      BY <1>1, <1>4, <2>1 DEF Group
    <3>3. ~InOrder(batch, x, y) /\ ~InOrder(batch, y, x)
      BY <3>1, <3>2 DEF Later
    <3>4. batch[x].turn_id \in Int /\ batch[y].turn_id \in Int
      BY <1>1 DEF IsBatch
    <3> QED
      BY <3>3, <3>4 DEF InOrder
  <2> QED
    BY <1>1, <1>4, <2>1 DEF BootRow
<1>5. ASSUME NEW j \in 1..n, Later(batch, j) # {}, Following(batch, j) \in S
      PROVE  j \in S
  <2> DEFINE x == Following(batch, j)
             over == EpisodeOver(batch[j])
  <2>1. ~batch[j].row.boot
    BY <1>5 DEF Chained
  <2>2. /\ batch[j].row.credit = IF batch[j].done THEN 1 ELSE 0
        /\ batch[j].done => over
        /\ x \in 1..n /\ batch[x].env = batch[j].env /\ batch[x].agent = batch[j].agent
        /\ over /\ ~batch[j].done => ~batch[x].row.boot /\ EpisodeOver(batch[x])
        /\ ~over => batch[x].row.boot \/ ~EpisodeOver(batch[x])
    BY <2>1 DEF Chained
  <2>3. ~batch[x].row.boot => adv[x] + values[x] = worth(x)
    BY <1>5
  <2>4. adv[j] = GaeStep(batch, j, x, rewards, values, adv[x])
    BY <1>1, <1>5, AdvantageOfRow
  <2>5. BootRow(batch, x) = BootRow(batch, j)
    BY <2>2 DEF BootRow
  <2> HIDE DEF x, adv, over
  <2>6. adv[x] \in Int /\ adv[j] \in Int /\ values[x] \in Int /\ values[j] \in Int /\ rewards[j] \in Int
    BY <1>2, <2>2 DEF adv
  <2>7. adv[j] = rewards[j] - values[j] + IF batch[j].done THEN 0 ELSE values[x] + adv[x]
    <3>1. GaeStep(batch, j, x, rewards, values, adv[x]) = PlainStep(batch, j, x, rewards, values, adv[x])
      BY <2>6, UndiscountedStep
    <3> QED
      BY <2>4, <3>1 DEF PlainStep
  <2>8. rewards[j] = IF batch[j].done THEN c ELSE 0
    <3>1. rewards[j] = c * batch[j].row.credit
      BY <2>1 DEF Pays
    <3>2. c * 1 = c /\ c * 0 = 0
      OBVIOUS
    <3> QED
      BY <2>2, <3>1, <3>2
  <2>9. CASE batch[j].done
    <3>1. worth(j) = c
      BY <2>2, <2>9 DEF over
    <3>2. adv[j] + values[j] = c
      BY <2>6, <2>7, <2>8, <2>9
    <3> HIDE DEF worth
    <3> QED
      BY <3>1, <3>2 DEF adv
  <2>10. CASE ~batch[j].done
    <3>1. adv[j] + values[j] = adv[x] + values[x]
      BY <2>6, <2>7, <2>8, <2>10
    <3>2. CASE batch[x].row.boot
      <4>1. worth(j) = values[x]
        BY <1>4, <2>2, <2>10, <3>2 DEF over
      <4>2. adv[x] = 0
        BY <1>2, <2>2, <3>2 DEF adv
      <4>3. adv[j] + values[j] = values[x]
        BY <2>6, <3>1, <4>2
      <4> HIDE DEF worth
      <4> QED
        BY <4>1, <4>3 DEF adv
    <3>3. CASE ~batch[x].row.boot
      <4>1. worth(j) = worth(x)
        BY <2>2, <2>5, <2>10, <3>3 DEF over
      <4> HIDE DEF worth
      <4> QED
        BY <2>3, <3>1, <3>3, <4>1 DEF adv
    <3> QED
      BY <3>2, <3>3
  <2> QED
    BY <2>9, <2>10
<1>6. \A j \in 1..n : j \in S
  <2> HIDE DEF S
  <2> QED
    BY <1>1, <1>3, <1>5, AlongChains
<1>7. ASSUME NEW j \in 1..n PROVE BootRow(batch, j) \in 1..n
  <2>1. PICK x \in Group(batch, j) : Later(batch, x) = {}
    BY <1>1, ChainEnds
  <2>2. /\ x \in 1..n /\ batch[x].row.boot
        /\ batch[x].env = batch[j].env /\ batch[x].agent = batch[j].agent
    BY <1>1, <2>1 DEF Group, Chained
  <2> QED
    BY <1>4, <2>2
<1> QED
  BY <1>2, <1>6, <1>7 DEF Earned

\* The batch that a training rollout gathers.
LEMMA GatheredBatch ==
    ASSUME ThreeAgents, TypeOK, Gathered, \A w \in Workers : CreditInv(w)
    PROVE  \E n : /\ Chained(Batch, n) /\ DOMAIN Batch = 1..n
                  /\ RemoveLastTurn(Batch) = {j \in 1..n : ~Batch[j].row.boot}
                  /\ \A j \in 1..n : Batch[j].row.boot => Batch[j].row.credit = 0
<1>1. ASSUME NEW w \in Workers
      PROVE  /\ WellChained(outputs[w], env[w])
             /\ \A i \in DOMAIN outputs[w] : outputs[w][i].boot => outputs[w][i].credit = 0
  <2>1. PICK rows \in Seq(Row) : /\ ~CannotBootstrap(rows) /\ Credited(rows, env[w])
                                 /\ outputs[w] = WithBootstrap(rows, {})
    BY DEF CreditInv, Gathered, AllFinished
  <2> DEFINE n == Len(rows)
  <2>2. /\ DOMAIN rows = 1..n /\ DOMAIN outputs[w] = 1..(n + 3)
        /\ \A x \in 1..n : outputs[w][x] = rows[x]
        /\ \A x \in 1..3 : outputs[w][n + x] = BootstrapRow(rows, BootAgents[x], {})
        /\ \A x \in 1..(n + 3) : x \in 1..n \/ \E y \in 1..3 : x = n + y
    BY <2>1, BootstrapRows
  <2>3. \A x \in 1..n : ~outputs[w][x].boot
    BY <2>1, <2>2 DEF Credited, Real
  <2>4. \A y \in 1..3 : outputs[w][n + y].credit = 0
    BY <2>2 DEF BootstrapRow
  <2> HIDE DEF n
  <2>5. \A i \in DOMAIN outputs[w] : outputs[w][i].boot => outputs[w][i].credit = 0
    BY <2>2, <2>3, <2>4
  <2> QED
    BY <2>1, <2>5, RowsAreWellChained
<1>2. PICK n : \E at \in [Workers -> Nat] : Laid(Batch, n, at)
  BY BatchLayout
<1>3. PICK at \in [Workers -> Nat] : Laid(Batch, n, at)
  BY <1>2
<1>4. Chained(Batch, n)
  BY <1>1, <1>3, BatchIsChained
<1>5. DOMAIN Batch = 1..n /\ IsBatch(Batch, n)
  BY <1>4 DEF Chained, IsBatch
<1>6. RemoveLastTurn(Batch) = {j \in 1..n : ~Batch[j].row.boot}
  BY <1>4, <1>5, KeptRows DEF Chained
<1>7. ASSUME NEW j \in 1..n, Batch[j].row.boot PROVE Batch[j].row.credit = 0
  <2>1. PICK w \in Workers : \E i \in DOMAIN outputs[w] : j = at[w] + i
    BY <1>3 DEF Laid
  <2>2. PICK i \in DOMAIN outputs[w] : j = at[w] + i
    BY <2>1
  <2>3. Batch[j] = BatchRow(w, i)
    BY <1>3, <2>2 DEF Laid
  <2>4. Batch[j].row = outputs[w][i]
    BY <2>3 DEF BatchRow
  <2> QED
    BY <1>1, <1>7, <2>4
<1> QED
  BY <1>4, <1>5, <1>6, <1>7

\* Whatever agents acted how often, and wherever the budget cut the rollout: the
\* advantage of every row that is trained on is its own agent's utility in its
\* own episode, once, or nothing while the episode lasts (core_algos.py:306,
\* tool_agent_loop.py:716).
THEOREM CreditIsOwnUtilityHolds ==
    ASSUME ThreeAgents, Undiscounted
    PROVE  Spec => []CreditIsOwnUtility
<1>1. ASSUME TypeOK, \A w \in Workers : CreditInv(w), Gathered
      PROVE  LET adv == TurnAdvantages(Batch, Credits(Batch), Zeros(Batch))
             IN  \A i \in RemoveLastTurn(Batch) :
                    adv[i] = IF EpisodeOver(Batch[i]) THEN 1 ELSE 0
  <2>1. PICK n : /\ Chained(Batch, n) /\ DOMAIN Batch = 1..n
                 /\ RemoveLastTurn(Batch) = {j \in 1..n : ~Batch[j].row.boot}
                 /\ \A j \in 1..n : Batch[j].row.boot => Batch[j].row.credit = 0
    BY <1>1, GatheredBatch
  <2> DEFINE batch == Batch
             r == Credits(batch)
             v == Zeros(batch)
             adv == TurnAdvantages(batch, r, v)
  <2> HIDE DEF batch
  <2>2. \A j \in 1..n : batch[j].row.credit \in Int
    BY <2>1 DEF Chained, batch
  <2>3. r \in [1..n -> Int] /\ v \in [1..n -> Int]
        /\ \A j \in 1..n : r[j] = batch[j].row.credit /\ v[j] = 0
    BY <2>1, <2>2 DEF Credits, Zeros, batch
  <2> HIDE DEF r, v
  <2>4. Pays(batch, n, 1, r) /\ 1 \in Int
    BY <2>2, <2>3 DEF Pays
  <2>5. Chained(batch, n)
    BY <2>1 DEF batch
  <2>6. Earned(batch, n, 1, v, adv)
    BY ONLY <2>3, <2>4, <2>5, Undiscounted, AdvantageAndValue
  <2>7. ASSUME NEW j \in 1..n, ~batch[j].row.boot
        PROVE  adv[j] = IF EpisodeOver(batch[j]) THEN 1 ELSE 0
    <3> HIDE DEF adv
    <3> QED
      BY <2>3, <2>6, <2>7 DEF Earned
  <2> QED
    BY <2>1, <2>7 DEF batch, r, v
<1>2. TypeOK /\ (\A w \in Workers : CreditInv(w)) => CreditIsOwnUtility
  BY <1>1 DEF CreditIsOwnUtility
<1> QED
  BY <1>2, CreditInvariant, PTL

\* Likewise, with values in place of rewards: the only value of another row that
\* reaches a row that is trained on is that of its own chain's bootstrap row,
\* and that only in an episode that is not over (core_algos.py:301).
THEOREM BootstrapsOnlyUnfinishedHolds ==
    ASSUME ThreeAgents, Undiscounted
    PROVE  Spec => []BootstrapsOnlyUnfinished
<1>1. ASSUME TypeOK, \A w \in Workers : CreditInv(w), Gathered
      PROVE  LET values == Distinct(Batch)
                 adv    == TurnAdvantages(Batch, Zeros(Batch), values)
             IN  \A i \in RemoveLastTurn(Batch) :
                    adv[i] + values[i] =
                       IF EpisodeOver(Batch[i]) THEN 0 ELSE values[BootRow(Batch, i)]
  <2>1. PICK n : /\ Chained(Batch, n) /\ DOMAIN Batch = 1..n
                 /\ RemoveLastTurn(Batch) = {j \in 1..n : ~Batch[j].row.boot}
    BY <1>1, GatheredBatch
  <2> DEFINE batch == Batch
             r == Zeros(batch)
             v == Distinct(batch)
             adv == TurnAdvantages(batch, r, v)
  <2> HIDE DEF batch
  <2>2. \A k \in Nat : Weight[k] \in Int
    <3>1. Weight = CHOOSE d : d = [k \in Nat |-> IF k = 0 THEN 1 ELSE 4 * d[k - 1]]
      BY DEF Weight
    <3>2. 4 \in Int
      OBVIOUS
    <3> QED
      BY ONLY <3>1, <3>2, Powers
  <2>3. v \in [1..n -> Int]
    BY <2>1, <2>2 DEF Distinct, batch
  <2>4. \A j \in 1..n : ~batch[j].row.boot => batch[j].row.credit \in Int
    BY <2>1 DEF Chained, batch
  <2>5. r \in [1..n -> Int] /\ \A j \in 1..n : r[j] = 0
    BY <2>1 DEF Zeros, batch
  <2> HIDE DEF r, v
  <2>6. Pays(batch, n, 0, r) /\ 0 \in Int
    BY <2>4, <2>5 DEF Pays
  <2>7. Chained(batch, n)
    BY <2>1 DEF batch
  <2>8. Earned(batch, n, 0, v, adv)
    BY ONLY <2>3, <2>5, <2>6, <2>7, Undiscounted, AdvantageAndValue
  <2>9. \A j \in 1..n : ~batch[j].row.boot =>
           adv[j] + v[j] = IF EpisodeOver(batch[j]) THEN 0 ELSE v[BootRow(batch, j)]
    <3> HIDE DEF adv
    <3> QED
      BY <2>8 DEF Earned
  <2> QED
    BY <2>1, <2>9 DEF batch, r, v
<1>2. TypeOK /\ (\A w \in Workers : CreditInv(w)) => BootstrapsOnlyUnfinished
  BY <1>1 DEF BootstrapsOnlyUnfinished
<1> QED
  BY <1>2, CreditInvariant, PTL
===============================================================================
