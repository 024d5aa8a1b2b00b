-------------------------- MODULE Services_proofs --------------------------
(***************************************************************************)
(* Theorems about the migrations of a start, the probe service, the window *)
(* of failed logins and the polling of a browser tab.                      *)
(***************************************************************************)
EXTENDS Migrations, Probe, LoginProtection, RefreshJobPolling,
        FiniteSetTheorems, FunctionTheorems, TLAPS

(***************************************************************************)
(* The probe: where a game server may run, and how many directories there  *)
(* may be.                                                                 *)
(***************************************************************************)
ServerKnown ==
    /\ step \in {"begin", "popen"} => server = "none"
    /\ step \in {"look", "seen", "poll", "sleep", "terminate", "wait"}
       => server \in {"running", "exited"}
    /\ step = "reread" => server = "exited"
    /\ step \in {"killed", "clean"} => /\ server = "running" => "look" \in faults
                                       /\ server = "stuck" => "kill" \in faults
    /\ step = "clean" /\ server \notin {"none", "exited"} => ended = "failed"
    /\ step = "killed" => server \in {"exited", "stuck"}
    /\ step = "idle" /\ server # "none" => "look" \in faults \/ "kill" \in faults
    /\ step \in {"seen", "poll", "sleep"} => waited < Timeout

Spared == keep \/ "mkdir" \in faults \/ "rmtree" \in faults
DirsKnown ==
    /\ step = "begin" => dirs + todo <= MaxIds
    /\ step \notin {"idle", "begin"} => dirs \in 1..(MaxIds + 1 - todo)
    /\ dirs > (IF step \in {"idle", "begin"} THEN 0 ELSE 1) => Spared

(* Only the reading after the exit finds that a file is missing. *)
MissingFound ==
    /\ step \notin {"idle", "clean"} => ended # "missing"
    /\ LateFileTaken

ProbeInv == ProbeTypeOK /\ ServerKnown /\ MissingFound /\ (todo = 0 <=> step = "idle")

(* The invariant of the probe is inductive. *)
LEMMA ProbeInductive == ProbeSpec => [](ProbeInv /\ DirsKnown)
<1> USE ProbeOK DEF ProbeInv, ProbeTypeOK, ServerKnown, MissingFound, LateFileTaken,
                    ProbeSteps, Unseen
<1>1. ProbeInit => ProbeInv /\ DirsKnown
  <2>1. ASSUME ProbeInit PROVE Timeout + 1 \in 0..(Timeout + 1) /\ 0 \in 0..Timeout /\ 0 \in 0..MaxIds
    OBVIOUS
  <2>2. ProbeInit => ProbeInv
    BY <2>1, Zenon DEF ProbeInit
  <2>3. ProbeInit => DirsKnown
    BY DEF ProbeInit, DirsKnown
  <2> QED
    BY <2>2, <2>3
<1>2. ASSUME ProbeInv, DirsKnown, [ProbeNext]_probeVars PROVE ProbeInv'
  <2>0. keep' = keep /\ keep' \in BOOLEAN
    BY <1>2, Zenon DEF ProbeNext, Handles, Request, Begin, Popen, Look, LookFails, Sight, Poll, Reread,
                       Sleep, Expire, Terminate, Wait, Killed, Clean, Write, Exit, probeVars
  <2>1. CASE Request
    BY <1>2, <2>0, <2>1 DEF Request, From
  <2>2. CASE Begin
    <3>1. parsed' \in BOOLEAN
      BY <1>2, <2>2, Zenon DEF Begin
    <3>2. /\ step' \in {"popen", "idle"}
          /\ step' = "idle" => ended' = "failed"
          /\ step' = "popen" => ended' = ended
      BY <2>2, Zenon DEF Begin, Answers
    <3>3. todo' \in 0..MaxIds /\ waited' = 0 /\ seen' = Timeout + 1 /\ file' = "none" /\ server' = server
      BY <1>2, <2>2 DEF Begin, Answers
    <3>4. todo' = 0 <=> step' = "idle"
      BY <1>2, <2>2, <3>2 DEF Begin, Answers
    <3>5. dirs' \in 0..MaxIds
      <4>1. dirs \in Nat /\ dirs + 1 <= MaxIds /\ dirs' \in {dirs, dirs + 1}
        BY <1>2, <2>2 DEF Begin, DirsKnown
      <4> QED
        BY <4>1
    <3>6. faults' \subseteq {"mkdir", "look", "kill", "rmtree"} /\ faults \subseteq faults'
      <4>1. faults' \in {faults, faults \cup {"mkdir"}}
        BY <2>2, Zenon DEF Begin
      <4>2. faults \subseteq {"mkdir", "look", "kill", "rmtree"}
        BY <1>2
      <4> QED
        BY <4>1, <4>2, Zenon
    <3> QED
      BY <1>2, <2>0, <2>2, <3>1, <3>2, <3>3, <3>4, <3>5, <3>6 DEF Begin
  <2>3. CASE Popen
    BY <1>2, <2>0, <2>3 DEF Popen, From
  <2>4. CASE Look
    BY <1>2, <2>0, <2>4 DEF Look, From, Found
  <2>5. CASE Sight
    BY <1>2, <2>0, <2>5 DEF Sight
  <2>6. CASE Poll
    BY <1>2, <2>0, <2>6 DEF Poll, From, Exited
  <2>7. CASE Reread
    BY <1>2, <2>0, <2>7 DEF Reread, From, FoundAfter, Found
  <2>8. CASE Sleep
    BY <1>2, <2>0, <2>8 DEF Sleep, From, Passes
  <2>9. CASE Expire
    BY <1>2, <2>0, <2>9 DEF Expire, From, Found
  <2>10. CASE Terminate
    BY <1>2, <2>0, <2>10 DEF Terminate, From, Exited
  <2>11. CASE Wait
    BY <1>2, <2>0, <2>11 DEF Wait, Kills
  <2>12. CASE Killed
    BY <1>2, <2>0, <2>12 DEF Killed, From, Exited
  <2>13. CASE Clean
    <3>1. /\ dirs' \in 0..MaxIds /\ faults' \subseteq {"mkdir", "look", "kill", "rmtree"}
          /\ faults \subseteq faults'
      <4>1. /\ dirs' = dirs \/ (dirs' = dirs - 1 /\ dirs \in 1..MaxIds)
            /\ faults' = faults \/ faults' = faults \cup {"rmtree"}
        BY <1>2, <2>13 DEF Clean, Removes, Retains, Deletes, DirsKnown
      <4>2. dirs' \in 0..MaxIds
        BY <1>2, <4>1
      <4>3. faults \subseteq {"mkdir", "look", "kill", "rmtree"}
        BY <1>2
      <4> QED
        BY <4>1, <4>2, <4>3, Zenon
    <3>2. /\ step' \in {"idle", "begin"} /\ todo' \in 0..MaxIds /\ (todo' = 0 <=> step' = "idle")
          /\ step' = "begin" => ended = "ok"
      BY <1>2, <2>13 DEF Clean, Answers
    <3>3. /\ server' = IF server = "exited" THEN "none" ELSE server
          /\ file' = file /\ parsed' = parsed /\ waited' = waited /\ seen' = seen /\ ended' = ended
          /\ step = "clean"
      BY <2>13 DEF Clean, Exited
    <3> QED
      BY <1>2, <2>0, <3>1, <3>2, <3>3
  <2>14. CASE Write
    BY <1>2, <2>0, <2>14 DEF Write
  <2>15. CASE Exit
    BY <1>2, <2>0, <2>15 DEF Exit
  <2>16. CASE LookFails
    BY <1>2, <2>0, <2>16 DEF LookFails, From
  <2>17. CASE UNCHANGED probeVars
    BY <1>2, <2>17 DEF probeVars
  <2> QED
    BY <1>2, <2>1, <2>2, <2>3, <2>4, <2>5, <2>6, <2>7, <2>8, <2>9, <2>10, <2>11, <2>12,
       <2>13, <2>14, <2>15, <2>16, <2>17 DEF ProbeNext, Handles
<1>3. ASSUME ProbeInv, DirsKnown, [ProbeNext]_probeVars PROVE DirsKnown'
  <2> USE DEF DirsKnown, Spared
  <2>1. CASE Request
    BY <1>3, <2>1 DEF Request, From
  <2>2. CASE Begin
    BY <1>3, <2>2 DEF Begin, Answers
  <2>3. CASE Clean
    <3>1. /\ keep' = keep /\ step = "clean" /\ step' \in {"idle", "begin"}
          /\ step' = "begin" => todo' = todo - 1
      BY <2>3 DEF Clean, Answers
    <3>2. CASE keep
      BY <1>3, <2>3, <3>1, <3>2 DEF Clean, Removes, Retains
    <3>3. CASE ~keep /\ dirs' = dirs - 1 /\ faults' = faults
      BY <1>3, <3>1, <3>3
    <3>4. CASE ~keep /\ dirs' = dirs /\ faults' = faults \cup {"rmtree"}
      BY <1>3, <3>1, <3>4
    <3> QED
      BY <2>3, <3>2, <3>3, <3>4 DEF Clean, Removes, Deletes
  <2>4. CASE Popen \/ Look \/ LookFails \/ Sight \/ Poll \/ Reread \/ Sleep \/ Expire \/ Terminate
             \/ Wait \/ Killed
    <3>1. /\ dirs' = dirs /\ keep' = keep /\ todo' = todo
          /\ step \notin {"idle", "begin"} /\ step' \notin {"idle", "begin"}
      BY <2>4 DEF Popen, Look, LookFails, Sight, Poll, Reread, Sleep, Expire, Terminate, Wait, Kills,
                  Killed, From
    <3>2. faults \subseteq faults'
      BY <2>4 DEF Popen, Look, LookFails, Sight, Poll, Reread, Sleep, Expire, Terminate, Wait, Kills,
                  Killed
    <3> QED
      BY <1>3, <3>1, <3>2
  <2>5. CASE Write \/ Exit \/ UNCHANGED probeVars
    <3>1. dirs' = dirs /\ keep' = keep /\ todo' = todo /\ step' = step /\ faults' = faults
      BY <2>5 DEF Write, Exit, probeVars
    <3> QED
      BY <1>3, <3>1
  <2> QED
    BY <1>3, <2>1, <2>2, <2>3, <2>4, <2>5 DEF ProbeNext, Handles
<1> HIDE ProbeOK DEF ProbeInv, ProbeTypeOK, ServerKnown, MissingFound, LateFileTaken,
                     ProbeSteps, Unseen
<1> QED
  BY <1>1, <1>2, <1>3, PTL DEF ProbeSpec

(* The variables of a request keep their types (metadata_service.py). *)
THEOREM ProbeTypeCorrect == ProbeSpec => []ProbeTypeOK
BY ProbeInductive, PTL DEF ProbeInv

(* Between requests no game server is left, but one whose profile could    *)
(* not be walked or that survives SIGKILL, and no directory, unless they   *)
(* are kept, the profile directory could not be made or a removal failed   *)
(* (metadata_service.py:42-44, 103-112, 133, 204-212).                     *)
THEOREM NothingLeft == ProbeSpec => []ProbeCleaned
<1>1. ProbeInv /\ DirsKnown => ProbeCleaned
  BY DEF ProbeInv, ServerKnown, DirsKnown, Spared, ProbeCleaned
<1> QED
  BY <1>1, ProbeInductive, PTL

(* A file written before the exit is found (metadata_service.py:94-100). *)
THEOREM FileFound == ProbeSpec => []LateFileTaken
BY ProbeInductive, PTL DEF ProbeInv, MissingFound

(* The steps that are left of a request at most: of the present id, with p *)
(* polls to go, each of which is four steps, and of the ids after it.      *)
PerId == 4 * Timeout + 7
OfThisId(s, p) == CASE s = "begin" -> PerId
                    [] s = "popen" -> PerId - 1
                    [] s = "look" -> 4 * p + 5
                    [] s = "seen" -> 4 * p + 4
                    [] s = "poll" -> 4 * p + 3
                    [] s = "sleep" -> 4 * p + 2
                    [] s = "terminate" -> 4
                    [] s = "wait" -> 3
                    [] s \in {"reread", "killed"} -> 2
                    [] s = "clean" -> 1
StepsLeft == IF step = "idle" THEN 0 ELSE (todo - 1) * PerId + OfThisId(step, Timeout - waited)

LEMMA OfThisIdIs ==
    ASSUME NEW s, NEW p
    PROVE  /\ s = "begin" => OfThisId(s, p) = PerId
           /\ s = "popen" => OfThisId(s, p) = PerId - 1
           /\ s = "look" => OfThisId(s, p) = 4 * p + 5
           /\ s = "seen" => OfThisId(s, p) = 4 * p + 4
           /\ s = "poll" => OfThisId(s, p) = 4 * p + 3
           /\ s = "sleep" => OfThisId(s, p) = 4 * p + 2
           /\ s = "terminate" => OfThisId(s, p) = 4
           /\ s = "wait" => OfThisId(s, p) = 3
           /\ s = "reread" => OfThisId(s, p) = 2
           /\ s = "killed" => OfThisId(s, p) = 2
           /\ s = "clean" => OfThisId(s, p) = 1
BY DEF OfThisId

LEMMA OfThisIdBounded ==
    ASSUME NEW s \in ProbeSteps \ {"idle"}, NEW p \in 0..Timeout
    PROVE  OfThisId(s, p) \in 1..PerId
<1> USE ProbeOK DEF PerId
<1>1. CASE s \in {"begin", "popen", "look", "seen", "poll", "sleep"}
  BY <1>1, OfThisIdIs
<1>2. CASE s \in {"terminate", "wait", "reread", "killed", "clean"}
  BY <1>2, OfThisIdIs
<1>3. s \in {"begin", "popen", "look", "seen", "poll", "sleep"}
      \/ s \in {"terminate", "wait", "reread", "killed", "clean"}
  BY DEF ProbeSteps
<1> QED
  BY <1>1, <1>2, <1>3

LEMMA IdsBounded ==
    ASSUME NEW n \in 1..MaxIds
    PROVE  /\ PerId \in Nat
           /\ (n - 1) * PerId \in Nat
           /\ (n - 1) * PerId + PerId <= MaxIds * PerId
<1>1. PerId \in Nat
  BY ProbeOK DEF PerId
<1>2. /\ (n - 1) * PerId \in Nat
      /\ MaxIds * PerId = (n - 1) * PerId + PerId + (MaxIds - n) * PerId
      /\ (MaxIds - n) * PerId \in Nat
  BY <1>1, ProbeOK, SMT
<1> QED
  BY <1>1, <1>2

(* Every step of the request leaves fewer, and the game server adds none:  *)
(* a request is answered after PerId steps for each of its ids at most,    *)
(* however its servers behave (metadata_service.py:54-112, 161-213).       *)
StepsRunOut == [][/\ Handles => StepsLeft' < StepsLeft
                  /\ Write \/ Exit => StepsLeft' = StepsLeft]_probeVars

THEOREM RequestsBounded == ProbeSpec => [](StepsLeft \in 0..(MaxIds * PerId)) /\ StepsRunOut
<1>1. ASSUME ProbeInv
      PROVE  /\ PerId \in Nat /\ Timeout - waited \in 0..Timeout
             /\ step \in ProbeSteps
             /\ step # "idle" => /\ todo \in 1..MaxIds
                                /\ OfThisId(step, Timeout - waited) \in 1..PerId
                                /\ (todo - 1) * PerId \in Nat
                                /\ (todo - 1) * PerId + PerId <= MaxIds * PerId
             /\ StepsLeft \in 0..(MaxIds * PerId)
  <2>1. PerId \in Nat /\ Timeout - waited \in 0..Timeout /\ step \in ProbeSteps
    BY <1>1, ProbeOK DEF PerId, ProbeInv, ProbeTypeOK
  <2>2. ASSUME step # "idle"
        PROVE  /\ todo \in 1..MaxIds
               /\ OfThisId(step, Timeout - waited) \in 1..PerId
               /\ (todo - 1) * PerId \in Nat
               /\ (todo - 1) * PerId + PerId <= MaxIds * PerId
    <3>1. todo \in 1..MaxIds
      BY <1>1, <2>2, ProbeOK DEF ProbeInv, ProbeTypeOK
    <3> QED
      BY <2>1, <2>2, <3>1, OfThisIdBounded, IdsBounded
  <2>3. 0 <= MaxIds * PerId /\ MaxIds * PerId \in Nat
    BY <2>1, ProbeOK, SMT
  <2> QED
    BY <2>1, <2>2, <2>3 DEF StepsLeft
<1>2. ASSUME ProbeInv, ProbeInv', Handles PROVE StepsLeft' < StepsLeft
  <2>1. step \in ProbeSteps \ {"idle"} /\ todo \in 1..MaxIds
    BY <1>1, <1>2 DEF Handles, Begin, Popen, Look, LookFails, Sight, Poll, Reread, Sleep, Expire, Terminate,
                      Wait, Killed, Clean, From
  <2> DEFINE now == OfThisId(step, Timeout - waited)
             then == OfThisId(step', Timeout - waited')
  <2>2. /\ now \in 1..PerId /\ PerId \in Nat /\ (todo - 1) * PerId \in Nat
        /\ StepsLeft = (todo - 1) * PerId + now
    BY <1>1, <1>2, <2>1 DEF StepsLeft
  <2>3. step' # "idle" => then \in 1..PerId /\ StepsLeft' = (todo' - 1) * PerId + then
    <3>1. step' \in ProbeSteps /\ Timeout - waited' \in 0..Timeout
      <4>1. step' \in ProbeSteps /\ waited' \in 0..Timeout
        BY <1>2, Zenon DEF ProbeInv, ProbeTypeOK, ProbeSteps
      <4>2. \A w \in 0..Timeout : Timeout - w \in 0..Timeout
        BY ProbeOK
      <4> QED
        BY <4>1, <4>2, Zenon
    <3>2. step' # "idle" => then \in 1..PerId
      BY <3>1, OfThisIdBounded
    <3>3. step' # "idle" => StepsLeft' = (todo' - 1) * PerId + then
      BY DEF StepsLeft, PerId
    <3> QED
      BY <3>2, <3>3
  <2>4. CASE step' = "idle"
    BY <2>2, <2>4 DEF StepsLeft
  <2>5. CASE step' # "idle" /\ todo' # todo
    <3>1. todo > 1 /\ todo' = todo - 1 /\ step' = "begin" /\ step = "clean"
      BY <1>2, <2>5 DEF Handles, Begin, Popen, Look, LookFails, Sight, Poll, Reread, Sleep, Expire, Terminate,
                        Wait, Killed, Clean, From, Answers
    <3>2. then = PerId
      BY <3>1, OfThisIdIs
    <3>3. (todo' - 1) * PerId = (todo - 1) * PerId - PerId
      BY <2>1, <2>2, <3>1, SMT
    <3> QED
      BY <2>2, <2>3, <2>5, <3>2, <3>3
  <2>6. CASE step' # "idle" /\ todo' = todo
    <3>1. Timeout - waited \in 0..Timeout /\ (step = "seen" => Timeout - waited > 0)
      BY <1>2, ProbeOK DEF ProbeInv, ProbeTypeOK, ServerKnown
    <3>2. ASSUME Begin \/ Popen PROVE then < now
      <4>1. \/ step = "begin" /\ step' = "popen"
            \/ step = "popen" /\ step' = "look" /\ waited' = waited
            \/ step = "popen" /\ step' = "clean"
        BY <2>6, <3>2 DEF Begin, Popen, From, Answers
      <4> QED
        BY <3>1, <4>1, OfThisIdIs, ProbeOK DEF PerId
    <3>3. ASSUME Look \/ Sight \/ Poll \/ Expire PROVE then < now
      <4>1. /\ waited' = waited
            /\ \/ step = "look" /\ step' \in {"seen", "terminate"}
               \/ step = "seen" /\ step' \in {"poll", "terminate"}
               \/ step = "poll" /\ step' \in {"sleep", "reread"}
        BY <3>3 DEF Look, Sight, Poll, Expire, From
      <4> QED
        BY <3>1, <4>1, OfThisIdIs
    <3>4. ASSUME Sleep PROVE then < now
      <4>1. waited' = waited + 1 /\ step = "sleep" /\ step' = "look"
        BY <3>4 DEF Sleep, Passes, From
      <4>2. Timeout - waited' = (Timeout - waited) - 1
        BY <1>2, <4>1, ProbeOK DEF ProbeInv, ProbeTypeOK
      <4> QED
        BY <3>1, <4>1, <4>2, OfThisIdIs
    <3>5. ASSUME LookFails \/ Reread \/ Terminate \/ Wait \/ Killed \/ Clean PROVE then < now
      <4>1. \/ step \in {"look", "reread"} /\ step' = "clean"
            \/ step = "terminate" /\ step' \in {"clean", "wait"}
            \/ step = "wait" /\ step' \in {"clean", "killed"}
            \/ step = "killed" /\ step' = "clean"
        BY <1>1, <1>2, <2>1, <2>6, <3>5 DEF LookFails, Reread, Terminate, Wait, Kills, Killed, Clean, From, Answers
      <4> QED
        BY <3>1, <4>1, OfThisIdIs
    <3>6. then < now
      BY <1>2, <3>2, <3>3, <3>4, <3>5 DEF Handles
    <3> QED
      BY <2>2, <2>3, <2>6, <3>6
  <2> QED
    BY <2>4, <2>5, <2>6
<1>3. ASSUME Write \/ Exit PROVE StepsLeft' = StepsLeft
  <2>1. step' = step /\ todo' = todo /\ waited' = waited
    BY <1>3 DEF Write, Exit
  <2> QED
    BY <2>1, Zenon DEF StepsLeft
<1>4. ProbeInv => StepsLeft \in 0..(MaxIds * PerId)
  BY <1>1
<1> QED
  BY <1>2, <1>3, <1>4, ProbeInductive, PTL DEF StepsRunOut

(***************************************************************************)
(* The migrations.                                                         *)
(***************************************************************************)
Passed(p, i) == i \in DOMAIN Plan /\ i < at[p]
Provides(i) == Plan[i].op \in {"add", "create", "ensure"}

(* What a process has passed is there; what it has read is remembered. *)
Provided == \A p \in Procs, i \in DOMAIN Plan : Passed(p, i) /\ Provides(i) => Plan[i].of \in schema
Remembered == \A p \in Procs, i \in DOMAIN Plan, c \in Columns :
                 Passed(p, i) /\ at[p] # Serving /\ Plan[i] = Step("read", TableOf[c])
                 => c \in missing[p] \/ c \in schema
(* No column disappears that every installation has. *)
Inherited == \A c \in Columns : (\A s \in Installed : c \in s) => c \in schema
(* Old rows of a column that is there are owed, or were lost. *)
Owed == \A c \in Filled : rows[c] = "old" /\ c \in schema
                          => c \in torn \/ \E p \in Procs : c \in owes[p]
(* What a process owes it has not passed the filling of. *)
Unpaid == \A p \in Procs, c \in Filled, i \in DOMAIN Plan :
             c \in owes[p] /\ Passed(p, i) => Plan[i] # Step("fill", c)
(* What every start completes has been. *)
Completed == \A p \in Procs, i \in DOMAIN Plan :
                Passed(p, i) /\ Plan[i].op = "always" => rows[Plan[i].of] # "old"
(* A choice needs the column; who has not found it is crossed by it. *)
ChoiceSeen == \A c \in Rows : rows[c] = "chosen" =>
                 c \in schema /\ \A p \in Procs : c \in missing[p] => p \in crossed

MigrationsInv == /\ MigrationsTypeOK /\ Provided /\ Remembered /\ Inherited
                 /\ Owed /\ Unpaid /\ Completed /\ ChoiceSeen

(* Columns and the steps on them are of the kinds the assumption names. *)
LEMMA PlanKinds ==
    ASSUME NEW i \in DOMAIN Plan
    PROVE  /\ Plan[i] = Step(Plan[i].op, Plan[i].of)
           /\ Plan[i].op # "read" => Plan[i].of \in Columns
           /\ Plan[i].op = "fill" => Plan[i].of \in Filled
           /\ Plan[i].op = "always" => Plan[i].of \in Repeated
           /\ Plan[i].op = "ensure" => Plan[i].of \notin Filled
           /\ i \in 1..Len(Plan) /\ i \in Nat
<1>1. Plan \in Seq(Steps)
  BY MigrationsOK
<1>2. Plan[i] \in Steps /\ i \in 1..Len(Plan) /\ i \in Nat
  BY <1>1
<1>3. Plan[i] = Step(Plan[i].op, Plan[i].of)
  BY <1>2 DEF Steps, Step
<1>4. /\ Plan[i].op # "read" => Plan[i].of \in Columns
      /\ Plan[i].op = "ensure" => Plan[i].of \notin Filled
  BY MigrationsOK
<1> QED
  BY <1>2, <1>3, <1>4 DEF Filled, Repeated, Has

LEMMA PlanLength == Len(Plan) \in Nat /\ DOMAIN Plan = 1..Len(Plan)
BY MigrationsOK

(* Where a step leaves the position, and that columns stay. *)
LEMMA TypeStep ==
    ASSUME MigrationsTypeOK, Unpaid, [MigrationsNext]_migrationVars
    PROVE  MigrationsTypeOK' /\ schema \subseteq schema'
<1> USE PlanLength, MigrationsOK DEF MigrationsTypeOK, Serving, Goes, Doing, Of
<1>1. CASE UNCHANGED migrationVars
  BY <1>1 DEF migrationVars
<1>2. ASSUME NEW p \in Procs, Start(p) PROVE MigrationsTypeOK' /\ schema \subseteq schema'
  BY <1>2 DEF Start
<1>3. ASSUME NEW p \in Procs, Read(p) PROVE MigrationsTypeOK' /\ schema \subseteq schema'
  BY <1>3 DEF Read
<1>4. ASSUME NEW p \in Procs, Ends(p), stops' \in 0..MaxStops
      PROVE  MigrationsTypeOK' /\ schema \subseteq schema'
  BY <1>4 DEF Ends
<1>5. ASSUME NEW p \in Procs, Add(p) PROVE MigrationsTypeOK' /\ schema \subseteq schema'
  <2>1. Of(p) \in Columns
    BY <1>5, PlanKinds DEF Add
  <2> QED
    BY <1>5, <2>1 DEF Add, Due
<1>6. ASSUME NEW p \in Procs, Fill(p) PROVE MigrationsTypeOK' /\ schema \subseteq schema'
  <2>1. \A v \in {"old", "filled", "chosen"} :
           Backfilled(Of(p), v) \in {"old", "filled", "chosen"}
    BY DEF Backfilled
  <2>2. rows' \in [Rows -> {"old", "filled", "chosen"}]
    <3>1. rows' = [rows EXCEPT ![Of(p)] = Backfilled(Of(p), rows[Of(p)])] \/ rows' = rows
      BY <1>6 DEF Fill
    <3>2. rows' = [c \in Rows |-> rows'[c]]
      BY <3>1
    <3>3. ASSUME NEW c \in Rows PROVE rows'[c] \in {"old", "filled", "chosen"}
      <4>1. rows[c] \in {"old", "filled", "chosen"}
        OBVIOUS
      <4>2. rows'[c] = rows[c] \/ (c = Of(p) /\ rows'[c] = Backfilled(c, rows[c]))
        BY <3>1
      <4> QED
        BY <2>1, <4>1, <4>2
    <3> QED
      BY <3>2, <3>3, Zenon
  <2>3. torn' \subseteq Filled
    BY <1>6, PlanKinds DEF Fill
  <2> QED
    BY <1>6, <2>2, <2>3 DEF Fill
<1>7. ASSUME NEW p \in Procs, Always(p) PROVE MigrationsTypeOK' /\ schema \subseteq schema'
  BY <1>7, PlanKinds DEF Always, Completes, Rows
<1>8. ASSUME NEW p \in Procs, Ensure(p) PROVE MigrationsTypeOK' /\ schema \subseteq schema'
  BY <1>8, PlanKinds DEF Ensure
<1>9. ASSUME NEW p \in Procs, Serve(p) PROVE MigrationsTypeOK' /\ schema \subseteq schema'
  <2>1. owes[p] = {}
    <3>1. ASSUME NEW c \in owes[p] PROVE FALSE
      <4>1. c \in Filled
        OBVIOUS
      <4>2. PICK i \in DOMAIN Plan : Plan[i] = Step("fill", c)
        BY <4>1 DEF Filled, Has
      <4> QED
        BY <1>9, <4>1, <4>2 DEF Serve, Unpaid, Passed
    <3> QED
      BY <3>1
  <2>2. users' \in BOOLEAN
    BY <1>9, Zenon DEF Serve
  <2> QED
    BY <1>9, <2>1, <2>2 DEF Serve
<1>10. ASSUME NEW c \in Chosen, Choose(c) PROVE MigrationsTypeOK' /\ schema \subseteq schema'
  BY <1>10 DEF Choose, Rows
<1>11. ASSUME NEW p \in Procs, Conflict(p) PROVE MigrationsTypeOK' /\ schema \subseteq schema'
  BY <1>4, <1>11 DEF Conflict
<1>12. ASSUME NEW p \in Procs, Stop(p) PROVE MigrationsTypeOK' /\ schema \subseteq schema'
  BY <1>4, <1>12 DEF Stop
<1> QED
  BY <1>1, <1>2, <1>3, <1>5, <1>6, <1>7, <1>8, <1>9, <1>10, <1>11, <1>12
     DEF MigrationsNext, Run

(* What a step of the plan has done when it is passed. *)
Effect(p) ==
    /\ Plan[at[p]].op \in {"add", "create"} => Of(p) \in schema' \/ Of(p) \notin missing[p]
    /\ Plan[at[p]].op = "ensure" => Of(p) \in schema'
    /\ Plan[at[p]].op = "read" =>
          \A c \in Columns : TableOf[c] = Of(p) => c \in missing'[p] \/ c \in schema'
    /\ Plan[at[p]].op = "fill" => Of(p) \notin owes'[p]
    /\ Plan[at[p]].op = "always" => rows'[Of(p)] # "old"
Advances(p) == at[p] \in DOMAIN Plan /\ at'[p] = at[p] + 1

(* What any step of the system does to a process, and to all. *)
Moves(p) ==
    /\ at'[p] \in {at[p], 0} \/ at'[p] = at[p] + 1
    /\ Advances(p) => Effect(p)
    /\ missing[p] \subseteq missing'[p] \/ at'[p] \in {0, Serving}
    /\ \A c \in missing'[p] : c \in missing[p] \/ c \notin schema
    /\ \A c \in owes'[p] : \/ c \in owes[p]
                           \/ Advances(p) /\ c = Of(p) /\ Plan[at[p]].op \in {"add", "create"}
    /\ \A c \in owes[p] : c \in owes'[p] \/ c \in torn' \/ rows'[c] # "old"
    /\ p \in crossed => p \in crossed' \/ missing'[p] = {}
Grows ==
    /\ \A c \in Rows : rows'[c] = "old" => rows[c] = "old"
    /\ \A c \in Rows : rows'[c] = "chosen" => rows[c] = "chosen" \/ (c \in Chosen /\ Choose(c))
    /\ torn \subseteq torn'
    /\ \A c \in Filled \cap (schema' \ schema) : \E p \in Procs : c \in owes'[p]

LEMMA StepMoves ==
    ASSUME MigrationsTypeOK, MigrationsTypeOK', [MigrationsNext]_migrationVars
    PROVE  Grows /\ \A p \in Procs : Moves(p)
<1> USE PlanLength DEF MigrationsTypeOK, Serving, Goes, Doing, Of, Grows, Moves, Effect, Advances
<1>1. CASE UNCHANGED migrationVars
  BY <1>1 DEF migrationVars
<1>2. ASSUME NEW q \in Procs, Start(q) PROVE Grows /\ \A p \in Procs : Moves(p)
  BY <1>2 DEF Start
<1>3. ASSUME NEW q \in Procs, Read(q) PROVE Grows /\ \A p \in Procs : Moves(p)
  BY <1>3 DEF Read
<1>4. ASSUME NEW q \in Procs, Ends(q) PROVE Grows /\ \A p \in Procs : Moves(p)
  BY <1>4 DEF Ends
<1>5. ASSUME NEW q \in Procs, Add(q) PROVE Grows /\ \A p \in Procs : Moves(p)
  <2>1. PICK adds \in {{Of(q)}, {}} :
           /\ adds = IF Of(q) \in missing[q] THEN {Of(q)} ELSE {}
           /\ schema' = schema \cup adds
           /\ owes' = [owes EXCEPT ![q] = owes[q] \cup (adds \cap Filled)]
    BY <1>5 DEF Add, Due
  <2>2. /\ at' = [at EXCEPT ![q] = at[q] + 1]
        /\ UNCHANGED <<rows, missing, torn, crossed>>
        /\ at[q] \in DOMAIN Plan /\ Plan[at[q]].op \in {"add", "create"}
    BY <1>5 DEF Add
  <2>3. owes'[q] = owes[q] \cup (adds \cap Filled)
    BY <2>1
  <2>4. Grows
    <3>1. schema' \ schema \subseteq adds
      BY <2>1
    <3> QED
      BY <2>2, <2>3, <3>1
  <2>5. Moves(q)
    BY <2>1, <2>2, <2>3
  <2>6. ASSUME NEW p \in Procs, p # q PROVE Moves(p)
    BY <2>1, <2>2, <2>6
  <2> QED
    BY <2>4, <2>5, <2>6
<1>6. ASSUME NEW q \in Procs, Fill(q) PROVE Grows /\ \A p \in Procs : Moves(p)
  <2>1. Of(q) \in Rows
    BY <1>6, PlanKinds DEF Fill, Rows
  <2>2. /\ \A c \in Rows : rows'[c] # rows[c] => rows'[c] = "filled"
        /\ Of(q) \in missing[q] => rows'[Of(q)] # "old" \/ Of(q) \in torn'
    <3>1. CASE Unfilled(q, Of(q)) /\ ~Ownerless(Of(q))
      <4>1. rows' = [rows EXCEPT ![Of(q)] = Backfilled(Of(q), rows[Of(q)])]
        BY <1>6, <3>1, Zenon DEF Fill
      <4>2. rows'[Of(q)] = Backfilled(Of(q), rows[Of(q)])
        BY <2>1, <4>1
      <4>3. \A c \in Rows : c # Of(q) => rows'[c] = rows[c]
        BY <4>1
      <4> QED
        BY <4>2, <4>3 DEF Backfilled
    <3>2. CASE Unfilled(q, Of(q)) /\ Ownerless(Of(q))
      <4>1. rows' = rows /\ torn' = torn \cup {Of(q)}
        BY <1>6, <3>2, Zenon DEF Fill
      <4> QED
        BY <4>1
    <3>3. CASE ~Unfilled(q, Of(q))
      <4>1. rows' = rows
        BY <1>6, <3>3, Zenon DEF Fill
      <4> QED
        BY <3>3, <4>1 DEF Unfilled
    <3> QED
      BY <3>1, <3>2, <3>3
  <2>3. /\ at' = [at EXCEPT ![q] = at[q] + 1]
        /\ owes' = [owes EXCEPT ![q] = owes[q] \ {Of(q)}]
        /\ UNCHANGED <<schema, missing, crossed>>
        /\ at[q] \in DOMAIN Plan /\ Plan[at[q]].op = "fill"
    BY <1>6 DEF Fill
  <2>4. torn \subseteq torn'
    BY <1>6, Zenon DEF Fill
  <2>5. \A c \in owes[q] : c \in owes'[q] \/ rows'[c] # "old" \/ c \in torn'
    BY <2>2, <2>3
  <2>6. Grows
    BY <2>2, <2>3, <2>4
  <2>7. \A p \in Procs : Moves(p)
    BY <2>2, <2>3, <2>4, <2>5
  <2> QED
    BY <2>6, <2>7
<1>7. ASSUME NEW q \in Procs, Always(q) PROVE Grows /\ \A p \in Procs : Moves(p)
  BY <1>7, PlanKinds DEF Always, Completes, Rows
<1>8. ASSUME NEW q \in Procs, Ensure(q) PROVE Grows /\ \A p \in Procs : Moves(p)
  BY <1>8, PlanKinds DEF Ensure
<1>9. ASSUME NEW q \in Procs, Serve(q) PROVE Grows /\ \A p \in Procs : Moves(p)
  BY <1>9 DEF Serve
<1>10. ASSUME NEW c \in Chosen, Choose(c) PROVE Grows /\ \A p \in Procs : Moves(p)
  <2>1. /\ rows' = [rows EXCEPT ![c] = "chosen"]
        /\ crossed \subseteq crossed'
        /\ UNCHANGED <<schema, at, missing, owes, torn>>
    BY <1>10 DEF Choose
  <2>2. \A d \in Rows : rows'[d] = rows[d] \/ (d = c /\ rows'[d] = "chosen")
    BY <2>1
  <2>3. Grows
    BY <1>10, <2>1, <2>2
  <2>4. \A p \in Procs : Moves(p)
    BY <2>1
  <2> QED
    BY <2>3, <2>4
<1> QED
  BY <1>1, <1>2, <1>3, <1>4, <1>5, <1>6, <1>7, <1>8, <1>9, <1>10
     DEF MigrationsNext, Run, Conflict, Stop

(* The installed schemas and the steps of a plan make up all columns. *)
LEMMA ServingWhole ==
    ASSUME MigrationsTypeOK, Provided, Inherited, NEW p \in Procs, at[p] = Serving
    PROVE  schema = Columns
<1>1. ASSUME NEW c \in Columns PROVE c \in schema
  <2>1. CASE \A s \in Installed : c \in s
    BY <2>1 DEF Inherited
  <2>2. CASE \E op \in {"add", "create", "ensure"} : Has(op, c)
    <3>1. PICK op \in {"add", "create", "ensure"}, i \in DOMAIN Plan : Plan[i] = Step(op, c)
      BY <2>2 DEF Has
    <3> QED
      BY <3>1, PlanLength DEF Provided, Provides, Passed, Serving, Step
  <2> QED
    BY <2>1, <2>2, MigrationsOK
<1> QED
  BY <1>1 DEF MigrationsTypeOK

(* The invariant of the migrations is inductive. *)
LEMMA MigrationsInductive == MigrationsSpec => []MigrationsInv
<1>1. MigrationsInit => MigrationsInv
  <2> SUFFICES ASSUME MigrationsInit PROVE MigrationsInv
    OBVIOUS
  <2> USE MigrationsOK, PlanLength DEF MigrationsInit
  <2>1. MigrationsTypeOK
    BY DEF MigrationsTypeOK, Serving
  <2>2. Provided /\ Remembered /\ Unpaid /\ Completed
    BY DEF Provided, Remembered, Unpaid, Completed, Passed
  <2>3. Inherited
    BY DEF Inherited
  <2>4. Owed
    BY DEF Owed, Rows
  <2>5. ChoiceSeen
    BY DEF ChoiceSeen
  <2> QED
    BY <2>1, <2>2, <2>3, <2>4, <2>5 DEF MigrationsInv
<1>2. ASSUME MigrationsInv, [MigrationsNext]_migrationVars PROVE MigrationsInv'
  <2> USE <1>2, PlanLength
  <2>1. MigrationsTypeOK' /\ schema \subseteq schema'
    BY TypeStep DEF MigrationsInv
  <2>2. Grows /\ \A p \in Procs : Moves(p)
    BY <2>1, StepMoves DEF MigrationsInv
  <2>3. ASSUME NEW p \in Procs, NEW i \in DOMAIN Plan, Passed(p, i)'
        PROVE  \/ Passed(p, i) /\ (at[p] = Serving => at'[p] \in {0, Serving})
               \/ i = at[p] /\ Advances(p) /\ Effect(p)
    BY <2>1, <2>2, <2>3 DEF Moves, Passed, Advances, MigrationsInv, MigrationsTypeOK, Serving
  <2>4. Provided'
    <3> SUFFICES ASSUME NEW p \in Procs, NEW i \in DOMAIN Plan, Passed(p, i)', Provides(i)
                 PROVE  Plan[i].of \in schema'
      BY DEF Provided, Provides
    <3>1. CASE Passed(p, i)
      BY <2>1, <3>1 DEF Provided, MigrationsInv
    <3>2. CASE i = at[p] /\ Advances(p) /\ Effect(p)
      <4>1. CASE Of(p) \in schema'
        BY <3>2, <4>1 DEF Of
      <4>2. CASE Plan[i].op \in {"add", "create"} /\ Of(p) \notin missing[p]
        <5>1. PICK j \in 1..(i - 1) : Plan[j] = Step("read", TableOf[Plan[i].of])
          BY <4>2, MigrationsOK
        <5>2. Plan[i].of \in Columns
          BY <4>2, PlanKinds
        <5>3. j \in DOMAIN Plan /\ Passed(p, j) /\ at[p] # Serving
          BY <3>2, <5>1 DEF Passed, Serving
        <5> QED
          BY <2>1, <3>2, <4>2, <5>1, <5>2, <5>3 DEF Remembered, MigrationsInv, Of
      <4> QED
        BY <3>2, <4>1, <4>2 DEF Effect, Provides
    <3> QED
      BY <2>3, <3>1, <3>2
  <2>5. Remembered'
    <3> SUFFICES ASSUME NEW p \in Procs, NEW i \in DOMAIN Plan, NEW c \in Columns,
                        Passed(p, i)', at'[p] # Serving, Plan[i] = Step("read", TableOf[c])
                 PROVE  c \in missing'[p] \/ c \in schema'
      BY DEF Remembered
    <3>1. CASE Passed(p, i) /\ at[p] # Serving
      <4>1. at'[p] # 0
        BY DEF Passed
      <4> QED
        BY <2>1, <2>2, <3>1, <4>1 DEF Remembered, MigrationsInv, Moves
    <3>2. CASE i = at[p] /\ Advances(p) /\ Effect(p)
      BY <3>2 DEF Effect, Of, Step
    <3>3. at'[p] # 0
      BY DEF Passed
    <3> QED
      BY <2>3, <3>1, <3>2, <3>3
  <2>6. Inherited'
    BY <2>1 DEF Inherited, MigrationsInv
  <2>7. Owed'
    <3> SUFFICES ASSUME NEW c \in Filled, rows'[c] = "old", c \in schema'
                 PROVE  c \in torn' \/ \E p \in Procs : c \in owes'[p]
      BY DEF Owed
    <3>1. CASE c \in schema
      <4>1. rows[c] = "old"
        BY <2>2 DEF Grows, Rows
      <4> QED
        BY <2>2, <3>1, <4>1 DEF Owed, MigrationsInv, Moves, Grows
    <3>2. CASE c \notin schema
      BY <2>2, <3>2 DEF Grows
    <3> QED
      BY <3>1, <3>2
  <2>8. Unpaid'
    <3> SUFFICES ASSUME NEW p \in Procs, NEW c \in Filled, NEW i \in DOMAIN Plan,
                        c \in owes'[p], Passed(p, i)', Plan[i] = Step("fill", c)
                 PROVE  FALSE
      BY DEF Unpaid
    <3>1. CASE c \in owes[p]
      BY <2>2, <2>3, <3>1 DEF Unpaid, MigrationsInv, Effect, Of, Step
    <3>2. CASE Advances(p) /\ c = Of(p) /\ Plan[at[p]].op \in {"add", "create"}
      <4>1. at[p] < i
        BY <3>2, MigrationsOK DEF Advances, Of, Step
      <4> QED
        BY <3>2, <4>1, PlanKinds DEF Advances, Passed
    <3> QED
      BY <2>2, <3>1, <3>2 DEF Moves
  <2>9. Completed'
    <3> SUFFICES ASSUME NEW p \in Procs, NEW i \in DOMAIN Plan, Passed(p, i)',
                        Plan[i].op = "always"
                 PROVE  rows'[Plan[i].of] # "old"
      BY DEF Completed
    <3>1. Plan[i].of \in Rows
      BY PlanKinds DEF Rows
    <3> QED
      BY <2>2, <2>3, <3>1 DEF Completed, MigrationsInv, Effect, Of, Grows
  <2>10. ChoiceSeen'
    <3> SUFFICES ASSUME NEW c \in Rows, rows'[c] = "chosen"
                 PROVE  c \in schema' /\ \A p \in Procs : c \in missing'[p] => p \in crossed'
      BY DEF ChoiceSeen
    <3>1. CASE rows[c] = "chosen"
      BY <2>1, <2>2, <3>1 DEF ChoiceSeen, MigrationsInv, Moves
    <3>2. CASE Choose(c)
      <4>1. PICK p \in Procs : at[p] = Serving
        BY <3>2 DEF Choose, Up
      <4>2. schema = Columns
        BY <4>1, ServingWhole DEF MigrationsInv
      <4>3. c \in Columns
        BY DEF Rows, Filled, Repeated
      <4> QED
        BY <2>1, <3>2, <4>2, <4>3 DEF Choose
    <3> QED
      BY <2>2, <3>1, <3>2 DEF Grows
  <2> QED
    BY <2>1, <2>4, <2>5, <2>6, <2>7, <2>8, <2>9, <2>10 DEF MigrationsInv
<1> QED
  BY <1>1, <1>2, PTL DEF MigrationsSpec

(* The schema and the positions of starts keep their types (migrations.py).*)
THEOREM MigrationsTypeCorrect == MigrationsSpec => []MigrationsTypeOK
BY MigrationsInductive, PTL DEF MigrationsInv

(* No start serves with old rows unfilled, but those that had no user to   *)
(* own them or whose filling was owed by a process that stopped            *)
(* (migrations.py:45-52, 204-226, 257-301, 350-358).                       *)
THEOREM RowsKept == MigrationsSpec => []OldRowsFilled
<1>1. MigrationsInv => OldRowsFilled
  <2> SUFFICES ASSUME MigrationsInv, NEW p \in Procs, at[p] = Serving
               PROVE  /\ schema = Columns
                      /\ \A c \in Rows : rows[c] = "old"
                            => c \in torn \/ \E q \in Procs : c \in owes[q]
    BY DEF OldRowsFilled, Up
  <2>1. schema = Columns
    BY ServingWhole DEF MigrationsInv
  <2>2. ASSUME NEW c \in Repeated PROVE rows[c] # "old"
    <3>1. PICK i \in DOMAIN Plan : Plan[i] = Step("always", c)
      BY DEF Repeated, Has
    <3> QED
      BY <3>1, PlanLength DEF MigrationsInv, Completed, Passed, Serving, Step
  <2>3. Filled \subseteq Columns
    BY DEF Filled
  <2> QED
    BY <2>1, <2>2, <2>3 DEF MigrationsInv, Owed, Rows
<1> QED
  BY <1>1, MigrationsInductive, PTL

(* A start changes no choice, but of scopes it had found no table for      *)
(* (migrations.py:196-250, 301-308).                                       *)
THEOREM ChoicesStay == MigrationsSpec => ChoicesRetained
<1>1. ASSUME MigrationsInv, [MigrationsNext]_migrationVars PROVE [ChoiceUnchanged]_migrationVars
  <2> SUFFICES ASSUME NEW c \in Rows, rows[c] = "chosen", rows'[c] # "chosen"
               PROVE  c = "discord_webhook_modsets" /\ \E p \in crossed : at'[p] # at[p]
    BY DEF ChoiceUnchanged
  <2>1. rows' # rows
    OBVIOUS
  <2>2. CASE \E p \in Procs : Fill(p)
    <3>1. PICK p \in Procs : Fill(p)
      BY <2>2
    <3>2. Unfilled(p, Of(p)) /\ rows' = [rows EXCEPT ![Of(p)] = Backfilled(Of(p), rows[Of(p)])]
      BY <2>1, <3>1 DEF Fill
    <3>3. c = Of(p) /\ Backfilled(c, "chosen") # "chosen"
      BY <1>1, <3>2 DEF MigrationsInv, MigrationsTypeOK
    <3>4. c = "discord_webhook_modsets" /\ p \in crossed
      BY <1>1, <3>2, <3>3 DEF Backfilled, Unfilled, MigrationsInv, ChoiceSeen
    <3>5. at'[p] # at[p]
      BY <1>1, <3>1, PlanLength DEF Fill, Goes, Doing, MigrationsInv, MigrationsTypeOK
    <3> QED
      BY <3>4, <3>5
  <2>3. CASE \E p \in Procs : Always(p)
    BY <1>1, <2>3 DEF Always, Completes, MigrationsInv, MigrationsTypeOK
  <2>4. CASE \E d \in Chosen : Choose(d)
    BY <1>1, <2>4 DEF Choose, MigrationsInv, MigrationsTypeOK
  <2> QED
    BY <1>1, <2>1, <2>2, <2>3, <2>4
       DEF MigrationsNext, Run, Start, Read, Conflict, Add, Ensure, Serve, Stop, Ends, migrationVars
<1> QED
  BY <1>1, MigrationsInductive, PTL DEF MigrationsSpec, ChoicesRetained

(***************************************************************************)
(* The window of failed logins.  Lists are compared by the attempts of     *)
(* each age in the window; those outside it are at the age Window.         *)
(***************************************************************************)
Lists == [Ages -> Nat]
Within(x, y) == \A a \in Ages \ {Window} : x[a] <= y[a]

(* What the changes of a list make of the attempts of each age. *)
LEMMA ListChanges ==
    ASSUME NEW x \in Lists
    PROVE  /\ Young(x) \in Lists /\ Young(x)[Window] = 0
           /\ \A a \in Ages \ {Window} : Young(x)[a] = x[a]
           /\ More(x) \in Lists
           /\ \A a \in Ages : More(x)[a] = IF a = 0 THEN x[a] + 1 ELSE x[a]
           /\ Older(x) \in Lists
           /\ \A a \in Ages \ {Window} :
                 Older(x)[a] = IF a = 0 THEN 0 ELSE x[a - 1]
           /\ \A a \in Ages \ {0} : a - 1 \in Ages \ {Window}
<1> USE LoginOK DEF Lists, Ages
<1>1. Young(x) \in Lists /\ Young(x)[Window] = 0 /\ \A a \in Ages \ {Window} : Young(x)[a] = x[a]
  BY DEF Young
<1>2. More(x) \in Lists /\ \A a \in Ages : More(x)[a] = IF a = 0 THEN x[a] + 1 ELSE x[a]
  BY DEF More
<1>3. Older(x) \in Lists /\ \A a \in Ages \ {Window} : Older(x)[a] = IF a = 0 THEN 0 ELSE x[a - 1]
  BY DEF Older
<1> QED
  BY <1>1, <1>2, <1>3

LEMMA EmptyList ==
    /\ Empty \in Lists /\ \A a \in Ages : Empty[a] = 0
    /\ 0 \in Ages \ {Window} /\ Window \in Ages
  BY LoginOK DEF Empty, Lists, Ages

(* Lists that are within another stay so under the same changes. *)
LEMMA WithinSteps ==
    ASSUME NEW x \in Lists, NEW y \in Lists, Within(x, y)
    PROVE  /\ Within(x, Young(y)) /\ Within(Young(x), y)
           /\ Within(More(x), More(y)) /\ Within(x, More(y))
           /\ Within(Young(Older(x)), Older(y)) /\ Within(Older(x), Young(Older(y)))
<1> USE ListChanges DEF Within
<1>1. Within(x, Young(y)) /\ Within(Young(x), y)
  OBVIOUS
<1>2. \A a \in Ages \ {Window} : x[a] \in Nat /\ y[a] \in Nat
  BY DEF Lists
<1>3. Within(More(x), More(y)) /\ Within(x, More(y))
  BY <1>2
<1>4. \A a \in Ages \ {Window} : Older(x)[a] <= Older(y)[a]
  OBVIOUS
<1>5. /\ \A a \in Ages \ {Window} : Young(Older(x))[a] = Older(x)[a]
      /\ \A a \in Ages \ {Window} : Young(Older(y))[a] = Older(y)[a]
  OBVIOUS
<1> QED
  BY <1>1, <1>3, <1>4, <1>5

(* What a mark is. *)
LEMMA MarkForm ==
    ASSUME NEW list
    PROVE  /\ \A m \in Marks(list) : /\ m = <<m[1], m[2]>>
                                     /\ m[1] \in Ages /\ m[2] \in 1..list[m[1]]
           /\ \A a \in Ages : \A i \in 1..list[a] : <<a, i>> \in Marks(list)
  BY DEF Marks

(* A list has finitely many attempts. *)
LEMMA MarksFinite ==
    ASSUME NEW list \in Lists
    PROVE  IsFiniteSet(Marks(list)) /\ Total(list) \in Nat
<1> DEFINE marked == [a \in Ages |-> {a} \X (1..list[a])]
           sets == {{a} \X (1..list[a]) : a \in Ages}
<1>1. marked \in Surjection(Ages, sets)
  BY Fun_IsSurj
<1>2. IsFiniteSet(Ages)
  BY LoginOK, FS_Interval DEF Ages
<1>3. IsFiniteSet(sets)
  BY <1>1, <1>2, FS_Surjection
<1>4. ASSUME NEW a \in Ages PROVE IsFiniteSet({a} \X (1..list[a]))
  <2>1. IsFiniteSet(1..list[a])
    BY FS_Interval DEF Lists
  <2> QED
    BY <2>1, FS_Singleton, FS_Product
<1>5. IsFiniteSet(Marks(list))
  BY <1>3, <1>4, FS_UNION DEF Marks
<1> QED
  BY <1>5, FS_CardinalityType DEF Total

LEMMA EmptyTotal == Total(Empty) = 0
<1>1. Marks(Empty) = {}
  BY MarkForm, EmptyList
<1> QED
  BY <1>1, FS_EmptySet DEF Total

(* A list in the window that is within another has no more attempts. *)
LEMMA WithinFewer ==
    ASSUME NEW x \in Lists, NEW y \in Lists, Within(x, y), x[Window] = 0
    PROVE  Total(x) <= Total(y)
<1>1. ASSUME NEW m \in Marks(x) PROVE m \in Marks(y)
  <2>1. m = <<m[1], m[2]>> /\ m[1] \in Ages /\ m[2] \in 1..x[m[1]]
    BY MarkForm
  <2>2. m[1] # Window /\ x[m[1]] \in Nat /\ y[m[1]] \in Nat
    BY <2>1 DEF Lists
  <2>3. m[2] \in 1..y[m[1]]
    BY <2>1, <2>2 DEF Within
  <2> QED
    BY <2>1, <2>3, MarkForm
<1>2. Marks(x) \subseteq Marks(y)
  BY <1>1
<1> QED
  BY <1>2, MarksFinite, FS_Subset DEF Total

(* A failure adds one mark. *)
LEMMA MoreTotal ==
    ASSUME NEW x \in Lists
    PROVE  Total(More(x)) = Total(x) + 1
<1> DEFINE mark == <<0, x[0] + 1>>
<1>1. 0 \in Ages /\ x[0] \in Nat
  BY EmptyList DEF Lists
<1>2. mark \notin Marks(x)
  BY <1>1, MarkForm
<1>3. ASSUME NEW m \in Marks(More(x)) PROVE m \in Marks(x) \cup {mark}
  <2>1. m = <<m[1], m[2]>> /\ m[1] \in Ages /\ m[2] \in 1..More(x)[m[1]]
    BY MarkForm
  <2>2. CASE m[1] = 0 /\ m[2] = x[0] + 1
    BY <2>1, <2>2
  <2>3. CASE ~(m[1] = 0 /\ m[2] = x[0] + 1)
    <3>1. x[m[1]] \in Nat /\ More(x)[m[1]] = IF m[1] = 0 THEN x[m[1]] + 1 ELSE x[m[1]]
      BY <2>1, ListChanges DEF Lists
    <3>2. m[2] \in 1..x[m[1]]
      BY <2>1, <2>3, <3>1
    <3> QED
      BY <2>1, <3>2, MarkForm
  <2> QED
    BY <2>2, <2>3
<1>4. ASSUME NEW m \in Marks(x) PROVE m \in Marks(More(x))
  <2>1. m = <<m[1], m[2]>> /\ m[1] \in Ages /\ m[2] \in 1..x[m[1]] /\ x[m[1]] \in Nat
    BY MarkForm DEF Lists
  <2>2. m[2] \in 1..More(x)[m[1]]
    BY <2>1, ListChanges
  <2> QED
    BY <2>1, <2>2, MarkForm
<1>5. mark \in Marks(More(x))
  <2>1. More(x)[0] = x[0] + 1
    BY <1>1, ListChanges
  <2> QED
    BY <1>1, <2>1, MarkForm
<1>6. Marks(More(x)) = Marks(x) \cup {mark}
  BY <1>3, <1>4, <1>5
<1> HIDE DEF mark
<1> QED
  BY <1>2, <1>6, MarksFinite, FS_AddElement DEF Total

(* Time adds no attempts to those in the window. *)
LEMMA OlderFewer ==
    ASSUME NEW x \in Lists
    PROVE  Total(Young(Older(x))) <= Total(x)
<1> DEFINE old == Marks(Young(Older(x)))
           new == Marks(x)
           younger == [m \in old |-> <<m[1] - 1, m[2]>>]
<1>1. /\ Older(x) \in Lists
      /\ Young(Older(x)) \in Lists /\ Young(Older(x))[Window] = 0
      /\ \A a \in Ages \ {Window} : Young(Older(x))[a] = IF a = 0 THEN 0 ELSE x[a - 1]
  BY ListChanges
<1>2. ASSUME NEW m \in old
      PROVE  m[1] \in Ages \ {0, Window} /\ m = <<m[1], m[2]>> /\ younger[m] \in new
  <2>1. m = <<m[1], m[2]>> /\ m[1] \in Ages /\ m[2] \in 1..Young(Older(x))[m[1]]
    BY MarkForm
  <2>2. m[1] \notin {0, Window}
    BY <1>1, <2>1
  <2>3. m[1] - 1 \in Ages /\ m[2] \in 1..x[m[1] - 1]
    BY <1>1, <2>1, <2>2, ListChanges
  <2>4. <<m[1] - 1, m[2]>> \in new
    BY <2>3, MarkForm
  <2> QED
    BY <2>1, <2>2, <2>4
<1>3. younger \in Injection(old, new)
  <2>1. younger \in [old -> new]
    BY <1>2
  <2>2. ASSUME NEW m \in old, NEW n \in old, younger[m] = younger[n] PROVE m = n
    BY <1>2, <2>2, LoginOK DEF Ages
  <2> QED
    BY <2>1, <2>2, Fun_IsInj
<1> QED
  BY <1>1, <1>3, MarksFinite, FS_Injection DEF Total

(* What was recorded is what failed at most; and the failures of logins    *)
(* that overlapped no other are in the dictionary and in every list that   *)
(* was read from it.                                                       *)
LoginLists == /\ Within(attempts, failed)
              /\ \A t \in Logins : Within(kept[t], failed)
              /\ Within(apart, attempts)
              /\ \A t \in Logins : login[t] = "store" => Within(apart, kept[t])
              /\ apart[Window] = 0

(* A login that overlaps no other is alone, its list is in the dictionary, *)
(* and one that was let through leaves room for its failure.               *)
LoginAlone ==
    ~crowd => /\ replaced = {}
              /\ \A t, u \in Logins : login[t] # "out" /\ login[u] # "out" => t = u
              /\ \A t \in Logins : login[t] \in {"verify", "append"} => Total(apart) < Limit

LoginInv == LoginTypeOK /\ LoginLists /\ LoginAlone /\ FailuresBounded

LEMMA LoginTypes ==
    ASSUME LoginTypeOK
    PROVE  /\ attempts \in Lists /\ failed \in Lists /\ apart \in Lists
           /\ \A t \in Logins : kept[t] \in Lists
           /\ Total(attempts) \in Nat /\ Total(failed) \in Nat /\ Total(apart) \in Nat
<1>1. /\ attempts \in Lists /\ failed \in Lists /\ apart \in Lists
      /\ \A t \in Logins : kept[t] \in Lists
  BY DEF LoginTypeOK, Lists
<1> QED
  BY <1>1, MarksFinite

(* One lemma for each step of a login, and one for the passing of time. *)
LEMMA LoginTypeStep ==
    ASSUME LoginTypeOK, [LoginNext]_loginVars
    PROVE  LoginTypeOK'
<1> USE ListChanges, EmptyList, LoginTypes DEF LoginTypeOK, Lists, Appending, Recent, history
<1>1. ASSUME NEW t \in Logins, Check(t) PROVE LoginTypeOK'
  <2>1. crowd' \in BOOLEAN
    BY <1>1, Zenon DEF Check
  <2> QED
    BY <1>1, <2>1 DEF Check, LoginGoes
<1>2. ASSUME NEW t \in Logins, Store(t) PROVE LoginTypeOK'
  BY <1>2 DEF Store, LoginGoes
<1>3. ASSUME NEW t \in Logins, Succeed(t) PROVE LoginTypeOK'
  BY <1>3 DEF Succeed, LoginGoes
<1>4. ASSUME NEW t \in Logins, Fetch(t) PROVE LoginTypeOK'
  BY <1>4 DEF Fetch, LoginGoes
<1>5. ASSUME NEW t \in Logins, Record(t) PROVE LoginTypeOK'
  BY <1>5 DEF Record, LoginGoes
<1>6. CASE Tick
  BY <1>6 DEF Tick
<1>7. CASE UNCHANGED loginVars
  BY <1>7 DEF loginVars
<1> QED
  BY <1>1, <1>2, <1>3, <1>4, <1>5, <1>6, <1>7 DEF LoginNext

LEMMA LoginCheck ==
    ASSUME LoginInv, NEW t \in Logins, Check(t), LoginTypeOK'
    PROVE  LoginInv'
<1> USE DEF LoginInv, Check, LoginGoes
<1>1. /\ login[t] = "out" /\ login'[t] = "store" /\ kept'[t] = Young(attempts)
      /\ \A u \in Logins \ {t} : login'[u] = login[u] /\ kept'[u] = kept[u]
      /\ UNCHANGED <<attempts, replaced, failed, apart>>
  BY DEF LoginTypeOK, Recent
<1>2. Within(kept'[t], failed) /\ Within(apart, kept'[t])
  BY <1>1, LoginTypes, WithinSteps DEF LoginLists
<1>3. LoginLists'
  BY <1>1, <1>2 DEF LoginLists
<1>4. LoginAlone'
  <2> SUFFICES ASSUME ~crowd' PROVE LoginAlone'
    BY DEF LoginAlone
  <2>1. \A u \in Logins \ {t} : login[u] = "out"
    BY DEF Others
  <2>2. replaced = {}
    BY <1>1, <2>1 DEF LoginTypeOK
  <2> QED
    BY <1>1, <2>1, <2>2 DEF LoginAlone
<1> QED
  BY <1>1, <1>3, <1>4 DEF FailuresBounded

LEMMA LoginStore ==
    ASSUME LoginInv, NEW t \in Logins, Store(t), LoginTypeOK'
    PROVE  LoginInv'
<1> USE DEF LoginInv, Store, LoginGoes, history
<1>1. /\ login[t] = "store" /\ login'[t] \in {"out", "verify"} /\ attempts' = kept[t]
      /\ kept'[t] = Empty /\ replaced' = Appending
      /\ \A u \in Logins \ {t} : login'[u] = login[u] /\ kept'[u] = kept[u]
      /\ UNCHANGED <<crowd, failed, apart>>
  BY DEF LoginTypeOK
<1>2. Within(Empty, failed)
  BY LoginTypes, EmptyList DEF Within, Lists
<1>3. LoginLists'
  BY <1>1, <1>2 DEF LoginLists
<1>4. login'[t] = "verify" => Total(apart) < Limit
  <2>1. Total(apart) <= Total(kept[t])
    BY <1>1, LoginTypes, WithinFewer DEF LoginLists
  <2>2. Total(kept[t]) \in Nat /\ Total(apart) \in Nat
    BY LoginTypes, MarksFinite
  <2>3. login'[t] = "verify" => ~(Total(kept[t]) >= Limit)
    BY <1>1 DEF Refused, LoginTypeOK
  <2> QED
    BY <2>1, <2>2, <2>3, LoginOK
<1>5. LoginAlone'
  <2> SUFFICES ASSUME ~crowd PROVE LoginAlone'
    BY <1>1 DEF LoginAlone
  <2>1. \A u \in Logins \ {t} : login[u] = "out"
    BY <1>1 DEF LoginAlone
  <2>2. Appending = {}
    BY <1>1, <2>1 DEF Appending
  <2> QED
    BY <1>1, <1>4, <2>1, <2>2 DEF LoginAlone
<1> QED
  BY <1>1, <1>3, <1>5 DEF FailuresBounded

LEMMA LoginSucceed ==
    ASSUME LoginInv, NEW t \in Logins, Succeed(t), LoginTypeOK'
    PROVE  LoginInv'
<1> USE DEF LoginInv, Succeed, LoginGoes
<1>1. /\ login[t] = "verify" /\ login'[t] = "out" /\ attempts' = Empty /\ apart' = Empty
      /\ replaced' = Appending
      /\ \A u \in Logins \ {t} : login'[u] = login[u]
      /\ UNCHANGED <<kept, crowd, failed>>
  BY DEF LoginTypeOK
<1>2. /\ Within(Empty, failed) /\ Within(Empty, Empty) /\ Empty[Window] = 0
      /\ \A u \in Logins : Within(Empty, kept[u])
  BY LoginTypes, EmptyList DEF Within, Lists
<1>3. LoginLists'
  BY <1>1, <1>2 DEF LoginLists
<1>4. Total(apart') = 0
  BY <1>1, EmptyTotal
<1>5. LoginAlone'
  <2> SUFFICES ASSUME ~crowd PROVE LoginAlone'
    BY <1>1 DEF LoginAlone
  <2>1. \A u \in Logins \ {t} : login[u] = "out"
    BY <1>1 DEF LoginAlone
  <2>2. Appending = {}
    BY <1>1, <2>1 DEF Appending
  <2> QED
    BY <1>1, <2>1, <2>2 DEF LoginAlone
<1> QED
  BY <1>3, <1>4, <1>5, LoginOK DEF FailuresBounded

LEMMA LoginFetch ==
    ASSUME LoginInv, NEW t \in Logins, Fetch(t), LoginTypeOK'
    PROVE  LoginInv'
<1> USE DEF LoginInv, Fetch, LoginGoes, history
<1>1. /\ login[t] = "verify" /\ login'[t] = "append"
      /\ \A u \in Logins \ {t} : login'[u] = login[u]
      /\ UNCHANGED <<attempts, kept, replaced, crowd, failed, apart>>
  BY DEF LoginTypeOK
<1>2. LoginLists'
  BY <1>1 DEF LoginLists
<1>3. LoginAlone'
  BY <1>1 DEF LoginAlone
<1> QED
  BY <1>1, <1>2, <1>3 DEF FailuresBounded

LEMMA LoginRecord ==
    ASSUME LoginInv, NEW t \in Logins, Record(t), LoginTypeOK'
    PROVE  LoginInv'
<1> USE DEF LoginInv, Record, LoginGoes
<1>1. /\ login[t] = "append" /\ login'[t] = "out" /\ replaced' = replaced \ {t}
      /\ \A u \in Logins \ {t} : login'[u] = login[u]
      /\ attempts' \in {attempts, More(attempts)} /\ failed' = More(failed)
      /\ UNCHANGED <<kept, crowd>>
  BY DEF LoginTypeOK
<1>2. /\ Within(attempts, More(failed)) /\ Within(More(attempts), More(failed))
      /\ \A u \in Logins : Within(kept[u], More(failed))
  BY LoginTypes, WithinSteps DEF LoginLists
<1>3. CASE crowd
  <2>1. apart' = apart
    BY <1>3
  <2>2. Within(apart, attempts) /\ Within(apart, More(attempts))
    BY LoginTypes, WithinSteps DEF LoginLists
  <2>3. LoginLists'
    BY <1>1, <1>2, <2>1, <2>2 DEF LoginLists
  <2> QED
    BY <1>1, <1>3, <2>1, <2>3 DEF LoginAlone, FailuresBounded
<1>4. CASE ~crowd
  <2>1. /\ apart' = More(apart) /\ attempts' = More(attempts) /\ Total(apart) < Limit
        /\ \A u \in Logins \ {t} : login[u] = "out"
    BY <1>1, <1>4 DEF LoginAlone
  <2>2. Within(More(apart), More(attempts)) /\ More(apart)[Window] = 0
    <3>1. Within(More(apart), More(attempts))
      BY LoginTypes, WithinSteps DEF LoginLists
    <3>2. Window \in Ages /\ Window # 0 /\ apart[Window] = 0
      BY EmptyList DEF LoginLists
    <3> QED
      BY <3>1, <3>2, LoginTypes, ListChanges
  <2>3. LoginLists'
    BY <1>1, <1>2, <2>1, <2>2 DEF LoginLists
  <2>4. Total(apart') <= Limit
    BY <2>1, LoginTypes, MoreTotal, LoginOK
  <2>5. LoginAlone'
    BY <1>1, <1>4, <2>1 DEF LoginAlone
  <2> QED
    BY <2>3, <2>4, <2>5 DEF FailuresBounded
<1> QED
  BY <1>3, <1>4

LEMMA LoginTick ==
    ASSUME LoginInv, Tick, LoginTypeOK'
    PROVE  LoginInv'
<1> USE DEF LoginInv, Tick
<1>1. /\ attempts' = Older(attempts) /\ failed' = Young(Older(failed)) /\ apart' = Young(Older(apart))
      /\ \A t \in Logins : kept'[t] = Older(kept[t])
      /\ UNCHANGED <<login, replaced, crowd>>
  OBVIOUS
<1>2. /\ Within(Older(attempts), Young(Older(failed)))
      /\ Within(Young(Older(apart)), Older(attempts))
      /\ Young(Older(apart))[Window] = 0
  BY LoginTypes, WithinSteps, ListChanges DEF LoginLists
<1>3. ASSUME NEW t \in Logins
      PROVE  /\ Within(Older(kept[t]), Young(Older(failed)))
             /\ login[t] = "store" => Within(Young(Older(apart)), Older(kept[t]))
  BY LoginTypes, WithinSteps DEF LoginLists
<1>4. LoginLists'
  BY <1>1, <1>2, <1>3 DEF LoginLists
<1>5. Total(apart') <= Total(apart) /\ Total(apart') \in Nat /\ Total(apart) \in Nat
  <2>1. Older(apart) \in Lists /\ Young(Older(apart)) \in Lists
    BY LoginTypes, ListChanges
  <2> QED
    BY <1>1, <2>1, LoginTypes, OlderFewer, MarksFinite
<1>6. LoginAlone'
  BY <1>1, <1>5, LoginOK DEF LoginAlone
<1> QED
  BY <1>4, <1>5, <1>6, LoginOK DEF FailuresBounded

LEMMA LoginInductive == LoginSpec => []LoginInv
<1>1. LoginInit => LoginInv
  <2> SUFFICES ASSUME LoginInit PROVE LoginInv
    OBVIOUS
  <2> USE EmptyList DEF LoginInit
  <2>1. LoginTypeOK
    BY DEF LoginTypeOK, Lists
  <2>2. LoginLists
    BY DEF LoginLists, Within
  <2>3. Total(apart) = 0
    BY EmptyTotal
  <2>4. LoginAlone /\ FailuresBounded
    BY <2>3, LoginOK DEF LoginAlone, FailuresBounded
  <2> QED
    BY <2>1, <2>2, <2>4 DEF LoginInv
<1>2. ASSUME LoginInv, [LoginNext]_loginVars PROVE LoginInv'
  <2>1. LoginTypeOK'
    BY <1>2, LoginTypeStep DEF LoginInv
  <2>2. CASE UNCHANGED loginVars
    BY <1>2, <2>1, <2>2
       DEF loginVars, LoginInv, LoginLists, LoginAlone, FailuresBounded
  <2> QED
    BY <1>2, <2>1, <2>2, LoginCheck, LoginStore, LoginSucceed, LoginFetch, LoginRecord, LoginTick
       DEF LoginNext
<1> QED
  BY <1>1, <1>2, PTL DEF LoginSpec

(* The records of failed logins keep their types (login_protection.py). *)
THEOREM LoginTypeCorrect == LoginSpec => []LoginTypeOK
BY LoginInductive, PTL DEF LoginInv

(* Of logins that overlap no other no more than the limit fail within the  *)
(* window, however many others there are in however many threads           *)
(* (login_protection.py:11-21, routers/auth.py:38-82).                     *)
THEOREM FailuresAreBounded == LoginSpec => []FailuresBounded
BY LoginInductive, PTL DEF LoginInv

(* However many threads put lists back and append to them: who is refused  *)
(* at the limit is refused for failures that took place                    *)
(* (login_protection.py:11-17).                                            *)
THEOREM RefusalsAreEarned == LoginSpec => RefusalsEarned
<1>1. ASSUME LoginInv, LoginNext, NEW t \in Logins, login[t] = "out", login'[t] = "store",
             Refused(kept'[t])
      PROVE  Total(failed) >= Limit
  <2>1. Check(t)
    BY <1>1 DEF LoginNext, Check, Store, Succeed, Fetch, Record, Tick, LoginGoes, LoginInv, LoginTypeOK
  <2>2. kept'[t] = Young(attempts)
    BY <1>1, <2>1 DEF Check, Recent, LoginInv, LoginTypeOK
  <2>3. /\ Young(attempts) \in Lists /\ failed \in Lists
        /\ Within(Young(attempts), failed) /\ Young(attempts)[Window] = 0
    BY <1>1, LoginTypes, WithinSteps, ListChanges DEF LoginInv, LoginLists
  <2>4. Total(Young(attempts)) <= Total(failed)
    BY <2>3, WithinFewer
  <2>5. Total(Young(attempts)) >= Limit /\ Total(Young(attempts)) \in Nat /\ Total(failed) \in Nat
    BY <1>1, <2>2, <2>3, MarksFinite DEF Refused
  <2> QED
    BY <2>4, <2>5, LoginOK
<1>2. ASSUME LoginInv, LoginNext \/ UNCHANGED loginVars
      PROVE  \A t \in Logins : login[t] = "out" /\ login'[t] = "store" /\ Refused(kept'[t])
                                  => Total(failed) >= Limit
  BY <1>1, <1>2 DEF loginVars
<1>3. LoginInv /\ [LoginNext]_loginVars
      => [\A t \in Logins : login[t] = "out" /\ login'[t] = "store" /\ Refused(kept'[t])
                               => Total(failed) >= Limit]_loginVars
  BY <1>2
<1> QED
  BY <1>3, LoginInductive, PTL DEF LoginSpec, RefusalsEarned

(***************************************************************************)
(* The browser tab: what a poll in flight may still put in place.          *)
(***************************************************************************)
(* Nothing the tab holds is ahead of the server. *)
BehindServer ==
    /\ snapshot.stage <= jobs[snapshot.scope]
    /\ \A p \in Polls : poll[p].pc = "answered" => poll[p].stage <= jobs[poll[p].scope]
    /\ \A r \in Requests : request[r].pc = "answered" => request[r].stage <= jobs[request[r].scope]

(* At most one poll is live, it is in flight, and for the selection. *)
OneLive ==
    /\ \A p \in Polls : poll[p].live => poll[p].pc # "none" /\ poll[p].scope = scope
    /\ \A p, q \in Polls : poll[p].live /\ poll[q].live => p = q

(* An answer that will be taken is not behind what is shown. *)
TakenFresh ==
    /\ \A p \in Polls : poll[p].version <= mutations
    /\ \A p \in Polls : poll[p].pc = "answered" /\ Current(p) /\ snapshot.scope = poll[p].scope
                        => snapshot.stage <= poll[p].stage

PollInv == PollingTypeOK /\ BehindServer /\ OneLive /\ TakenFresh

LEMMA NothingInFlight ==
    /\ NoPoll \in [pc : {"none", "asked", "answered"}, scope : Scopes,
                   version : Nat, live : BOOLEAN, stage : Nat]
    /\ NoRequest \in [pc : {"none", "asked", "answered"}, scope : Scopes, stage : Nat]
    /\ NoPoll.pc = "none" /\ ~NoPoll.live /\ NoPoll.version = 0 /\ NoRequest.pc = "none"
    /\ Home \in Scopes
<1>1. Home \in Scopes
  BY PollingOK DEF Home
<1> QED
  BY <1>1 DEF NoPoll, NoRequest

(* The invariant of the tab is inductive. *)
LEMMA PollInductive == PollingSpec => []PollInv
<1> USE PollingOK, NothingInFlight DEF PollInv, PollingTypeOK, BehindServer, OneLive, TakenFresh, Current
<1>1. PollingInit => PollInv
  BY DEF PollingInit
<1>2. ASSUME PollInv, [PollingNext]_pollVars PROVE PollInv'
  <2>1. ASSUME NEW p \in Polls, Ask(p) PROVE PollInv'
    BY <1>2, <2>1 DEF Ask
  <2>2. ASSUME NEW p \in Polls, List(p) PROVE PollInv'
    <3>1. jobs[poll[p].scope] \in Nat /\ poll[p] \in [pc : {"none", "asked", "answered"},
             scope : Scopes, version : Nat, live : BOOLEAN, stage : Nat]
      BY <1>2
    <3>2. /\ poll' = [poll EXCEPT ![p] = [poll[p] EXCEPT !.pc = "answered",
                                         !.stage = jobs[poll[p].scope]]]
          /\ poll[p].pc = "asked"
          /\ UNCHANGED <<jobs, scope, request, mutations, snapshot, pending, strayed, uses>>
      BY <2>2, <1>2 DEF List
    <3>3. /\ poll'[p].pc = "answered" /\ poll'[p].stage = jobs[poll[p].scope]
          /\ poll'[p].scope = poll[p].scope /\ poll'[p].version = poll[p].version
          /\ poll'[p].live = poll[p].live
          /\ \A q \in Polls \ {p} : poll'[q] = poll[q]
      BY <1>2, <3>1, <3>2
    <3>4. PollingTypeOK'
      BY <1>2, <3>1, <3>2
    <3>5. TakenFresh'
      BY <1>2, <3>2, <3>3
    <3>6. BehindServer'
      BY <1>2, <3>2 DEF Shown
    <3>7. OneLive'
      <4>1. \A q \in Polls : /\ poll'[q].live = poll[q].live
                             /\ poll'[q].scope = poll[q].scope
                             /\ poll[q].pc # "none" => poll'[q].pc # "none"
        BY <3>2, <3>3
      <4> QED
        BY <1>2, <3>2, <4>1
    <3> QED
      BY <3>4, <3>5, <3>6, <3>7
  <2>3. ASSUME NEW p \in Polls, TakeJobs(p) PROVE PollInv'
    BY <1>2, <2>3 DEF TakeJobs
  <2>4. ASSUME NEW p \in Polls, PollFails(p) PROVE PollInv'
    <3>1. /\ poll' = [poll EXCEPT ![p] = NoPoll]
          /\ UNCHANGED <<jobs, scope, request, mutations, pending, strayed>>
          /\ uses' \in [requests : 0..MaxRequests, others : 0..MaxOthers,
                        switches : 0..MaxSwitches, losses : 0..MaxLosses]
      BY <1>2, <2>4 DEF PollFails
    <3>2. CASE ~poll[p].live
      BY <1>2, <2>4, <3>1, <3>2 DEF PollFails
    <3>3. CASE poll[p].live
      <4>1. /\ snapshot' = [scope |-> scope, stage |-> Shown, loaded |-> Loaded, error |-> TRUE]
            /\ \A q \in Polls : ~poll'[q].live
        BY <1>2, <2>4, <3>1, <3>3 DEF PollFails
      <4>2. Shown \in Nat /\ Shown <= jobs[scope] /\ Loaded \in BOOLEAN
        BY <1>2 DEF Shown, Loaded
      <4> QED
        BY <1>2, <3>1, <4>1, <4>2
    <3> QED
      BY <3>2, <3>3
  <2>5. ASSUME NEW r \in Requests, RefreshMod(r) PROVE PollInv'
    BY <1>2, <2>5 DEF RefreshMod
  <2>6. ASSUME NEW r \in Requests, Accept(r) PROVE PollInv'
    <3>1. \A s \in Scopes : jobs[s] <= jobs'[s] /\ jobs'[s] \in Nat
      BY <1>2, <2>6 DEF Accept, Asked
    <3>2. /\ request'[r].pc = "answered" /\ request'[r].scope = request[r].scope
          /\ request'[r].stage = jobs'[request[r].scope]
          /\ \A q \in Requests \ {r} : request'[q] = request[q]
          /\ UNCHANGED <<scope, poll, mutations, snapshot, pending, strayed, uses>>
      BY <1>2, <2>6 DEF Accept
    <3>3. request' \in [Requests -> [pc : {"none", "asked", "answered"}, scope : Scopes, stage : Nat]]
      <4> DEFINE accepted == [request[r] EXCEPT !.pc = "answered",
                                                !.stage = jobs'[request[r].scope]]
      <4>1. accepted \in [pc : {"none", "asked", "answered"}, scope : Scopes, stage : Nat]
        BY <1>2, <3>1
      <4>2. request' = [request EXCEPT ![r] = accepted]
        BY <1>2, <2>6 DEF Accept
      <4> QED
        BY <1>2, <4>1, <4>2
    <3>4. jobs' \in [Scopes -> Nat]
      <4>1. jobs' = [jobs EXCEPT ![request[r].scope] = Asked(jobs[request[r].scope])]
        BY <2>6 DEF Accept
      <4>2. DOMAIN jobs' = Scopes /\ jobs' = [s \in Scopes |-> jobs'[s]]
        BY <1>2, <4>1
      <4> QED
        BY <3>1, <4>2
    <3>5. BehindServer'
      <4>1. snapshot'.stage <= jobs'[snapshot'.scope]
        BY <1>2, <3>1, <3>2
      <4>2. \A p \in Polls : poll'[p].pc = "answered" => poll'[p].stage <= jobs'[poll'[p].scope]
        BY <1>2, <3>1, <3>2
      <4>3. \A q \in Requests :
               request'[q].pc = "answered" => request'[q].stage <= jobs'[request'[q].scope]
        BY <1>2, <3>1, <3>2
      <4> QED
        BY <4>1, <4>2, <4>3
    <3> QED
      BY <1>2, <3>2, <3>3, <3>4, <3>5
  <2>7. ASSUME NEW r \in Requests, Answered(r) PROVE PollInv'
    <3>1. /\ request' = [request EXCEPT ![r] = NoRequest]
          /\ UNCHANGED <<jobs, scope, poll, uses>>
          /\ pending' \in [scope : Scopes, on : BOOLEAN] /\ strayed' \subseteq Scopes
      BY <1>2, <2>7 DEF Answered, Unmarks
    <3>2. CASE request[r].scope = scope
      <4>1. /\ mutations' = mutations + 1
            /\ snapshot' = [scope |-> scope, stage |-> request[r].stage,
                            loaded |-> TRUE, error |-> FALSE]
            /\ request[r].stage <= jobs[scope]
        BY <1>2, <2>7, <3>2 DEF Answered, Stores
      <4>2. \A p \in Polls : poll'[p].version < mutations'
        BY <1>2, <3>1, <4>1
      <4> QED
        BY <1>2, <3>1, <4>1, <4>2
    <3>3. CASE request[r].scope # scope
      BY <1>2, <2>7, <3>1, <3>3 DEF Answered, Stores
    <3> QED
      BY <3>2, <3>3
  <2>8. ASSUME NEW r \in Requests, RequestFails(r) PROVE PollInv'
    BY <1>2, <2>8 DEF RequestFails, Unmarks
  <2>9. ASSUME NEW s \in Scopes, Select(s) PROVE PollInv'
    <3>1. /\ poll' = [p \in Polls |-> [poll[p] EXCEPT !.live = FALSE]]
          /\ scope' = s /\ UNCHANGED <<jobs, request, mutations, snapshot, pending, strayed>>
      BY <2>9 DEF Select, Disposes
    <3>2. \A p \in Polls : /\ ~poll'[p].live /\ poll'[p].pc = poll[p].pc
                           /\ poll'[p].scope = poll[p].scope /\ poll'[p].stage = poll[p].stage
                           /\ poll'[p].version = poll[p].version
      BY <1>2, <3>1
    <3>3. poll' \in [Polls -> [pc : {"none", "asked", "answered"}, scope : Scopes,
                               version : Nat, live : BOOLEAN, stage : Nat]]
      <4>1. ASSUME NEW p \in Polls
            PROVE  [poll[p] EXCEPT !.live = FALSE] \in [pc : {"none", "asked", "answered"},
                      scope : Scopes, version : Nat, live : BOOLEAN, stage : Nat]
        <5>1. poll[p] \in [pc : {"none", "asked", "answered"},
                           scope : Scopes, version : Nat, live : BOOLEAN, stage : Nat]
          BY <1>2
        <5> QED
          BY <5>1
      <4> QED
        BY <3>1, <4>1, Zenon
    <3>4. PollingTypeOK'
      <4>1. uses' \in [requests : 0..MaxRequests, others : 0..MaxOthers,
                       switches : 0..MaxSwitches, losses : 0..MaxLosses]
        BY <1>2, <2>9 DEF Select
      <4> QED
        BY <1>2, <3>1, <3>3, <4>1
    <3> QED
      BY <1>2, <3>1, <3>2, <3>4
  <2>10. ASSUME NEW s \in Scopes, Elsewhere(s) \/ CheckEnds(s) PROVE PollInv'
    <3>1. jobs' = [jobs EXCEPT ![s] = @ + 1]
      BY <2>10 DEF Elsewhere, CheckEnds
    <3>2. \A u \in Scopes : jobs[u] <= jobs'[u] /\ jobs'[u] \in Nat
      BY <1>2, <3>1
    <3>3. jobs' \in [Scopes -> Nat]
      BY <1>2, <3>1
    <3>4. uses' \in [requests : 0..MaxRequests, others : 0..MaxOthers,
                     switches : 0..MaxSwitches, losses : 0..MaxLosses]
      BY <1>2, <2>10 DEF Elsewhere, CheckEnds
    <3> QED
      BY <1>2, <2>10, <3>2, <3>3, <3>4 DEF Elsewhere, CheckEnds
  <2>11. CASE UNCHANGED pollVars
    BY <1>2, <2>11 DEF pollVars
  <2> QED
    BY <1>2, <2>1, <2>2, <2>3, <2>4, <2>5, <2>6, <2>7, <2>8, <2>9, <2>10, <2>11
       DEF PollingNext, PollStep, RequestStep
<1> QED
  BY <1>1, <1>2, PTL DEF PollingSpec

(* What a tab holds keeps its types (useRefreshJobs.ts). *)
THEOREM PollingTypeCorrect == PollingSpec => []PollingTypeOK
<1>1. PollInv => PollingTypeOK
  BY DEF PollInv
<1> QED
  BY <1>1, PollInductive, PTL

(* No poll replaces what is shown by something older.                      *)
THEOREM PollsStayFresh == PollingSpec => PollNeverOlder
<1>1. ASSUME PollInv, [PollingNext]_pollVars PROVE [NeverOlder]_pollVars
  <2> SUFFICES ASSUME mutations' = mutations, snapshot'.scope = snapshot.scope
               PROVE  snapshot'.stage >= snapshot.stage
    BY DEF NeverOlder
  <2> USE DEF PollInv, PollingTypeOK
  <2>1. snapshot.stage \in Nat
    BY <1>1
  <2>2. ASSUME NEW p \in Polls, TakeJobs(p) PROVE snapshot'.stage >= snapshot.stage
    BY <1>1, <2>1, <2>2 DEF TakeJobs, TakenFresh
  <2>3. ASSUME NEW p \in Polls, PollFails(p) PROVE snapshot'.stage >= snapshot.stage
    BY <1>1, <2>1, <2>3 DEF PollFails, Shown
  <2>4. ASSUME NEW r \in Requests, Answered(r) PROVE snapshot'.stage >= snapshot.stage
    BY <1>1, <2>1, <2>4 DEF Answered, Stores
  <2>5. CASE UNCHANGED snapshot
    BY <2>1, <2>5
  <2> QED
    BY <1>1, <2>2, <2>3, <2>4, <2>5
       DEF PollingNext, PollStep, RequestStep, Ask, List, RefreshMod, Accept, RequestFails,
           Select, Elsewhere, CheckEnds, pollVars
<1> QED
  BY <1>1, PollInductive, PTL DEF PollingSpec, PollNeverOlder

(* A mark is on a mod while a request of its modset is in flight, or one   *)
(* ended while another modset was selected.                                *)
Marking(r) == request[r].pc # "none" /\ request[r].scope = pending.scope
MarksAccounted == pending.on => pending.scope \in strayed \/ \E r \in Requests : Marking(r)

(* No mod stays marked as being checked for any other reason, in whatever  *)
(* order requests are made, answered and lost and modsets selected: the    *)
(* mark of a request is never left to none (useRefreshJobs.ts:60-77).      *)
THEOREM MarksAreOfRequests == PollingSpec => []MarksAccounted
<1>1. PollingInit => MarksAccounted
  BY DEF PollingInit, MarksAccounted
<1>2. ASSUME PollInv, MarksAccounted, [PollingNext]_pollVars PROVE MarksAccounted'
  <2>1. /\ NoRequest.pc = "none"
        /\ request \in [Requests -> [pc : {"none", "asked", "answered"}, scope : Scopes, stage : Nat]]
    BY <1>2, NothingInFlight DEF PollInv, PollingTypeOK
  <2>2. ASSUME NEW r \in Requests, RefreshMod(r) PROVE MarksAccounted'
    <3>1. request'[r].pc = "asked" /\ request'[r].scope = pending'.scope
      BY <2>1, <2>2 DEF RefreshMod
    <3> QED
      BY <3>1 DEF MarksAccounted, Marking
  <2>3. ASSUME NEW r \in Requests, Accept(r) PROVE MarksAccounted'
    <3>1. /\ \A q \in Requests : /\ request'[q].scope = request[q].scope
                                 /\ request[q].pc # "none" => request'[q].pc # "none"
          /\ UNCHANGED <<pending, strayed>>
      BY <2>1, <2>3 DEF Accept
    <3> QED
      BY <1>2, <3>1 DEF MarksAccounted, Marking
  <2>4. ASSUME NEW r \in Requests, Unmarks(r), UNCHANGED scope PROVE MarksAccounted'
    <3>1. \A q \in Requests \ {r} : request'[q] = request[q]
      BY <2>1, <2>4 DEF Unmarks
    <3>2. CASE request[r].scope = scope
      <4>1. pending' = [scope |-> scope, on |-> FALSE]
        BY <2>4, <3>2 DEF Unmarks
      <4> QED
        BY <4>1 DEF MarksAccounted
    <3>3. CASE request[r].scope # scope
      <4>1. pending' = pending /\ strayed' = strayed \cup {request[r].scope}
        BY <2>4, <3>3 DEF Unmarks
      <4>2. ASSUME pending.on, pending.scope \notin strayed' PROVE \E q \in Requests : Marking(q)'
        <5>1. PICK q \in Requests : Marking(q)
          BY <1>2, <4>1, <4>2 DEF MarksAccounted
        <5>2. q # r
          BY <4>1, <4>2, <5>1 DEF Marking
        <5> QED
          BY <3>1, <4>1, <5>1, <5>2 DEF Marking
      <4> QED
        BY <4>1, <4>2 DEF MarksAccounted
    <3> QED
      BY <3>2, <3>3
  <2>5. CASE UNCHANGED <<request, pending, strayed>>
    BY <1>2, <2>5 DEF MarksAccounted, Marking
  <2> QED
    BY <1>2, <2>2, <2>3, <2>4, <2>5
       DEF PollingNext, PollStep, RequestStep, Ask, List, TakeJobs, PollFails, Answered,
           RequestFails, Select, Elsewhere, CheckEnds, pollVars
<1> QED
  BY <1>1, <1>2, PollInductive, PTL DEF PollingSpec
=============================================================================
