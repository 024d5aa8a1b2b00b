------------------------- MODULE Notifications_proofs -------------------------
(***************************************************************************)
(* Proofs about Notifications: types, deduplication of alerts and the      *)
(* scope of webhooks, for any processes, webhooks, modsets and bounds.     *)
(***************************************************************************)
EXTENDS Notifications, FiniteSetTheorems, TLAPS

Away == {"posting", "posted"}
About == {"notifying"} \cup Away

(* What a frame refers to where. *)
WellFormed(f) ==
    /\ f.at \in {"fetching", "modset"} \cup About => f.mod \in Mods
    /\ f.at \in About => f.modset \in Modsets /\ f.version \in Versions
    /\ f.at \in Away => f.hook \in Hooks

Frames == \A p \in Processes : WellFormed(run[p])
TypeInv == TypeOK /\ Frames

USE NotificationsOK
-----------------------------------------------------------------------------
(* The frames of the scheduler's jobs. *)
LEMMA RestFrame ==
    /\ Rest \in Frame
    /\ Rest.at = "idle" /\ Rest.list = {}
    BY DEF Rest, Frame

LEMMA NextFrame ==
    ASSUME NEW t \in SUBSET Mods, NEW f, f = [Rest EXCEPT !.at = "next", !.todo = t]
    PROVE  f \in Frame /\ f.at = "next" /\ f.list = {} /\ WellFormed(f)
  <1>1. f \in Frame /\ f.at = "next" /\ f.list = {}
    BY RestFrame DEF Frame
  <1>. QED  BY <1>1 DEF WellFormed, About, Away

LEMMA RunFrame ==
    ASSUME TypeInv, NEW p \in Processes
    PROVE  run[p] \in Frame /\ WellFormed(run[p])
    BY DEF TypeInv, TypeOK, Frames

LEMMA NextModFrame ==
    ASSUME TypeInv, NEW p \in Processes, NextMod(p)
    PROVE  \E f \in Frame : /\ WellFormed(f) /\ Put(p, f)
                            /\ f.at = "next" /\ f.list = {}
  <1> DEFINE f == [Rest EXCEPT !.at = "next", !.todo = run[p].todo]
  <1>1. run[p].todo \in SUBSET Mods
    BY RunFrame DEF Frame
  <1>2. f \in Frame /\ WellFormed(f) /\ f.at = "next" /\ f.list = {}
    BY <1>1, NextFrame
  <1>. QED  BY <1>2 DEF NextMod

LEMMA NextWebhookFrame ==
    ASSUME TypeInv, NEW p \in Processes, NEW b \in BOOLEAN, NextWebhook(p, b),
           run[p].at \in Away
    PROVE  \E f \in Frame : /\ WellFormed(f) /\ Put(p, f)
                            /\ f.at = "notifying" /\ f.list = run[p].list
  <1> DEFINE f == [run[p] EXCEPT !.at = "notifying", !.hook = Nothing, !.fresh = b]
  <1>0. run[p] \in Frame /\ run[p].mod \in Mods /\ run[p].modset \in Modsets
        /\ run[p].version \in Versions
    BY RunFrame DEF WellFormed, About, Away
  <1>1. /\ f \in Frame /\ f.at = "notifying" /\ f.list = run[p].list
        /\ f.mod = run[p].mod /\ f.modset = run[p].modset /\ f.version = run[p].version
    BY <1>0 DEF Frame
  <1>2. WellFormed(f)
    <2> HIDE DEF f
    <2>. QED  BY <1>0, <1>1 DEF WellFormed, About, Away
  <1>. QED  BY <1>1, <1>2 DEF NextWebhook

LEMMA ConsiderFrame ==
    ASSUME TypeInv, NEW p \in Processes, NEW s \in Modsets, Consider(p, s)
    PROVE  \E f \in Frame : /\ WellFormed(f) /\ Put(p, f) /\ f.at \notin Away
                            /\ f.list \subseteq run[p].list \cup Listed
  <1> DEFINE rest == run[p].where \ {s}
             m == run[p].mod
             t == {w \in Listed : s \in hook[w].scope}
             g == [run[p] EXCEPT !.where = rest]
             i(v) == [run[p] EXCEPT !.where = rest, !.version = v]
             h(v) == [run[p] EXCEPT
                        !.at = "notifying", !.where = rest, !.modset = s,
                        !.version = v, !.list = Listed, !.fresh = TRUE,
                        !.targets = t]
             Fits(f) == /\ f \in Frame /\ WellFormed(f) /\ f.at \notin Away
                        /\ f.list \subseteq run[p].list \cup Listed
  <1>0. run[p] \in Frame /\ WellFormed(run[p])
    BY RunFrame
  <1>1. /\ At(p, "modset")
        /\ \/ Put(p, g) \/ NextMod(p)
           \/ \E v \in {run[p].version, latest[m]} \ {0} : Put(p, i(v)) \/ Put(p, h(v))
    BY DEF Consider
  <1>2. m \in Mods /\ latest[m] \in Versions /\ Listed \subseteq Hooks
    BY <1>0, <1>1 DEF WellFormed, At, TypeInv, TypeOK, Listed
  <1>3. t \in SUBSET Hooks /\ Listed \in SUBSET Hooks /\ rest \in SUBSET Modsets
    BY <1>0, <1>2 DEF Frame
  <1>4. \A v \in {run[p].version, latest[m]} \ {0} : v \in Versions /\ v \in 0..MaxVersion
    BY <1>0, <1>2 DEF Frame, Versions
  <1>5. Fits(g)
    <2> HIDE DEF rest
    <2>. QED  BY <1>0, <1>1, <1>3 DEF Frame, WellFormed, About, Away, At
  <1>6. ASSUME NEW v \in {run[p].version, latest[m]} \ {0} PROVE Fits(i(v))
    <2> HIDE DEF rest
    <2>. QED  BY <1>0, <1>1, <1>3, <1>4 DEF Frame, WellFormed, About, Away, At
  <1>7. ASSUME NEW v \in {run[p].version, latest[m]} \ {0} PROVE Fits(h(v))
    <2>1. /\ h(v) \in Frame /\ h(v).at = "notifying" /\ h(v).mod = m /\ h(v).modset = s
          /\ h(v).version = v /\ h(v).list = Listed
      <3> HIDE DEF rest, t
      <3>. QED  BY <1>0, <1>3, <1>4 DEF Frame
    <2> HIDE DEF h
    <2>. QED  BY <2>1, <1>2, <1>4 DEF WellFormed, About, Away
  <1>8. CASE NextMod(p)
    <2>1. PICK f \in Frame : WellFormed(f) /\ Put(p, f) /\ f.at = "next" /\ f.list = {}
      BY <1>8, NextModFrame
    <2>. QED  BY <2>1 DEF Away
  <1> HIDE DEF g, h, i
  <1>. QED  BY <1>1, <1>5, <1>6, <1>7, <1>8

LEMMA LastWebhookFrame ==
    ASSUME TypeInv, NEW p \in Processes, LastWebhook(p)
    PROVE  \E f \in Frame : /\ WellFormed(f) /\ Put(p, f) /\ f.at \notin Away /\ f.list = {}
  <1> DEFINE v == IF run[p].fresh THEN run[p].version ELSE 0
             f == [Rest EXCEPT !.at = "modset", !.todo = run[p].todo,
                     !.mod = run[p].mod, !.where = run[p].where, !.version = v]
  <1>0. run[p] \in Frame /\ WellFormed(run[p])
    BY RunFrame
  <1>1. run[p].mod \in Mods /\ v \in 0..MaxVersion
    BY <1>0 DEF WellFormed, About, LastWebhook, At, Frame
  <1>2. f \in Frame /\ f.at = "modset" /\ f.mod = run[p].mod /\ f.list = {}
    <2> HIDE DEF v
    <2>. QED  BY <1>0, <1>1, RestFrame DEF Frame
  <1>. QED  BY <1>1, <1>2 DEF LastWebhook, NextModset, WellFormed, About, Away

(* The frame of a job after one of its steps. *)
LEMMA JobFrame ==
    ASSUME TypeInv, NEW p \in Processes, Job(p)
    PROVE  \E f \in Frame : WellFormed(f) /\ Put(p, f)
  <1>0. run[p] \in Frame /\ WellFormed(run[p])
    BY RunFrame
  <1>1. CASE Start(p)
    <2> DEFINE t == {m \in Mods : \E s \in modsets : Tracked(s, m)}
               f == [Rest EXCEPT !.at = "next", !.todo = t]
    <2>1. Put(p, f)
      BY <1>1 DEF Start
    <2>2. t \in SUBSET Mods
      OBVIOUS
    <2>3. f \in Frame /\ WellFormed(f)
      BY <2>2, NextFrame
    <2>. QED  BY <2>1, <2>3
  <1>2. CASE Finish(p) \/ DbError(p) \/ Restart(p)
    BY <1>2, RestFrame DEF Finish, DbError, Restart, WellFormed, About, Away
  <1>11. CASE Crash(p)
    <2> DEFINE f == [Rest EXCEPT !.at = "down"]
    <2>1. f \in Frame /\ f.at = "down"
      BY RestFrame DEF Frame
    <2>. QED  BY <2>1, <1>11 DEF Crash, WellFormed, About, Away
  <1>3. CASE FetchFails(p) \/ LastModset(p)
    BY <1>3, NextModFrame DEF FetchFails, LastModset
  <1>4. ASSUME NEW m \in Mods, TakeMod(p, m) PROVE \E f \in Frame : WellFormed(f) /\ Put(p, f)
    <2> DEFINE f == [Rest EXCEPT !.at = "fetching", !.mod = m, !.todo = run[p].todo \ {m}]
    <2>1. f \in Frame /\ f.at = "fetching" /\ f.mod = m
      BY <1>0, RestFrame DEF Frame
    <2>. QED  BY <2>1, <1>4 DEF TakeMod, WellFormed, About, Away
  <1>5. CASE Fetch(p)
    <2> DEFINE x == {s \in modsets : Tracked(s, run[p].mod)}
               f == [run[p] EXCEPT !.at = "modset", !.where = x]
    <2>1. x \subseteq Modsets
      BY DEF TypeInv, TypeOK
    <2>2. f \in Frame /\ WellFormed(f)
      BY <1>0, <1>5, <2>1 DEF Frame, WellFormed, About, Away, Fetch, At
    <2>. QED  BY <2>2, <1>5 DEF Fetch
  <1>6. ASSUME NEW s \in Modsets, Consider(p, s) PROVE \E f \in Frame : WellFormed(f) /\ Put(p, f)
    BY <1>6, ConsiderFrame
  <1>7. CASE LastWebhook(p)
    BY <1>7, LastWebhookFrame
  <1>8. ASSUME NEW w \in Hooks, Target(p, w) PROVE \E f \in Frame : WellFormed(f) /\ Put(p, f)
    <2> DEFINE g == [run[p] EXCEPT !.at = "posting", !.hook = w, !.list = run[p].list \ {w}]
               h == [run[p] EXCEPT !.list = run[p].list \ {w}]
    <2>1. At(p, "notifying") /\ (NextMod(p) \/ Put(p, g) \/ Put(p, h))
      BY <1>8 DEF Target
    <2>2. g \in Frame /\ WellFormed(g)
      BY <1>0, <2>1 DEF Frame, WellFormed, About, Away, At
    <2>3. h \in Frame /\ WellFormed(h)
      BY <1>0 DEF Frame, WellFormed, About, Away
    <2>. QED  BY <2>1, <2>2, <2>3, NextModFrame
  <1>9. CASE Deliver(p)
    <2> DEFINE f == [run[p] EXCEPT !.at = "posted"]
    <2>1. f \in Frame /\ WellFormed(f)
      BY <1>0, <1>9 DEF Frame, WellFormed, About, Away, Deliver, At
    <2>. QED  BY <2>1, <1>9 DEF Deliver
  <1>10. CASE Refused(p) \/ TimedOut(p) \/ Record(p) \/ RecordFails(p) \/ RecordLost(p)
    <2>1. run[p].at \in Away /\ run[p].fresh \in BOOLEAN
      BY <1>0, <1>10 DEF Refused, TimedOut, Record, RecordFails, RecordLost, At, Away, Frame
    <2>2. NextMod(p) \/ \E b \in BOOLEAN : NextWebhook(p, b)
      BY <1>10, <2>1 DEF Refused, TimedOut, Record, RecordFails, RecordLost
    <2>. QED  BY <2>1, <2>2, NextModFrame, NextWebhookFrame
  <1>. QED  BY <1>1, <1>2, <1>3, <1>4, <1>5, <1>6, <1>7, <1>8, <1>9, <1>10, <1>11 DEF Job, Advance

LEMMA PutFrames ==
    ASSUME TypeInv, NEW p \in Processes, NEW f \in Frame, WellFormed(f), Put(p, f)
    PROVE  run' \in [Processes -> Frame] /\ Frames'
    BY DEF TypeInv, TypeOK, Frames, Put

LEMMA Alerting ==
    ASSUME TypeInv, NEW p \in Processes, NEW w \in Hooks, run[p].at \in About
    PROVE  Alert(p, w) \in Keys
    BY RunFrame DEF WellFormed, Alert, Keys

LEMMA CurrentKey ==
    ASSUME TypeInv, NEW p \in Processes, Sending(p)
    PROVE  Current(p) \in Keys
  <1>1. run[p].hook \in Hooks /\ run[p].at \in About
    BY RunFrame DEF WellFormed, Sending, Away, About
  <1>. QED  BY <1>1, Alerting DEF Current
-----------------------------------------------------------------------------
(* Types. *)
LEMMA UpsertType ==
    ASSUME TypeOK, NEW m \in Mods, NEW v \in Versions, Upsert(m, v)
    PROVE  /\ UNCHANGED modsets
           /\ track' \in [Modsets \X Mods -> Tracking]
           /\ latest' \in [Mods -> Versions]
  <1>1. UNCHANGED modsets /\ latest' \in [Mods -> Versions]
    BY DEF TypeOK, Upsert
  <1>2. PICK turned \in SUBSET modsets :
           track' = [t \in Modsets \X Mods |->
                       IF t[1] \in turned /\ t[2] = m
                       THEN IF track[t] = "current" THEN "outdated" ELSE "current"
                       ELSE track[t]]
    BY DEF Upsert
  <1>3. track' \in [Modsets \X Mods -> Tracking]
    BY <1>2 DEF TypeOK, Tracking
  <1>. QED  BY <1>1, <1>3

LEMMA FaultType ==
    ASSUME TypeOK, Fault
    PROVE  faults' \in 0..MaxFaults
    BY DEF TypeOK, Fault

LEMMA EditedType ==
    ASSUME TypeOK, Edited
    PROVE  edits' \in 0..MaxEdits
    BY DEF TypeOK, Edited

(* What a job leaves alone, and what it adds to the alerts. *)
LEMMA JobTables ==
    ASSUME TypeInv, NEW p \in Processes, Job(p)
    PROVE  /\ UNCHANGED <<hook, edit, chosen, mixed, edits, modsets>>
           /\ track' \in [Modsets \X Mods -> Tracking]
           /\ latest' \in [Mods -> Versions]
           /\ faults' \in 0..MaxFaults
           /\ deliveries' \subseteq Keys
           /\ received' \subseteq Keys
           /\ repeated' \subseteq Keys
           /\ excused' \subseteq Keys
  <1>0. TypeOK
    BY DEF TypeInv
  <1>1. CASE Start(p) \/ Finish(p) \/ LastModset(p) \/ LastWebhook(p) \/ FetchFails(p)
             \/ Refused(p) \/ RecordFails(p) \/ Restart(p)
             \/ (\E m \in Mods : TakeMod(p, m)) \/ (\E s \in Modsets : Consider(p, s))
    BY <1>0, <1>1 DEF Start, Finish, LastModset, LastWebhook, FetchFails, Refused,
         RecordFails, Restart, TakeMod, Consider, TypeOK, hooks, tracking, alerts
  <1>2. CASE Fetch(p)
    <2>1. run[p].mod \in Mods
      BY <1>2, RunFrame DEF WellFormed, Fetch, At
    <2>2. PICK v \in Versions : Upsert(run[p].mod, v)
      BY <1>2 DEF Fetch
    <2>. QED  BY <1>0, <1>2, <2>1, <2>2, UpsertType DEF Fetch, hooks, alerts, TypeOK
  <1>3. ASSUME NEW w \in Hooks, Target(p, w) PROVE excused' \subseteq Keys
    <2>1. Alert(p, w) \in Keys
      BY <1>3, Alerting DEF Target, At, About
    <2>. QED  BY <1>0, <1>3, <2>1 DEF Target, TypeOK
  <1>4. CASE \E w \in Hooks : Target(p, w)
    <2>1. PICK w \in Hooks : Target(p, w)
      BY <1>4
    <2>2. UNCHANGED <<hooks, tracking, deliveries, received, repeated, edits, faults>>
      BY <2>1 DEF Target
    <2>3. excused' \subseteq Keys
      BY <1>3, <2>1
    <2>. QED  BY <1>0, <2>2, <2>3 DEF TypeOK, hooks, tracking
  <1>5. CASE Deliver(p) \/ TimedOut(p) \/ Record(p) \/ RecordLost(p)
    <2>1. Current(p) \in Keys
      BY <1>5, CurrentKey DEF Deliver, TimedOut, Record, RecordLost, At, Sending
    <2>. QED  BY <1>0, <1>5, <2>1, FaultType DEF Deliver, TimedOut, Record, RecordLost,
           TypeOK, hooks, tracking, alerts
  <1>6. CASE DbError(p)
    BY <1>0, <1>6, FaultType DEF DbError, TypeOK, hooks, tracking, alerts
  <1>7. CASE Crash(p)
    <2>1. At(p, "posted") => Current(p) \in Keys
      BY CurrentKey DEF At, Sending
    <2>. QED  BY <1>0, <1>7, <2>1, FaultType DEF Crash, TypeOK, hooks, tracking
  <1>. QED  BY <1>1, <1>2, <1>4, <1>5, <1>6, <1>7 DEF Job, Advance

LEMMA EditType ==
    ASSUME TypeOK, NEW e \in Editors, Edit(e)
    PROVE  /\ hook' \in [Hooks -> Webhook]
           /\ edit' \in [Editors -> Editing]
           /\ chosen' \in [Hooks -> SUBSET Modsets]
           /\ mixed' \subseteq Hooks
           /\ edits' \in 0..MaxEdits
           /\ UNCHANGED <<tracking, deliveries, run, alerts, faults>>
  <1>0. NoEdit \in Editing
    BY DEF NoEdit, NoHook, Editing, Webhook, AllChanges
  <1>1. ASSUME NEW w \in Hooks, NEW c \in Changes, LoadWebhook(e, w, c)
        PROVE  edit' \in [Editors -> Editing]
    <2>1. [hook |-> w, seen |-> hook[w], crossed |-> FALSE, change |-> c] \in Editing
      BY DEF Editing, TypeOK
    <2>. QED  BY <1>1, <2>1 DEF LoadWebhook, TypeOK
  <1>2. CASE \E w \in Hooks, c \in Changes : LoadWebhook(e, w, c)
    BY <1>1, <1>2, EditedType DEF LoadWebhook, TypeOK
  <1>3. CASE FailWebhook(e)
    BY <1>0, <1>3 DEF FailWebhook, TypeOK
  <1>4. CASE CommitWebhook(e)
    <2> DEFINE q == edit[e]
               w == q.hook
    <2>1. q \in Editing /\ w \in Hooks
      BY <1>4 DEF CommitWebhook, TypeOK, Editing
    <2>2. Linked(q) \in SUBSET Modsets
      BY <2>1 DEF Linked, Editing, AllChanges
    <2>3. hook' \in [Hooks -> Webhook]
      <3> DEFINE a == IF q.change.active \in {Omitted, q.seen.active}
                      THEN hook[w].active ELSE q.change.active
                 x == (hook[w].scope \ Unlinked(q)) \cup Linked(q)
                 f == [hook[w] EXCEPT !.active = a, !.scope = x]
      <3>1. a \in {"on", "off"}
        BY <2>1 DEF TypeOK, Webhook, Editing, AllChanges, Omitted
      <3>2. x \in SUBSET Modsets
        BY <2>1, <2>2 DEF TypeOK, Webhook
      <3>3. f \in Webhook
        <4>1. hook[w] \in Webhook
          BY <2>1 DEF TypeOK
        <4> HIDE DEF a, x, w
        <4>. QED  BY <4>1, <3>1, <3>2 DEF Webhook
      <3>4. hook' = [hook EXCEPT ![w] = f]
        BY <1>4 DEF CommitWebhook
      <3> HIDE DEF f
      <3>. QED  BY <2>1, <3>3, <3>4 DEF TypeOK
    <2>4. Crossing(e, w) \in [Editors -> Editing]
      BY <1>0, <2>1 DEF Crossing, TypeOK, Editing
    <2>5. q.change.selection \in SUBSET Modsets
      BY <2>1 DEF Editing, AllChanges
    <2>6. edit' = Crossing(e, w) \/ edit' = [edit EXCEPT ![e] = NoEdit]
      BY <1>4 DEF CommitWebhook
    <2>7. edit' \in [Editors -> Editing]
      BY <1>0, <2>4, <2>6 DEF TypeOK
    <2>8. chosen' \in [Hooks -> SUBSET Modsets] /\ mixed' \subseteq Hooks
      BY <1>4, <2>1, <2>5 DEF CommitWebhook, TypeOK
    <2>. QED  BY <1>4, <2>3, <2>7, <2>8 DEF CommitWebhook, TypeOK
  <1>. QED  BY <1>2, <1>3, <1>4 DEF Edit

LEMMA OthersType ==
    ASSUME TypeOK, Others
    PROVE  TypeOK' /\ UNCHANGED run
  <1>1. ASSUME NEW w \in Hooks, NEW a \in {"on", "off"}, NEW x \in SUBSET Modsets,
               CreateWebhook(w, a, x)
        PROVE  TypeOK' /\ UNCHANGED run
    <2>1. [state |-> "live", active |-> a, scope |-> x] \in Webhook
      BY DEF Webhook
    <2>2. hook' \in [Hooks -> Webhook] /\ chosen' \in [Hooks -> SUBSET Modsets]
      BY <1>1, <2>1 DEF CreateWebhook, TypeOK
    <2>3. edits' \in 0..MaxEdits
      BY <1>1, EditedType DEF CreateWebhook
    <2>. QED  BY <1>1, <2>2, <2>3 DEF CreateWebhook, TypeOK, tracking, alerts
  <1>2. ASSUME NEW w \in Hooks, DeleteWebhook(w)
        PROVE  TypeOK' /\ UNCHANGED run
    <2>1. [NoHook EXCEPT !.state = "deleted"] \in Webhook
      BY DEF Webhook, NoHook
    <2>. QED  BY <1>2, <2>1, EditedType DEF DeleteWebhook, TypeOK, tracking, alerts
  <1>3. ASSUME NEW s \in Modsets, DeleteModset(s)
        PROVE  TypeOK' /\ UNCHANGED run
    <2>3. ASSUME NEW w \in Hooks PROVE [hook[w] EXCEPT !.scope = hook[w].scope \ {s}] \in Webhook
      <3>1. hook[w] \in Webhook
        BY DEF TypeOK
      <3>. QED  BY <3>1 DEF Webhook
    <2>1. hook' \in [Hooks -> Webhook]
      BY <1>3, <2>3 DEF DeleteModset
    <2>2. track' \in [Modsets \X Mods -> Tracking]
      BY <1>3 DEF DeleteModset, TypeOK, Tracking
    <2>. QED  BY <1>3, <2>1, <2>2, EditedType DEF DeleteModset, TypeOK, alerts
  <1>4. ASSUME NEW s \in Modsets, NEW m \in Mods, NEW t \in Tracking, Track(s, m, t)
        PROVE  TypeOK' /\ UNCHANGED run
    BY <1>4, EditedType DEF Track, TypeOK, hooks, alerts
  <1>5. ASSUME NEW m \in Mods, RefreshElsewhere(m)
        PROVE  TypeOK' /\ UNCHANGED run
    BY <1>5, UpsertType, EditedType DEF RefreshElsewhere, TypeOK, hooks, alerts
  <1>. QED  BY <1>1, <1>2, <1>3, <1>4, <1>5 DEF Others

LEMMA InitTypes == Init => TypeInv
  <1> SUFFICES ASSUME Init PROVE TypeInv
    OBVIOUS
  <1>1. /\ NoHook \in Webhook
        /\ [state |-> "live", active |-> "on", scope |-> Modsets] \in Webhook
    BY DEF NoHook, Webhook
  <1>2. hook \in [Hooks -> Webhook]
    BY <1>1 DEF Init
  <1>3. chosen \in [Hooks -> SUBSET Modsets]
    BY <1>2 DEF Init, Webhook
  <1>4. edit \in [Editors -> Editing]
    BY DEF Init, NoEdit, NoHook, Editing, Webhook, AllChanges
  <1>5. run \in [Processes -> Frame] /\ Frames
    BY RestFrame DEF Init, Frames, WellFormed, About, Away
  <1>6. track \in [Modsets \X Mods -> Tracking] /\ latest \in [Mods -> Versions]
    BY DEF Init, Tracking, Versions
  <1>. QED  BY <1>2, <1>3, <1>4, <1>5, <1>6 DEF Init, TypeInv, TypeOK

LEMMA NextTypes == TypeInv /\ [Next]_vars => TypeInv'
  <1> SUFFICES ASSUME TypeInv, [Next]_vars PROVE TypeInv'
    OBVIOUS
  <1>1. ASSUME NEW p \in Processes, Job(p) PROVE TypeInv'
    <2>1. run' \in [Processes -> Frame] /\ Frames'
      BY <1>1, JobFrame, PutFrames
    <2>. QED  BY <1>1, <2>1, JobTables DEF TypeInv, TypeOK
  <1>2. ASSUME NEW e \in Editors, Edit(e) PROVE TypeInv'
    BY <1>2, EditType DEF TypeInv, TypeOK, Frames, tracking, alerts
  <1>3. CASE Others
    BY <1>3, OthersType DEF TypeInv, Frames
  <1>4. CASE UNCHANGED vars
    BY <1>4 DEF TypeInv, TypeOK, Frames, vars
  <1>. QED  BY <1>1, <1>2, <1>3, <1>4 DEF Next

(* Every variable keeps its type, and a run that posts knows to whom and   *)
(* about what.                                                             *)
THEOREM TypeCorrect == Spec => []TypeOK
  <1>1. Spec => []TypeInv
    BY InitTypes, NextTypes, PTL DEF Spec
  <1>2. TypeInv => TypeOK
    BY DEF TypeInv
  <1>. QED  BY <1>1, <1>2, PTL
-----------------------------------------------------------------------------
(* Deduplication. *)

(* A repetition of k breaks no promise. *)
Spent(k) == \/ k \in excused
            \/ hook[k[1]].state = "deleted"
            \/ k[2] \notin modsets

(* A received alert is recorded, or on the way to be, or spent. *)
Accounted == \A k \in received : \/ k \in deliveries
                                 \/ Spent(k)
                                 \/ \E p \in Processes : At(p, "posted") /\ Current(p) = k

(* What a job is about to post was not received, and what it has posted was. *)
Unsent == \A p \in Processes : /\ At(p, "posting") /\ Current(p) \in received
                                  => Spent(Current(p))
                               /\ At(p, "posted") => Current(p) \in received

(* Two jobs that send the same alert are excused. *)
Apart == \A p, q \in Processes :
           p # q /\ Sending(p) /\ Sending(q) /\ Current(p) = Current(q)
             => Current(p) \in excused

(* The webhooks a job has listed have existed. *)
Known == \A p \in Processes :
           /\ \A w \in run[p].list : hook[w].state # "absent"
           /\ Sending(p) => hook[run[p].hook].state # "absent"

OnceInv == /\ TypeInv
           /\ Accounted
           /\ Unsent
           /\ Apart
           /\ Known
           /\ \A k \in repeated : Spent(k)
           /\ deliveries \subseteq received

LEMMA SendingAway ==
    ASSUME NEW p \in Processes
    PROVE  Sending(p) <=> run[p].at \in Away
    BY DEF Sending, Away

(* A job that is not sending after its step: what it was sending is        *)
(* recorded or spent.                                                      *)
LEMMA Leaves ==
    ASSUME OnceInv, TypeInv', NEW p \in Processes, NEW f \in Frame, Put(p, f),
           f.at \notin Away, \A w \in f.list : hook[w].state # "absent",
           UNCHANGED <<hook, modsets, received, repeated>>,
           excused \subseteq excused', deliveries \subseteq deliveries',
           deliveries' \subseteq received,
           At(p, "posted") => Current(p) \in deliveries' \/ Current(p) \in excused'
                                \/ Spent(Current(p))
    PROVE  OnceInv'
  <1>1. run[p]' = f /\ \A q \in Processes \ {p} : run[q]' = run[q]
    BY DEF Put, OnceInv, TypeInv, TypeOK
  <1>2. ~Sending(p)'
    BY <1>1 DEF Sending, Away
  <1>3. \A q \in Processes \ {p} : /\ Sending(q)' = Sending(q) /\ Current(q)' = Current(q)
                                   /\ At(q, "posted")' = At(q, "posted")
                                   /\ At(q, "posting")' = At(q, "posting")
    BY <1>1 DEF Sending, Current, Alert, At
  <1>4. \A k : Spent(k) => Spent(k)'
    BY DEF Spent
  <1>5. Accounted'
    <2> SUFFICES ASSUME NEW k \in received
                 PROVE  \/ k \in deliveries' \/ Spent(k)'
                        \/ \E q \in Processes : At(q, "posted")' /\ Current(q)' = k
      BY DEF Accounted
    <2>1. CASE k \in deliveries \/ Spent(k)
      BY <2>1, <1>4
    <2>2. ASSUME NEW q \in Processes, At(q, "posted"), Current(q) = k
          PROVE  \/ k \in deliveries' \/ Spent(k)'
                 \/ \E r \in Processes : At(r, "posted")' /\ Current(r)' = k
      <3>1. CASE q = p
        BY <3>1, <2>2, <1>4 DEF Spent
      <3>2. CASE q # p
        BY <3>2, <2>2, <1>3
      <3>. QED  BY <3>1, <3>2
    <2>. QED  BY <2>1, <2>2 DEF OnceInv, Accounted
  <1>6. ~At(p, "posting")' /\ ~At(p, "posted")'
    BY <1>2 DEF Sending, At
  <1>7. Unsent'
    BY <1>3, <1>4, <1>6 DEF OnceInv, Unsent
  <1>8. Apart'
    BY <1>2, <1>3 DEF OnceInv, Apart
  <1>9. Known'
    BY <1>1, <1>2, <1>3 DEF OnceInv, Known
  <1>. QED  BY <1>4, <1>5, <1>7, <1>8, <1>9 DEF OnceInv

(* The post to a webhook begins. *)
LEMMA Posts ==
    ASSUME OnceInv, TypeInv', NEW p \in Processes, NEW w \in Hooks, Target(p, w),
           run[p].fresh \/ Live(w), Targets(p, w), ~DeliveryExists(Alert(p, w))
    PROVE  OnceInv'
  <1>k. PICK k : k = Alert(p, w)
    OBVIOUS
  <1> DEFINE f == [run[p] EXCEPT !.at = "posting", !.hook = w, !.list = run[p].list \ {w}]
  <1>0. run[p] \in Frame
    BY RunFrame DEF OnceInv
  <1>1. /\ At(p, "notifying") /\ w \in run[p].list /\ Put(p, f)
        /\ UNCHANGED <<hook, modsets, deliveries, received, repeated>>
        /\ excused' = IF \E q \in Processes \ {p} : Sending(q) /\ Current(q) = k
                      THEN excused \cup {k} ELSE excused
    BY <1>k DEF Target, hooks, tracking
  <1>2. run[p]' = f /\ \A q \in Processes \ {p} : run[q]' = run[q]
    BY <1>1 DEF Put, OnceInv, TypeInv, TypeOK
  <1>3. /\ f.at = "posting" /\ f.hook = w /\ f.list = run[p].list \ {w}
        /\ f.modset = run[p].modset /\ f.mod = run[p].mod /\ f.version = run[p].version
    BY <1>0 DEF Frame
  <1>4. Sending(p)' /\ Current(p)' = k /\ ~Sending(p)
        /\ At(p, "posting")' /\ ~At(p, "posted")' /\ ~At(p, "posted")
    BY <1>k, <1>1, <1>2, <1>3 DEF Sending, Current, Alert, At
  <1>5. \A q \in Processes \ {p} : /\ Sending(q)' = Sending(q) /\ Current(q)' = Current(q)
                                   /\ At(q, "posted")' = At(q, "posted")
                                   /\ At(q, "posting")' = At(q, "posting")
    BY <1>2 DEF Sending, Current, Alert, At
  <1>6. excused \subseteq excused'
    BY <1>1
  <1>7. \A x : Spent(x) => Spent(x)'
    BY <1>1, <1>6 DEF Spent
  <1>8. Accounted'
    BY <1>1, <1>4, <1>5, <1>7 DEF OnceInv, Accounted
  <1>9. k \in received => Spent(k)'
    <2> SUFFICES ASSUME k \in received PROVE Spent(k)'
      OBVIOUS
    <2>1. k \notin deliveries
      BY <1>k DEF DeliveryExists
    <2>2. ASSUME NEW q \in Processes, At(q, "posted"), Current(q) = k
          PROVE  Spent(k)'
      <3>1. q # p /\ Sending(q)
        BY <1>4, <2>2 DEF At, Sending
      <3>. QED  BY <3>1, <2>2, <1>1 DEF Spent
    <2>. QED  BY <2>1, <2>2, <1>7 DEF OnceInv, Accounted
  <1>10. Unsent'
    BY <1>1, <1>4, <1>5, <1>7, <1>9 DEF OnceInv, Unsent
  <1>11. Apart'
    <2> SUFFICES ASSUME NEW q \in Processes, NEW r \in Processes, q # r,
                        Sending(q)', Sending(r)', Current(q)' = Current(r)'
                 PROVE  Current(q)' \in excused'
      BY DEF Apart
    <2>1. CASE q = p \/ r = p
      BY <2>1, <1>1, <1>4, <1>5
    <2>2. CASE q # p /\ r # p
      BY <2>2, <1>5, <1>6 DEF OnceInv, Apart
    <2>. QED  BY <2>1, <2>2
  <1>12. Known'
    <2>1. ASSUME NEW q \in Processes, q # p
          PROVE  /\ \A x \in run[q]'.list : hook'[x].state # "absent"
                 /\ Sending(q)' => hook'[run[q]'.hook].state # "absent"
      BY <2>1, <1>1, <1>2, <1>5 DEF OnceInv, Known
    <2>2. /\ \A x \in run[p]'.list : hook'[x].state # "absent"
          /\ hook'[run[p]'.hook].state # "absent"
      BY <1>1, <1>2, <1>3 DEF OnceInv, Known
    <2>. QED  BY <2>1, <2>2 DEF Known
  <1>. QED  BY <1>1, <1>7, <1>8, <1>10, <1>11, <1>12 DEF OnceInv

(* Discord takes the alert. *)
LEMMA Delivers ==
    ASSUME OnceInv, TypeInv', NEW p \in Processes, Deliver(p)
    PROVE  OnceInv'
  <1>k. PICK k : k = Current(p)
    OBVIOUS
  <1> DEFINE f == [run[p] EXCEPT !.at = "posted"]
  <1>0. run[p] \in Frame
    BY RunFrame DEF OnceInv
  <1>1. /\ At(p, "posting") /\ Put(p, f)
        /\ UNCHANGED <<hook, modsets, deliveries, excused>>
        /\ received' = received \cup {k}
        /\ repeated' = repeated \cup ({k} \cap received)
    BY <1>k DEF Deliver, hooks, tracking
  <1>2. run[p]' = f /\ \A q \in Processes \ {p} : run[q]' = run[q]
    BY <1>1 DEF Put, OnceInv, TypeInv, TypeOK
  <1>3. /\ f.at = "posted" /\ f.hook = run[p].hook /\ f.list = run[p].list
        /\ f.modset = run[p].modset /\ f.mod = run[p].mod /\ f.version = run[p].version
    BY <1>0 DEF Frame
  <1>4. /\ Sending(p) /\ Sending(p)' /\ Current(p)' = k
        /\ At(p, "posted")' /\ ~At(p, "posting")'
    BY <1>k, <1>1, <1>2, <1>3 DEF Sending, Current, Alert, At
  <1>5. \A q \in Processes \ {p} : /\ Sending(q)' = Sending(q) /\ Current(q)' = Current(q)
                                   /\ At(q, "posted")' = At(q, "posted")
                                   /\ At(q, "posting")' = At(q, "posting")
    BY <1>2 DEF Sending, Current, Alert, At
  <1>6. \A x : Spent(x) = Spent(x)'
    BY <1>1 DEF Spent
  <1>7. Accounted'
    <2> SUFFICES ASSUME NEW x \in received'
                 PROVE  \/ x \in deliveries' \/ Spent(x)'
                        \/ \E q \in Processes : At(q, "posted")' /\ Current(q)' = x
      BY DEF Accounted
    <2>1. CASE x = k
      BY <2>1, <1>4
    <2>2. CASE x # k
      <3>1. x \in received
        BY <2>2, <1>1
      <3>2. ~At(p, "posted")
        BY <1>1 DEF At
      <3>. QED  BY <3>1, <3>2, <1>1, <1>5, <1>6 DEF OnceInv, Accounted
    <2>. QED  BY <2>1, <2>2
  <1>8. Unsent'
    <2>1. ASSUME NEW q \in Processes, At(q, "posting")', Current(q)' \in received'
          PROVE  Spent(Current(q))'
      <3>1. q # p /\ At(q, "posting") /\ Current(q)' = Current(q) /\ Sending(q)
        BY <2>1, <1>4, <1>5 DEF At, Sending
      <3>2. CASE Current(q) = k
        <4>1. k \in excused'
          BY <1>k, <3>1, <3>2, <1>1, <1>4 DEF OnceInv, Apart
        <4>2. Spent(k)'
          BY <4>1 DEF Spent
        <4>. QED  BY <4>2, <3>1, <3>2 DEF Spent
      <3>3. CASE Current(q) # k
        <4>1. Spent(Current(q))
          BY <3>1, <3>3, <2>1, <1>1 DEF OnceInv, Unsent
        <4>. QED  BY <4>1, <3>1, <1>1 DEF Spent
      <3>. QED  BY <3>2, <3>3
    <2>2. ASSUME NEW q \in Processes, At(q, "posted")'
          PROVE  Current(q)' \in received'
      <3>1. CASE q = p
        BY <3>1, <1>1, <1>4
      <3>2. CASE q # p
        BY <3>2, <2>2, <1>1, <1>5 DEF OnceInv, Unsent
      <3>. QED  BY <3>1, <3>2
    <2>. QED  BY <2>1, <2>2 DEF Unsent
  <1>9. Apart'
    BY <1>k, <1>1, <1>4, <1>5 DEF OnceInv, Apart
  <1>10. Known'
    <2>1. ASSUME NEW q \in Processes, q # p
          PROVE  /\ \A x \in run[q]'.list : hook'[x].state # "absent"
                 /\ Sending(q)' => hook'[run[q]'.hook].state # "absent"
      BY <2>1, <1>1, <1>2, <1>5 DEF OnceInv, Known
    <2>2. /\ \A x \in run[p]'.list : hook'[x].state # "absent"
          /\ hook'[run[p]'.hook].state # "absent"
      BY <1>1, <1>2, <1>3, <1>4 DEF OnceInv, Known
    <2>. QED  BY <2>1, <2>2 DEF Known
  <1>11. \A x \in repeated' : Spent(x)'
    <2>1. k \in received => Spent(k)
      BY <1>k, <1>1 DEF OnceInv, Unsent
    <2>. QED  BY <2>1, <1>1, <1>6 DEF OnceInv
  <1>. QED  BY <1>1, <1>7, <1>8, <1>9, <1>10, <1>11 DEF OnceInv

(* Any other step of a job leaves nothing unaccounted for. *)
LEMMA JobOnce ==
    ASSUME OnceInv, TypeInv', NEW p \in Processes, Job(p)
    PROVE  OnceInv'
  <1>0. TypeInv /\ run[p] \in Frame /\ deliveries \subseteq received
    BY RunFrame DEF OnceInv
  <1>1. UNCHANGED <<hook, modsets>>
    BY <1>0, JobTables
  <1>2. CASE Start(p) \/ Finish(p) \/ DbError(p) \/ Restart(p)
    <2>1. PICK f : /\ Put(p, f) /\ f \in Frame /\ f.at \notin Away /\ f.list = {}
      <3>1. CASE Start(p)
        <4> DEFINE t == {m \in Mods : \E s \in modsets : Tracked(s, m)}
                   f == [Rest EXCEPT !.at = "next", !.todo = t]
        <4>1. Put(p, f)
          BY <3>1 DEF Start
        <4>2. t \in SUBSET Mods
          OBVIOUS
        <4>3. f \in Frame /\ f.at = "next" /\ f.list = {}
          BY <4>2, NextFrame
        <4>. QED  BY <4>1, <4>3 DEF Away
      <3>2. CASE Finish(p) \/ DbError(p) \/ Restart(p)
        BY <3>2, RestFrame DEF Finish, DbError, Restart, Away
      <3>. QED  BY <1>2, <3>1, <3>2
    <2>2. ~At(p, "posted") /\ UNCHANGED <<received, repeated, excused, deliveries>>
      BY <1>2 DEF Start, Finish, DbError, Restart, At, alerts
    <2>. QED  BY <1>0, <1>1, <2>1, <2>2, Leaves
  <1>3. CASE FetchFails(p) \/ LastModset(p)
    <2>1. PICK f \in Frame : Put(p, f) /\ f.at = "next" /\ f.list = {}
      BY <1>0, <1>3, NextModFrame DEF FetchFails, LastModset
    <2>2. ~At(p, "posted") /\ UNCHANGED <<received, repeated, excused, deliveries>>
      BY <1>3 DEF FetchFails, LastModset, At, alerts
    <2>3. f.at \notin Away
      BY <2>1 DEF Away
    <2>. QED  BY <1>0, <1>1, <2>1, <2>2, <2>3, Leaves
  <1>4. ASSUME NEW m \in Mods, TakeMod(p, m) PROVE OnceInv'
    <2> DEFINE f == [Rest EXCEPT !.at = "fetching", !.mod = m, !.todo = run[p].todo \ {m}]
    <2>1. f \in Frame /\ f.at \notin Away /\ f.list = {}
      BY <1>0, RestFrame DEF Frame, Away
    <2>2. /\ Put(p, f) /\ ~At(p, "posted")
          /\ UNCHANGED <<received, repeated, excused, deliveries>>
      BY <1>4 DEF TakeMod, At, alerts
    <2> HIDE DEF f
    <2>. QED  BY <1>0, <1>1, <2>1, <2>2, Leaves
  <1>5. CASE Fetch(p)
    <2> DEFINE x == {s \in modsets : Tracked(s, run[p].mod)}
               f == [run[p] EXCEPT !.at = "modset", !.where = x]
    <2>1. x \in SUBSET Modsets
      BY <1>0 DEF TypeInv, TypeOK
    <2>2. f \in Frame /\ f.at \notin Away /\ f.list = run[p].list
      <3> HIDE DEF x
      <3>. QED  BY <1>0, <2>1 DEF Frame, Away
    <2>3. /\ Put(p, f) /\ ~At(p, "posted")
          /\ UNCHANGED <<received, repeated, excused, deliveries>>
      BY <1>5 DEF Fetch, At, alerts
    <2>4. \A w \in f.list : hook[w].state # "absent"
      BY <2>2 DEF OnceInv, Known
    <2> HIDE DEF f
    <2>. QED  BY <1>0, <1>1, <2>2, <2>3, <2>4, Leaves
  <1>6. ASSUME NEW s \in Modsets, Consider(p, s) PROVE OnceInv'
    <2>1. PICK f \in Frame : /\ Put(p, f) /\ f.at \notin Away
                             /\ f.list \subseteq run[p].list \cup Listed
      BY <1>0, <1>6, ConsiderFrame
    <2>2. ~At(p, "posted") /\ UNCHANGED <<received, repeated, excused, deliveries>>
      BY <1>6 DEF Consider, At, alerts
    <2>3. \A w \in f.list : hook[w].state # "absent"
      BY <2>1 DEF OnceInv, Known, Listed, Live
    <2>. QED  BY <1>0, <1>1, <2>1, <2>2, <2>3, Leaves
  <1>7. CASE LastWebhook(p)
    <2>1. PICK f \in Frame : Put(p, f) /\ f.at \notin Away /\ f.list = {}
      BY <1>0, <1>7, LastWebhookFrame
    <2>2. ~At(p, "posted") /\ UNCHANGED <<received, repeated, excused, deliveries>>
      BY <1>7 DEF LastWebhook, At, alerts
    <2>. QED  BY <1>0, <1>1, <2>1, <2>2, Leaves
  <1>8. ASSUME NEW w \in Hooks, Target(p, w) PROVE OnceInv'
    <2> DEFINE f == [run[p] EXCEPT !.list = run[p].list \ {w}]
    <2>1. CASE (run[p].fresh \/ Live(w)) /\ Targets(p, w) /\ ~DeliveryExists(Alert(p, w))
      BY <1>8, <2>1, Posts
    <2>2. CASE ~((run[p].fresh \/ Live(w)) /\ Targets(p, w) /\ ~DeliveryExists(Alert(p, w)))
      <3>1. /\ ~At(p, "posted") /\ run[p].at = "notifying"
            /\ UNCHANGED <<received, repeated, excused, deliveries>>
            /\ NextMod(p) \/ Put(p, f)
        BY <1>8, <2>2 DEF Target, At
      <3>2. PICK g \in Frame : /\ Put(p, g) /\ g.at \notin Away
                               /\ g.list \subseteq run[p].list
        <4>1. f \in Frame /\ f.at \notin Away /\ f.list \subseteq run[p].list
          BY <1>0, <3>1 DEF Frame, Away
        <4>2. CASE NextMod(p)
          BY <1>0, <4>2, NextModFrame DEF Away
        <4>. QED  BY <3>1, <4>1, <4>2
      <3>3. \A x \in g.list : hook[x].state # "absent"
        BY <3>2 DEF OnceInv, Known
      <3>. QED  BY <1>0, <1>1, <3>1, <3>2, <3>3, Leaves
    <2>. QED  BY <2>1, <2>2
  <1>9. CASE Deliver(p)
    BY <1>9, Delivers
  <1>10. CASE Refused(p) \/ TimedOut(p) \/ Record(p) \/ RecordFails(p) \/ RecordLost(p)
    <2>1. run[p].at \in Away /\ run[p].fresh \in BOOLEAN /\ Sending(p)
      BY <1>0, <1>10 DEF Refused, TimedOut, Record, RecordFails, RecordLost, At, Away,
           Frame, Sending
    <2>2. NextMod(p) \/ \E b \in BOOLEAN : NextWebhook(p, b)
      BY <1>10, <2>1 DEF Refused, TimedOut, Record, RecordFails, RecordLost
    <2>3. PICK f \in Frame : Put(p, f) /\ f.at \notin Away /\ f.list \subseteq run[p].list
      <3>1. CASE NextMod(p)
        BY <1>0, <3>1, NextModFrame DEF Away
      <3>2. CASE \E b \in BOOLEAN : NextWebhook(p, b)
        BY <1>0, <2>1, <3>2, NextWebhookFrame DEF Away
      <3>. QED  BY <2>2, <3>1, <3>2
    <2>4. \A w \in f.list : hook[w].state # "absent"
      BY <2>3 DEF OnceInv, Known
    <2>5. /\ UNCHANGED <<received, repeated>>
          /\ excused \subseteq excused'
          /\ deliveries \subseteq deliveries'
      BY <1>10 DEF Refused, TimedOut, Record, RecordFails, RecordLost, alerts
    <2>6. deliveries' \subseteq received
      <3>1. At(p, "posted") => Current(p) \in received
        BY DEF OnceInv, Unsent
      <3>2. CASE Record(p)
        <4>1. deliveries' = deliveries \cup {Current(p)} /\ At(p, "posted")
          BY <3>2 DEF Record
        <4>. QED  BY <1>0, <3>1, <4>1
      <3>3. CASE Refused(p) \/ TimedOut(p) \/ RecordFails(p) \/ RecordLost(p)
        <4>1. UNCHANGED deliveries
          BY <3>3 DEF Refused, TimedOut, RecordFails, RecordLost
        <4>. QED  BY <1>0, <4>1
      <3>. QED  BY <1>10, <3>2, <3>3
    <2>7. At(p, "posted") => \/ Current(p) \in deliveries' \/ Current(p) \in excused'
                             \/ Spent(Current(p))
      <3>1. CASE Refused(p)
        BY <3>1 DEF Refused, At
      <3>2. CASE TimedOut(p) \/ Record(p) \/ RecordLost(p)
        BY <3>2 DEF TimedOut, Record, RecordLost
      <3>3. CASE RecordFails(p)
        <4>1. ~Recordable(Current(p)) /\ UNCHANGED deliveries
          BY <3>3 DEF RecordFails
        <4>2. run[p].hook \in Hooks /\ hook[run[p].hook].state \in {"live", "deleted"}
          <5>1. run[p].hook \in Hooks
            BY <1>0, <2>1 DEF TypeInv, Frames, WellFormed
          <5>2. hook[run[p].hook] \in Webhook
            BY <1>0, <5>1 DEF TypeInv, TypeOK
          <5>3. hook[run[p].hook].state # "absent"
            BY <2>1 DEF OnceInv, Known
          <5>. QED  BY <5>1, <5>2, <5>3 DEF Webhook
        <4>3. Current(p)[1] = run[p].hook
          BY DEF Current, Alert
        <4>. QED  BY <4>1, <4>2, <4>3 DEF Recordable, Live, Spent
      <3>. QED  BY <1>10, <3>1, <3>2, <3>3
    <2>. QED  BY <1>0, <1>1, <2>3, <2>4, <2>5, <2>6, <2>7, Leaves
  <1>11. CASE Crash(p)
    <2> DEFINE f == [Rest EXCEPT !.at = "down"]
    <2>1. f \in Frame /\ f.at \notin Away /\ f.list = {}
      BY RestFrame DEF Frame, Away
    <2>2. /\ Put(p, f) /\ UNCHANGED <<received, repeated, deliveries>>
          /\ excused \subseteq excused'
          /\ At(p, "posted") => Current(p) \in excused'
      BY <1>11 DEF Crash
    <2> HIDE DEF f
    <2>. QED  BY <1>0, <1>1, <2>1, <2>2, Leaves
  <1>. QED  BY <1>2, <1>3, <1>4, <1>5, <1>6, <1>7, <1>8, <1>9, <1>10, <1>11 DEF Job, Advance

(* A step of anyone else leaves the jobs and what they have sent alone. *)
LEMMA Bystanders ==
    ASSUME OnceInv, TypeInv', UNCHANGED <<run, received, repeated, excused>>,
           modsets' \subseteq modsets, deliveries' \subseteq deliveries,
           \A w \in Hooks : /\ hook[w].state # "absent" => hook'[w].state # "absent"
                            /\ hook[w].state = "deleted" => hook'[w].state = "deleted",
           \A k \in deliveries \ deliveries' : Spent(k)'
    PROVE  OnceInv'
  <1>0. TypeInv
    BY DEF OnceInv
  <1>1. \A k \in Keys : Spent(k) => Spent(k)'
    BY DEF Spent, Keys
  <1>2. \A p \in Processes : /\ Sending(p)' = Sending(p) /\ Current(p)' = Current(p)
                             /\ At(p, "posted")' = At(p, "posted")
                             /\ At(p, "posting")' = At(p, "posting")
    BY DEF Sending, Current, Alert, At
  <1>3. received \subseteq Keys /\ repeated \subseteq Keys
    BY <1>0 DEF TypeInv, TypeOK
  <1>4. Accounted'
    BY <1>1, <1>2, <1>3 DEF OnceInv, Accounted
  <1>5. Unsent'
    BY <1>1, <1>2, <1>3 DEF OnceInv, Unsent
  <1>6. Apart'
    BY <1>2 DEF OnceInv, Apart
  <1>7. Known'
    <2> SUFFICES ASSUME NEW p \in Processes
                 PROVE  /\ \A w \in run[p].list : hook'[w].state # "absent"
                        /\ Sending(p) => hook'[run[p].hook].state # "absent"
      BY <1>2 DEF Known
    <2>1. run[p].list \subseteq Hooks
      BY <1>0, RunFrame DEF Frame
    <2>2. Sending(p) => run[p].hook \in Hooks
      BY <1>0, RunFrame DEF WellFormed, Sending, Away
    <2>. QED  BY <2>1, <2>2 DEF OnceInv, Known
  <1>. QED  BY <1>1, <1>3, <1>4, <1>5, <1>6, <1>7 DEF OnceInv

LEMMA InitOnce == Init => OnceInv
  <1> SUFFICES ASSUME Init PROVE OnceInv
    OBVIOUS
  <1>1. TypeInv
    BY InitTypes
  <1>2. \A p \in Processes : ~Sending(p) /\ run[p].list = {}
                            /\ ~At(p, "posted") /\ ~At(p, "posting")
    BY RestFrame DEF Init, Sending, At
  <1>. QED  BY <1>1, <1>2 DEF Init, OnceInv, Accounted, Unsent, Apart, Known

LEMMA NextOnce == OnceInv /\ [Next]_vars => OnceInv'
  <1> SUFFICES ASSUME OnceInv, [Next]_vars PROVE OnceInv'
    OBVIOUS
  <1>0. TypeInv /\ TypeInv'
    BY NextTypes DEF OnceInv
  <1>1. ASSUME NEW p \in Processes, Job(p) PROVE OnceInv'
    BY <1>0, <1>1, JobOnce
  <1>2. ASSUME NEW e \in Editors, Edit(e) PROVE OnceInv'
    <2>1. UNCHANGED <<run, received, repeated, excused, modsets, deliveries>>
      BY <1>0, <1>2, EditType DEF TypeInv, tracking, alerts
    <2>2. \A w \in Hooks : hook'[w].state = hook[w].state
      <3>1. CASE CommitWebhook(e)
        <4> DEFINE q == edit[e]
                   a == IF q.change.active \in {Omitted, q.seen.active}
                        THEN hook[q.hook].active ELSE q.change.active
                   x == (hook[q.hook].scope \ Unlinked(q)) \cup Linked(q)
        <4>1. hook' = [hook EXCEPT ![q.hook] = [hook[q.hook] EXCEPT !.active = a, !.scope = x]]
          BY <3>1 DEF CommitWebhook
        <4>2. \A w \in Hooks : hook[w] \in Webhook
          BY <1>0 DEF TypeInv, TypeOK
        <4>3. hook \in [Hooks -> Webhook]
          BY <1>0 DEF TypeInv, TypeOK
        <4> HIDE DEF a, x, q
        <4>. QED  BY <4>1, <4>2, <4>3 DEF Webhook
      <3>2. CASE FailWebhook(e) \/ \E w \in Hooks, c \in Changes : LoadWebhook(e, w, c)
        BY <3>2 DEF FailWebhook, LoadWebhook
      <3>. QED  BY <1>2, <3>1, <3>2 DEF Edit
    <2>. QED  BY <1>0, <2>1, <2>2, Bystanders
  <1>3. CASE Others
    <2>0. hook \in [Hooks -> Webhook]
      BY <1>0 DEF TypeInv, TypeOK
    <2>1. ASSUME NEW w \in Hooks, NEW a \in {"on", "off"}, NEW x \in SUBSET Modsets,
                 CreateWebhook(w, a, x)
          PROVE  OnceInv'
      <3>1. \A v \in Hooks : /\ hook[v].state # "absent" => hook'[v].state # "absent"
                             /\ hook[v].state = "deleted" => hook'[v].state = "deleted"
        BY <2>0, <2>1 DEF CreateWebhook
      <3>. QED  BY <1>0, <2>1, <3>1, Bystanders DEF CreateWebhook, tracking, alerts
    <2>2. ASSUME NEW w \in Hooks, DeleteWebhook(w) PROVE OnceInv'
      <3>1. hook'[w].state = "deleted" /\ \A v \in Hooks \ {w} : hook'[v] = hook[v]
        BY <2>0, <2>2 DEF DeleteWebhook, NoHook
      <3>2. \A v \in Hooks : /\ hook[v].state # "absent" => hook'[v].state # "absent"
                             /\ hook[v].state = "deleted" => hook'[v].state = "deleted"
        BY <3>1
      <3>3. deliveries' = {k \in deliveries : k[1] # w}
        BY <2>2 DEF DeleteWebhook
      <3>4. \A k \in deliveries \ deliveries' : Spent(k)'
        BY <3>1, <3>3 DEF Spent
      <3>. QED  BY <1>0, <2>2, <3>2, <3>3, <3>4, Bystanders DEF DeleteWebhook, tracking, alerts
    <2>3. ASSUME NEW s \in Modsets, DeleteModset(s) PROVE OnceInv'
      <3>1. \A v \in Hooks : hook'[v].state = hook[v].state
        <4>1. \A v \in Hooks : hook[v] \in Webhook
          BY <2>0
        <4>2. \A v \in Hooks : hook'[v] = [hook[v] EXCEPT !.scope = hook[v].scope \ {s}]
          BY <2>3 DEF DeleteModset
        <4> SUFFICES ASSUME NEW v \in Hooks PROVE hook'[v].state = hook[v].state
          OBVIOUS
        <4>. QED  BY <4>1, <4>2 DEF Webhook
      <3>2. deliveries' = {k \in deliveries : k[2] # s} /\ modsets' = modsets \ {s}
        BY <2>3 DEF DeleteModset
      <3>3. \A k \in deliveries \ deliveries' : Spent(k)'
        BY <3>2 DEF Spent
      <3>. QED  BY <1>0, <2>3, <3>1, <3>2, <3>3, Bystanders DEF DeleteModset, alerts
    <2>4. CASE (\E s \in Modsets, m \in Mods, t \in Tracking : Track(s, m, t))
               \/ (\E m \in Mods : RefreshElsewhere(m))
      <3>1. UNCHANGED <<hook, run, received, repeated, excused, modsets, deliveries>>
        BY <2>4 DEF Track, RefreshElsewhere, Upsert, hooks, alerts
      <3>. QED  BY <1>0, <3>1, Bystanders
    <2>. QED  BY <1>3, <2>1, <2>2, <2>3, <2>4 DEF Others
  <1>4. CASE UNCHANGED vars
    BY <1>0, <1>4, Bystanders DEF vars
  <1>. QED  BY <1>1, <1>2, <1>3, <1>4 DEF Next

LEMMA Once == Spec => []OnceInv
  BY InitOnce, NextOnce, PTL DEF Spec

(* A delivery row is written only after Discord took the alert, whatever   *)
(* requests, runs and exits come in between (discord_webhooks.py:125).     *)
THEOREM DeliveriesAreReal == Spec => []DeliveriesReceived
  <1>1. OnceInv => DeliveriesReceived
    BY DEF OnceInv, DeliveriesReceived
  <1>. QED  BY <1>1, Once, PTL

(* No alert is repeated but for the reasons SentOnce names.                *)
THEOREM AlertsSentOnce == Spec => []SentOnce
  <1>1. OnceInv => SentOnce
    BY DEF OnceInv, SentOnce, Spent
  <1>. QED  BY <1>1, Once, PTL
-----------------------------------------------------------------------------
(* The scope of webhooks. *)

(* An update that no other selection has crossed still knows the scope,    *)
(* but for modsets deleted since.                                          *)
SeenScope == \A e \in Editors :
               LET q == edit[e]
               IN q.hook \in Hooks /\ Live(q.hook) /\ ~q.crossed
                    => hook[q.hook].scope = q.seen.scope \cap modsets

(* The webhook of an update has existed. *)
Begun == \A e \in Editors :
           edit[e].hook \in Hooks => hook[edit[e].hook].state # "absent"

ScopeInv == /\ TypeInv
            /\ \A w \in Hooks : Live(w) => hook[w].scope \subseteq modsets
            /\ SeenScope
            /\ Begun
            /\ ScopeChosen

LEMMA InitScope == Init => ScopeInv
  <1> SUFFICES ASSUME Init PROVE ScopeInv
    OBVIOUS
  <1>1. TypeInv
    BY InitTypes
  <1>2. \A w \in Hooks : chosen[w] = hook[w].scope /\ hook[w].scope \subseteq modsets
    BY DEF Init, NoHook
  <1>3. SeenScope
    BY NotificationsOK DEF Init, NoEdit, SeenScope
  <1>4. ScopeChosen
    BY <1>2 DEF ScopeChosen
  <1>5. Begun
    BY NotificationsOK DEF Init, NoEdit, Begun
  <1>. QED  BY <1>1, <1>2, <1>3, <1>4, <1>5 DEF ScopeInv

LEMMA CommitScope ==
    ASSUME ScopeInv, TypeInv', NEW e \in Editors, CommitWebhook(e)
    PROVE  ScopeInv'
  <1>q. PICK q : q = edit[e]
    OBVIOUS
  <1>w. PICK w : w = q.hook
    OBVIOUS
  <1>c. PICK c : c = q.change
    OBVIOUS
  <1>x. PICK x : x = (hook[w].scope \ Unlinked(q)) \cup Linked(q)
    OBVIOUS
  <1>0. /\ TypeOK /\ w \in Hooks /\ q \in Editing
    BY <1>q, <1>w DEF ScopeInv, TypeInv, TypeOK, CommitWebhook, Editing
  <1>1. /\ Live(w) /\ Linked(q) \subseteq modsets /\ UNCHANGED modsets
        /\ IF c.replace
           THEN /\ edit' = Crossing(e, w)
                /\ chosen' = [chosen EXCEPT ![w] = c.selection]
                /\ mixed' = IF q.crossed THEN mixed \cup {w} ELSE mixed \ {w}
           ELSE /\ edit' = [edit EXCEPT ![e] = NoEdit]
                /\ UNCHANGED <<chosen, mixed>>
    BY <1>q, <1>w, <1>c DEF CommitWebhook, tracking
  <1>2. /\ hook'[w].scope = x /\ hook'[w].state = hook[w].state
        /\ \A v \in Hooks \ {w} : hook'[v] = hook[v]
    <2> DEFINE a == IF c.active \in {Omitted, q.seen.active} THEN hook[w].active ELSE c.active
    <2>1. hook' = [hook EXCEPT ![w] = [hook[w] EXCEPT !.active = a, !.scope = x]]
      BY <1>q, <1>w, <1>c, <1>x DEF CommitWebhook
    <2>2. hook \in [Hooks -> Webhook] /\ hook[w] \in Webhook
      BY <1>0 DEF TypeOK
    <2> HIDE DEF a
    <2>. QED  BY <1>0, <2>1, <2>2 DEF Webhook
  <1>3. hook[w].scope \subseteq modsets
    BY <1>0, <1>1 DEF ScopeInv
  <1>4. x \subseteq modsets
    BY <1>x, <1>1, <1>3
  <1>5. c.replace /\ ~q.crossed => x = c.selection \cap modsets
    <2> SUFFICES ASSUME c.replace, ~q.crossed PROVE x = c.selection \cap modsets
      OBVIOUS
    <2>1. hook[w].scope = q.seen.scope \cap modsets
      BY <1>q, <1>w, <1>0, <1>1 DEF ScopeInv, SeenScope
    <2>2. Unlinked(q) = q.seen.scope \ c.selection /\ Linked(q) = c.selection \ q.seen.scope
      BY <1>c DEF Unlinked, Linked
    <2>. QED  BY <1>x, <1>1, <2>1, <2>2
  <1>6. ~c.replace => x = hook[w].scope
    BY <1>c, <1>x DEF Unlinked, Linked
  <1>7. \A v \in Hooks : Live(v)' = Live(v)
    BY <1>2 DEF Live
  <1>8. \A v \in Hooks : Live(v)' => hook'[v].scope \subseteq modsets'
    BY <1>1, <1>2, <1>4, <1>7 DEF ScopeInv
  <1>9. SeenScope'
    <2> SUFFICES ASSUME NEW f \in Editors, NEW v \in Hooks, edit'[f].hook = v,
                        hook'[v].state = "live", ~edit'[f].crossed
                 PROVE  hook'[v].scope = edit'[f].seen.scope \cap modsets'
      BY DEF SeenScope, Live
    <2>1. f # e
      <3>1. f = e => edit'[f] = NoEdit
        BY <1>0, <1>1 DEF Crossing, TypeOK
      <3>2. NoEdit.hook \notin Hooks
        BY NotificationsOK DEF NoEdit
      <3>. QED  BY <3>1, <3>2
    <2>2. CASE c.replace
      <3>1. edit'[f] = [edit[f] EXCEPT !.crossed = edit[f].crossed \/ edit[f].hook = w]
        BY <2>1, <2>2, <1>1 DEF Crossing
      <3>2. edit[f] \in Editing
        BY <1>0 DEF TypeOK
      <3>3. /\ edit'[f].hook = edit[f].hook /\ edit'[f].seen = edit[f].seen
            /\ ~edit[f].crossed /\ edit[f].hook # w
        BY <3>1, <3>2 DEF Editing
      <3>. QED  BY <3>3, <1>1, <1>2 DEF ScopeInv, SeenScope, Live
    <2>3. CASE ~c.replace
      <3>1. edit'[f] = edit[f]
        BY <2>1, <2>3, <1>0, <1>1 DEF TypeOK
      <3>2. hook'[v].scope = hook[v].scope /\ hook'[v].state = hook[v].state
        BY <2>3, <1>2, <1>6
      <3>. QED  BY <3>1, <3>2, <1>1 DEF ScopeInv, SeenScope, Live
    <2>. QED  BY <2>2, <2>3
  <1>10. ScopeChosen'
    <2> SUFFICES ASSUME NEW v \in Hooks, v \notin mixed', Live(v)'
                 PROVE  hook'[v].scope = chosen'[v] \cap modsets'
      BY DEF ScopeChosen
    <2>1. CASE v # w \/ ~c.replace
      <3>1. v \notin mixed /\ chosen'[v] = chosen[v] /\ hook'[v].scope = hook[v].scope
        BY <2>1, <1>0, <1>1, <1>2, <1>6 DEF TypeOK
      <3>. QED  BY <3>1, <1>1, <1>7 DEF ScopeInv, ScopeChosen
    <2>2. CASE v = w /\ c.replace
      <3>1. ~q.crossed /\ chosen'[w] = c.selection
        BY <2>2, <1>0, <1>1 DEF TypeOK
      <3>. QED  BY <2>2, <3>1, <1>1, <1>2, <1>5
    <2>. QED  BY <2>1, <2>2
  <1>11. Begun'
    <2> SUFFICES ASSUME NEW f \in Editors, edit'[f].hook \in Hooks
                 PROVE  hook'[edit'[f].hook].state # "absent"
      BY DEF Begun
    <2>1. f # e /\ edit'[f].hook = edit[f].hook
      <3>1. f = e => edit'[f] = NoEdit
        BY <1>0, <1>1 DEF Crossing, TypeOK
      <3>2. NoEdit.hook \notin Hooks
        BY NotificationsOK DEF NoEdit
      <3>3. f # e => edit'[f].hook = edit[f].hook
        BY <1>0, <1>1 DEF Crossing, TypeOK, Editing
      <3>. QED  BY <3>1, <3>2, <3>3
    <2>. QED  BY <2>1, <1>2 DEF ScopeInv, Begun
  <1>. QED  BY <1>8, <1>9, <1>10, <1>11 DEF ScopeInv

(* The steps that leave webhooks and updates alone. *)
LEMMA KeepsScope ==
    ASSUME ScopeInv, TypeInv', UNCHANGED <<hook, edit, chosen, mixed, modsets>>
    PROVE  ScopeInv'
  BY DEF ScopeInv, SeenScope, ScopeChosen, Begun, Live

LEMMA FailScope ==
    ASSUME ScopeInv, TypeInv', NEW e \in Editors, FailWebhook(e)
    PROVE  ScopeInv'
  <1>1. /\ UNCHANGED <<hook, chosen, mixed, modsets>>
        /\ edit' = [edit EXCEPT ![e] = NoEdit] /\ TypeOK
    BY DEF FailWebhook, tracking, ScopeInv, TypeInv
  <1>2. NoEdit.hook \notin Hooks
    BY NotificationsOK DEF NoEdit
  <1>3. SeenScope' /\ Begun'
    BY <1>1, <1>2 DEF ScopeInv, SeenScope, Begun, Live, TypeOK
  <1>. QED  BY <1>1, <1>3 DEF ScopeInv, ScopeChosen, Live

LEMMA LoadScope ==
    ASSUME ScopeInv, TypeInv', NEW e \in Editors, NEW w \in Hooks, NEW c \in Changes,
           LoadWebhook(e, w, c)
    PROVE  ScopeInv'
  <1>1. /\ UNCHANGED <<hook, chosen, mixed, modsets>> /\ Live(w) /\ TypeOK
        /\ edit' = [edit EXCEPT ![e] = [hook |-> w, seen |-> hook[w],
                                        crossed |-> FALSE, change |-> c]]
    BY DEF LoadWebhook, tracking, ScopeInv, TypeInv
  <1>2. edit'[e].hook = w /\ edit'[e].seen = hook[w]
    BY <1>1 DEF TypeOK
  <1>3. \A f \in Editors \ {e} : edit'[f] = edit[f]
    BY <1>1 DEF TypeOK
  <1>4. SeenScope'
    <2> SUFFICES ASSUME NEW f \in Editors, NEW v \in Hooks, edit'[f].hook = v,
                        hook'[v].state = "live", ~edit'[f].crossed
                 PROVE  hook'[v].scope = edit'[f].seen.scope \cap modsets'
      BY DEF SeenScope, Live
    <2>1. CASE f = e
      BY <2>1, <1>1, <1>2 DEF ScopeInv, Live
    <2>2. CASE f # e
      BY <2>2, <1>1, <1>3 DEF ScopeInv, SeenScope, Live
    <2>. QED  BY <2>1, <2>2
  <1>5. Begun'
    BY <1>1, <1>2, <1>3 DEF ScopeInv, Begun, Live
  <1>. QED  BY <1>1, <1>4, <1>5 DEF ScopeInv, ScopeChosen, Live

LEMMA CreateScope ==
    ASSUME ScopeInv, TypeInv', NEW w \in Hooks, NEW a \in {"on", "off"},
           NEW x \in SUBSET Modsets, CreateWebhook(w, a, x)
    PROVE  ScopeInv'
  <1>1. /\ x \subseteq modsets /\ UNCHANGED <<edit, mixed, modsets>>
        /\ hook'[w].scope = x /\ chosen'[w] = x
        /\ hook'[w].state = "live" /\ hook[w].state = "absent"
        /\ \A v \in Hooks \ {w} : hook'[v] = hook[v] /\ chosen'[v] = chosen[v]
    BY DEF CreateWebhook, TypeOK, tracking, ScopeInv, TypeInv
  <1>2. \A e \in Editors : edit[e].hook # w
    BY <1>1 DEF ScopeInv, Begun
  <1>3. SeenScope' /\ Begun'
    BY <1>1, <1>2 DEF ScopeInv, SeenScope, Begun, Live
  <1>. QED  BY <1>1, <1>3 DEF ScopeInv, ScopeChosen, Live

LEMMA DeleteScope ==
    ASSUME ScopeInv, TypeInv', NEW w \in Hooks, DeleteWebhook(w)
    PROVE  ScopeInv'
  <1>1. /\ UNCHANGED <<edit, mixed, modsets, chosen>> /\ hook'[w].state = "deleted"
        /\ \A v \in Hooks \ {w} : hook'[v] = hook[v]
    BY DEF DeleteWebhook, NoHook, TypeOK, tracking, ScopeInv, TypeInv
  <1>2. SeenScope' /\ Begun'
    BY <1>1 DEF ScopeInv, SeenScope, Begun, Live
  <1>. QED  BY <1>1, <1>2 DEF ScopeInv, ScopeChosen, Live

LEMMA DeleteModsetScope ==
    ASSUME ScopeInv, TypeInv', NEW s \in Modsets, DeleteModset(s)
    PROVE  ScopeInv'
  <1>1. /\ UNCHANGED <<edit, mixed, chosen>> /\ modsets' = modsets \ {s}
        /\ \A v \in Hooks : /\ hook'[v].state = hook[v].state
                            /\ hook'[v].scope = hook[v].scope \ {s}
    <2>1. \A v \in Hooks : hook[v] \in Webhook
      BY DEF ScopeInv, TypeInv, TypeOK
    <2>2. \A v \in Hooks : hook'[v] = [hook[v] EXCEPT !.scope = hook[v].scope \ {s}]
      BY DEF DeleteModset
    <2>. QED  BY <2>1, <2>2 DEF Webhook, DeleteModset
  <1>2. SeenScope'
    BY <1>1 DEF ScopeInv, SeenScope, Live
  <1>3. Begun' /\ ScopeChosen'
    BY <1>1 DEF ScopeInv, Begun, ScopeChosen, Live
  <1>. QED  BY <1>1, <1>2, <1>3 DEF ScopeInv, Live

LEMMA NextScope == ScopeInv /\ [Next]_vars => ScopeInv'
  <1> SUFFICES ASSUME ScopeInv, [Next]_vars PROVE ScopeInv'
    OBVIOUS
  <1>0. TypeInv /\ TypeInv'
    BY NextTypes DEF ScopeInv
  <1>1. ASSUME NEW p \in Processes, Job(p) PROVE ScopeInv'
    BY <1>0, <1>1, JobTables, KeepsScope
  <1>2. ASSUME NEW e \in Editors, Edit(e) PROVE ScopeInv'
    BY <1>0, <1>2, CommitScope, FailScope, LoadScope DEF Edit
  <1>3. CASE Others
    <2>1. CASE (\E s \in Modsets, m \in Mods, t \in Tracking : Track(s, m, t))
               \/ (\E m \in Mods : RefreshElsewhere(m))
      <3>1. UNCHANGED <<hook, edit, chosen, mixed, modsets>>
        BY <2>1 DEF Track, RefreshElsewhere, Upsert, hooks
      <3>. QED  BY <1>0, <3>1, KeepsScope
    <2>. QED  BY <1>0, <1>3, <2>1, CreateScope, DeleteScope, DeleteModsetScope DEF Others
  <1>4. CASE UNCHANGED vars
    BY <1>0, <1>4, KeepsScope DEF vars
  <1>. QED  BY <1>1, <1>2, <1>3, <1>4 DEF Next

(* The modsets of a webhook are the last selection, but for deleted ones,  *)
(* unless updates of it overlapped (update_webhook, discord_webhooks.py:71). *)
THEOREM ScopeCorrect == Spec => []ScopeChosen
  <1>1. ScopeInv => ScopeChosen
    BY DEF ScopeInv
  <1>. QED  BY <1>1, InitScope, NextScope, PTL DEF Spec
-----------------------------------------------------------------------------
(* How much a run has left to do: every mod once, every modset of it once, *)
(* every webhook once for each.  A webhook takes three steps at most.      *)
TablesFinite == IsFiniteSet(Mods) /\ IsFiniteSet(Modsets) /\ IsFiniteSet(Hooks)
PerModset == 3 * Cardinality(Hooks) + 2
PerMod == Cardinality(Modsets) * PerModset + 3
Ongoing(f) == f.at \notin {"idle", "down"}

OfModset(f) == CASE f.at = "modset" -> 1
                 [] f.at = "notifying" -> 3 * Cardinality(f.list) + 2
                 [] f.at = "posting" -> 3 * Cardinality(f.list) + 4
                 [] f.at = "posted" -> 3 * Cardinality(f.list) + 3
OfMod(f) == CASE f.at = "next" -> 0
              [] f.at = "fetching" -> Cardinality(Modsets) * PerModset + 2
              [] OTHER -> Cardinality(f.where) * PerModset + OfModset(f)
StepsLeft(f) == IF Ongoing(f) THEN Cardinality(f.todo) * PerMod + OfMod(f) + 1 ELSE 0

(* How many there are of a finite set, a part of it, and one less. *)
LEMMA Counts ==
    ASSUME NEW A, IsFiniteSet(A), NEW S \in SUBSET A
    PROVE  /\ Cardinality(A) \in Nat /\ Cardinality(S) \in 0..Cardinality(A)
           /\ \A x \in S : /\ Cardinality(S \ {x}) \in Nat
                           /\ Cardinality(S) = Cardinality(S \ {x}) + 1
  <1>1. IsFiniteSet(S) /\ Cardinality(S) <= Cardinality(A)
    BY FS_Subset
  <1>2. Cardinality(A) \in Nat /\ Cardinality(S) \in Nat
    BY <1>1, FS_CardinalityType
  <1>3. ASSUME NEW x \in S
        PROVE  Cardinality(S \ {x}) \in Nat /\ Cardinality(S) = Cardinality(S \ {x}) + 1
    <2>1. Cardinality(S \ {x}) = Cardinality(S) - 1 /\ IsFiniteSet(S \ {x})
      BY <1>1, FS_RemoveElement
    <2>2. Cardinality(S \ {x}) \in Nat
      BY <2>1, FS_CardinalityType
    <2>. QED  BY <1>2, <2>1, <2>2
  <1>. QED  BY <1>1, <1>2, <1>3

(* Products of naturals. *)
LEMMA Times ==
    ASSUME NEW n \in Nat, NEW a \in Nat, NEW b \in Nat, a <= b
    PROVE  a * n \in Nat /\ b * n \in Nat /\ a * n <= b * n /\ (a + 1) * n = a * n + n
  <1>1. /\ a * n \in Nat /\ b * n \in Nat /\ (b - a) * n \in Nat
        /\ b * n = a * n + (b - a) * n /\ (a + 1) * n = a * n + n
    BY SMT
  <1>. QED  BY <1>1

(* What is left of a run, part by part. *)
LEMMA Parts ==
    ASSUME TablesFinite, NEW f \in Frame
    PROVE  /\ PerModset \in Nat /\ PerMod \in Nat
           /\ Cardinality(Hooks) \in Nat /\ PerModset = 3 * Cardinality(Hooks) + 2
           /\ Cardinality(Modsets) * PerModset \in Nat
           /\ PerMod = Cardinality(Modsets) * PerModset + 3
           /\ Cardinality(f.todo) \in 0..Cardinality(Mods) /\ Cardinality(Mods) \in Nat
           /\ Cardinality(f.list) \in 0..Cardinality(Hooks)
           /\ Cardinality(f.todo) * PerMod \in Nat
           /\ Cardinality(f.todo) * PerMod <= Cardinality(Mods) * PerMod
           /\ Cardinality(f.where) * PerModset \in Nat
           /\ Cardinality(f.where) * PerModset <= Cardinality(Modsets) * PerModset
           /\ f.where # {} => Cardinality(f.where) * PerModset >= PerModset
  <1>1. f.todo \in SUBSET Mods /\ f.where \in SUBSET Modsets /\ f.list \in SUBSET Hooks
    BY DEF Frame
  <1>2. Cardinality(f.todo) \in 0..Cardinality(Mods) /\ Cardinality(Mods) \in Nat
    BY <1>1, Counts DEF TablesFinite
  <1>3. Cardinality(f.where) \in 0..Cardinality(Modsets) /\ Cardinality(Modsets) \in Nat
    BY <1>1, Counts DEF TablesFinite
  <1>4. Cardinality(f.list) \in 0..Cardinality(Hooks) /\ Cardinality(Hooks) \in Nat
    BY <1>1, Counts DEF TablesFinite
  <1>5. PerModset \in Nat /\ PerModset = 3 * Cardinality(Hooks) + 2
    BY <1>4 DEF PerModset
  <1>6. /\ Cardinality(f.where) * PerModset \in Nat
        /\ Cardinality(Modsets) * PerModset \in Nat
        /\ Cardinality(f.where) * PerModset <= Cardinality(Modsets) * PerModset
    BY <1>3, <1>5, Times
  <1>7. PerMod \in Nat /\ PerMod = Cardinality(Modsets) * PerModset + 3
    BY <1>6 DEF PerMod
  <1>8. /\ Cardinality(f.todo) * PerMod \in Nat
        /\ Cardinality(f.todo) * PerMod <= Cardinality(Mods) * PerMod
    BY <1>2, <1>7, Times
  <1>9. f.where # {} => Cardinality(f.where) * PerModset >= PerModset
    <2>1. SUFFICES ASSUME NEW s \in f.where PROVE Cardinality(f.where) * PerModset >= PerModset
      OBVIOUS
    <2>2. /\ Cardinality(f.where \ {s}) \in Nat
          /\ Cardinality(f.where) = Cardinality(f.where \ {s}) + 1
      BY <1>1, <2>1, Counts DEF TablesFinite
    <2>3. /\ Cardinality(f.where) * PerModset = Cardinality(f.where \ {s}) * PerModset + PerModset
          /\ Cardinality(f.where \ {s}) * PerModset \in Nat
      BY <1>5, <2>2, Times
    <2>. QED  BY <1>5, <2>3
  <1>. QED  BY <1>2, <1>4, <1>5, <1>6, <1>7, <1>8, <1>9

(* A run of a mod has less to do than a mod takes. *)
LEMMA Bounds ==
    ASSUME TablesFinite, NEW f \in Frame, Ongoing(f)
    PROVE  /\ OfMod(f) \in Nat
           /\ StepsLeft(f) = Cardinality(f.todo) * PerMod + OfMod(f) + 1
           /\ StepsLeft(f) \in Nat \ {0}
           /\ f.at = "next" => OfMod(f) = 0
           /\ f.at = "fetching" => OfMod(f) + 1 = PerMod
           /\ f.at = "modset" => OfMod(f) = Cardinality(f.where) * PerModset + 1
           /\ f.at = "notifying" =>
                OfMod(f) = Cardinality(f.where) * PerModset + 3 * Cardinality(f.list) + 2
           /\ f.at = "posting" =>
                OfMod(f) = Cardinality(f.where) * PerModset + 3 * Cardinality(f.list) + 4
           /\ f.at = "posted" =>
                OfMod(f) = Cardinality(f.where) * PerModset + 3 * Cardinality(f.list) + 3
  <1>1. f.at \in {"next", "fetching", "modset", "notifying", "posting", "posted"}
    BY DEF Frame, Ongoing
  <1> DEFINE a == Cardinality(f.todo) * PerMod
             b == Cardinality(f.where) * PerModset
             c == Cardinality(Modsets) * PerModset
             n == Cardinality(f.list)
  <1>2. a \in Nat /\ b \in Nat /\ c \in Nat /\ n \in Nat /\ PerMod = c + 3
    BY Parts
  <1>3. StepsLeft(f) = a + OfMod(f) + 1
    BY DEF StepsLeft
  <1>4. /\ f.at = "next" => OfMod(f) = 0
        /\ f.at = "fetching" => OfMod(f) = c + 2
        /\ f.at \in {"modset", "notifying", "posting", "posted"} => OfMod(f) = b + OfModset(f)
    BY DEF OfMod
  <1>5. /\ f.at = "modset" => OfModset(f) = 1
        /\ f.at = "notifying" => OfModset(f) = 3 * n + 2
        /\ f.at = "posting" => OfModset(f) = 3 * n + 4
        /\ f.at = "posted" => OfModset(f) = 3 * n + 3
    BY DEF OfModset
  <1> HIDE DEF a, b, c, n
  <1>6. /\ OfMod(f) \in Nat
        /\ f.at = "fetching" => OfMod(f) + 1 = PerMod
        /\ f.at = "modset" => OfMod(f) = b + 1
        /\ f.at = "notifying" => OfMod(f) = b + 3 * n + 2
        /\ f.at = "posting" => OfMod(f) = b + 3 * n + 4
        /\ f.at = "posted" => OfMod(f) = b + 3 * n + 3
    BY <1>1, <1>2, <1>4, <1>5
  <1>7. StepsLeft(f) \in Nat \ {0}
    BY <1>2, <1>3, <1>6
  <1>. QED  BY <1>3, <1>4, <1>6, <1>7 DEF a, b, n

(* Less is left of the same mod, or once it is over. *)
LEMMA SameMod ==
    ASSUME TablesFinite, NEW f \in Frame, NEW g \in Frame, Ongoing(f), Ongoing(g),
           g.todo = f.todo, OfMod(g) < OfMod(f)
    PROVE  StepsLeft(g) < StepsLeft(f)
  <1> DEFINE a == Cardinality(f.todo) * PerMod
  <1>1. a \in Nat
    BY Parts
  <1>2. /\ OfMod(f) \in Nat /\ OfMod(g) \in Nat
        /\ StepsLeft(f) = a + OfMod(f) + 1 /\ StepsLeft(g) = a + OfMod(g) + 1
    BY Bounds
  <1> HIDE DEF a
  <1>. QED  BY <1>1, <1>2

(* The frame a step of p leaves. *)
LEMMA After ==
    ASSUME TypeInv, NEW p \in Processes, Job(p)
    PROVE  /\ run[p] \in Frame /\ run'[p] \in Frame
           /\ \A f : Put(p, f) => run'[p] = f
           /\ \A q \in Processes \ {p} : run'[q] = run[q]
  <1>1. PICK f \in Frame : WellFormed(f) /\ Put(p, f)
    BY JobFrame
  <1>2. run \in [Processes -> Frame]
    BY DEF TypeInv, TypeOK
  <1>. QED  BY <1>1, <1>2 DEF Put

LEMMA NextModLess ==
    ASSUME TablesFinite, TypeInv, NEW p \in Processes, Job(p), NextMod(p),
           run[p].at \in {"fetching", "modset"} \cup About
    PROVE  StepsLeft(run'[p]) < StepsLeft(run[p])
  <1> DEFINE f == run[p]
             g == run'[p]
  <1>1. f \in Frame /\ g \in Frame /\ g = [Rest EXCEPT !.at = "next", !.todo = f.todo]
    BY After DEF NextMod
  <1>2. g.at = "next" /\ g.todo = f.todo
    BY <1>1 DEF Rest
  <1>3. Ongoing(f) /\ Ongoing(g)
    BY <1>2 DEF Ongoing, About, Away
  <1>4. OfMod(g) = 0
    BY <1>1, <1>2, <1>3, Bounds
  <1>5. OfMod(f) > 0
    <2>1. /\ Cardinality(f.where) * PerModset \in Nat /\ Cardinality(f.list) \in Nat
          /\ PerMod = Cardinality(Modsets) * PerModset + 3
          /\ Cardinality(Modsets) * PerModset \in Nat /\ OfMod(f) \in Nat
      BY <1>1, <1>3, Parts, Bounds
    <2> DEFINE b == Cardinality(f.where) * PerModset
               c == Cardinality(Modsets) * PerModset
    <2>2. \/ OfMod(f) + 1 = c + 3
          \/ OfMod(f) = b + 1
          \/ \E k \in {2, 3, 4} : OfMod(f) = b + 3 * Cardinality(f.list) + k
      BY <1>1, <1>3, <2>1, Bounds DEF About, Away
    <2> HIDE DEF b, c, f
    <2>. QED  BY <2>1, <2>2 DEF b, c
  <1> HIDE DEF f, g
  <1>6. StepsLeft(g) < StepsLeft(f)
    BY <1>1, <1>2, <1>3, <1>4, <1>5, SameMod
  <1>. QED  BY <1>6 DEF f, g

LEMMA NextWebhookLess ==
    ASSUME TablesFinite, TypeInv, NEW p \in Processes, Job(p), NEW b \in BOOLEAN,
           NextWebhook(p, b), run[p].at \in Away
    PROVE  StepsLeft(run'[p]) < StepsLeft(run[p])
  <1> DEFINE f == run[p]
             g == run'[p]
             c == Cardinality(f.where) * PerModset
             n == Cardinality(f.list)
  <1>1. f \in Frame /\ g \in Frame
        /\ g = [f EXCEPT !.at = "notifying", !.hook = Nothing, !.fresh = b]
    BY After DEF NextWebhook
  <1>2. g.at = "notifying" /\ g.todo = f.todo /\ g.where = f.where /\ g.list = f.list
    BY <1>1 DEF Frame
  <1>3. Ongoing(f) /\ Ongoing(g)
    BY <1>2 DEF Ongoing, Away
  <1>4. c \in Nat /\ n \in Nat
    BY <1>1, Parts
  <1>5. OfMod(g) = c + 3 * n + 2
    BY <1>1, <1>2, <1>3, Bounds
  <1>6. OfMod(f) = c + 3 * n + 4 \/ OfMod(f) = c + 3 * n + 3
    BY <1>1, <1>3, Bounds DEF Away
  <1>7. OfMod(g) < OfMod(f)
    <2> HIDE DEF c, n
    <2>. QED  BY <1>4, <1>5, <1>6
  <1> HIDE DEF f, g
  <1>8. StepsLeft(g) < StepsLeft(f)
    BY <1>1, <1>2, <1>3, <1>7, SameMod
  <1>. QED  BY <1>8 DEF f, g

LEMMA TakeModLess ==
    ASSUME TablesFinite, TypeInv, NEW p \in Processes, Job(p), NEW m \in Mods, TakeMod(p, m)
    PROVE  StepsLeft(run'[p]) < StepsLeft(run[p])
  <1> DEFINE f == run[p]
             g == run'[p]
             a == Cardinality(g.todo) * PerMod
  <1>1. /\ f \in Frame /\ g \in Frame /\ f.at = "next" /\ m \in f.todo
        /\ g = [Rest EXCEPT !.at = "fetching", !.mod = m, !.todo = f.todo \ {m}]
    BY After DEF TakeMod, At
  <1>2. g.at = "fetching" /\ g.todo = f.todo \ {m}
    BY <1>1 DEF Rest
  <1>3. Ongoing(f) /\ Ongoing(g)
    BY <1>1, <1>2 DEF Ongoing
  <1>4. /\ Cardinality(g.todo) \in Nat
        /\ Cardinality(f.todo) = Cardinality(g.todo) + 1
    <2>1. f.todo \in SUBSET Mods
      BY <1>1 DEF Frame
    <2>. QED  BY <1>1, <1>2, <2>1, Counts DEF TablesFinite
  <1>5. PerMod \in Nat
    BY <1>1, Parts
  <1>6. a \in Nat /\ Cardinality(f.todo) * PerMod = a + PerMod
    BY <1>4, <1>5, Times
  <1>7. StepsLeft(f) = a + PerMod + 0 + 1
    BY <1>1, <1>3, <1>6, Bounds
  <1>8. StepsLeft(g) = a + OfMod(g) + 1 /\ OfMod(g) + 1 = PerMod /\ OfMod(g) \in Nat
    BY <1>1, <1>2, <1>3, Bounds
  <1>9. StepsLeft(g) < StepsLeft(f)
    <2> HIDE DEF a, f, g
    <2>. QED  BY <1>5, <1>6, <1>7, <1>8
  <1>. QED  BY <1>9

LEMMA FetchLess ==
    ASSUME TablesFinite, TypeInv, NEW p \in Processes, Job(p), Fetch(p)
    PROVE  StepsLeft(run'[p]) < StepsLeft(run[p])
  <1> DEFINE f == run[p]
             g == run'[p]
             x == {s \in modsets : Tracked(s, f.mod)}
             c == Cardinality(g.where) * PerModset
             d == Cardinality(Modsets) * PerModset
  <1>1. /\ f \in Frame /\ g \in Frame /\ f.at = "fetching"
        /\ g = [f EXCEPT !.at = "modset", !.where = x]
    BY After DEF Fetch, At
  <1>2. g.at = "modset" /\ g.todo = f.todo
    BY <1>1 DEF Frame
  <1>3. Ongoing(f) /\ Ongoing(g)
    BY <1>1, <1>2 DEF Ongoing
  <1>4. c \in Nat /\ d \in Nat /\ c <= d /\ PerMod = d + 3
    BY <1>1, Parts
  <1>5. OfMod(g) = c + 1 /\ OfMod(f) + 1 = PerMod /\ OfMod(f) \in Nat
    BY <1>1, <1>2, <1>3, Bounds
  <1>6. OfMod(g) < OfMod(f)
    <2> HIDE DEF c, d, f, g
    <2>. QED  BY <1>4, <1>5
  <1> HIDE DEF f, g
  <1>7. StepsLeft(g) < StepsLeft(f)
    BY <1>1, <1>2, <1>3, <1>6, SameMod
  <1>. QED  BY <1>7 DEF f, g

LEMMA ConsiderLess ==
    ASSUME TablesFinite, TypeInv, NEW p \in Processes, Job(p), NEW s \in Modsets, Consider(p, s)
    PROVE  StepsLeft(run'[p]) < StepsLeft(run[p])
  <1> DEFINE f == run[p]
             g == run'[p]
             rest == f.where \ {s}
             t == {w \in Listed : s \in hook[w].scope}
             h(v) == [f EXCEPT
                        !.at = "notifying", !.where = rest, !.modset = s,
                        !.version = v, !.list = Listed, !.fresh = TRUE,
                        !.targets = t]
             c == Cardinality(g.where) * PerModset
             n == Cardinality(g.list)
  <1>1. /\ f \in Frame /\ g \in Frame /\ f.at = "modset" /\ s \in f.where
        /\ \A k : Put(p, k) => g = k
    BY After DEF Consider, At
  <1>2. \/ NextMod(p)
        \/ g = [f EXCEPT !.where = rest]
        \/ \E v \in {f.version, latest[f.mod]} \ {0} :
              g = [f EXCEPT !.where = rest, !.version = v] \/ g = h(v)
    BY <1>1 DEF Consider
  <1>3. CASE NextMod(p)
    BY <1>1, <1>3, NextModLess
  <1>4. ASSUME g.todo = f.todo, g.where = rest, g.at \in {"modset", "notifying"}
        PROVE  StepsLeft(g) < StepsLeft(f)
    <2>1. Ongoing(f) /\ Ongoing(g)
      BY <1>1, <1>4 DEF Ongoing
    <2>2. /\ Cardinality(g.where) \in Nat
          /\ Cardinality(f.where) = Cardinality(g.where) + 1
      <3>1. f.where \in SUBSET Modsets
        BY <1>1 DEF Frame
      <3>. QED  BY <1>1, <1>4, <3>1, Counts DEF TablesFinite
    <2>3. /\ PerModset \in Nat /\ Cardinality(Hooks) \in Nat
          /\ PerModset = 3 * Cardinality(Hooks) + 2
          /\ c \in Nat /\ n \in 0..Cardinality(Hooks)
      BY <1>1, Parts
    <2>4. Cardinality(f.where) * PerModset = c + PerModset
      BY <2>2, <2>3, Times
    <2>5. OfMod(f) = c + PerModset + 1
      BY <1>1, <2>1, <2>4, Bounds
    <2>6. OfMod(g) = c + 1 \/ OfMod(g) = c + 3 * n + 2
      BY <1>1, <1>4, <2>1, Bounds
    <2>7. OfMod(g) < OfMod(f)
      <3> HIDE DEF c, n, f, g
      <3>. QED  BY <2>3, <2>5, <2>6
    <2> HIDE DEF f, g
    <2>. QED  BY <1>1, <1>4, <2>1, <2>7, SameMod
  <1>5. CASE g = [f EXCEPT !.where = rest]
    <2>1. g.todo = f.todo /\ g.where = rest /\ g.at = "modset"
      BY <1>1, <1>5 DEF Frame
    <2>. QED  BY <1>4, <2>1
  <1>6. ASSUME NEW v, g = [f EXCEPT !.where = rest, !.version = v] \/ g = h(v)
        PROVE  StepsLeft(g) < StepsLeft(f)
    <2>1. CASE g = [f EXCEPT !.where = rest, !.version = v]
      <3>1. g.todo = f.todo /\ g.where = rest /\ g.at = "modset"
        BY <1>1, <2>1 DEF Frame
      <3>. QED  BY <1>4, <3>1
    <2>2. CASE g = h(v)
      <3>1. g.todo = f.todo /\ g.where = rest /\ g.at = "notifying"
        <4>1. f \in Frame
          BY <1>1
        <4>2. h(v).todo = f.todo /\ h(v).where = rest /\ h(v).at = "notifying"
          <5> HIDE DEF f, rest, t
          <5>. QED  BY <4>1 DEF Frame
        <4> HIDE DEF h, f, g
        <4>. QED  BY <2>2, <4>2
      <3>. QED  BY <1>4, <3>1
    <2>. QED  BY <1>6, <2>1, <2>2
  <1>. QED  BY <1>2, <1>3, <1>5, <1>6

LEMMA TargetLess ==
    ASSUME TablesFinite, TypeInv, NEW p \in Processes, Job(p), NEW w \in Hooks, Target(p, w)
    PROVE  StepsLeft(run'[p]) < StepsLeft(run[p])
  <1> DEFINE f == run[p]
             g == run'[p]
             left == f.list \ {w}
             c == Cardinality(f.where) * PerModset
             n == Cardinality(g.list)
  <1>1. /\ f \in Frame /\ g \in Frame /\ f.at = "notifying" /\ w \in f.list
        /\ \A k : Put(p, k) => g = k
    BY After DEF Target, At
  <1>2. \/ NextMod(p)
        \/ g = [f EXCEPT !.at = "posting", !.hook = w, !.list = left]
        \/ g = [f EXCEPT !.list = left]
    BY <1>1 DEF Target
  <1>3. CASE NextMod(p)
    BY <1>1, <1>3, NextModLess DEF About
  <1>4. CASE \/ g = [f EXCEPT !.at = "posting", !.hook = w, !.list = left]
             \/ g = [f EXCEPT !.list = left]
    <2>1. /\ g.todo = f.todo /\ g.where = f.where /\ g.list = left
          /\ g.at \in {"posting", "notifying"}
      <3> HIDE DEF f, g, left
      <3>1. CASE g = [f EXCEPT !.at = "posting", !.hook = w, !.list = left]
        BY <1>1, <3>1 DEF Frame
      <3>2. CASE g = [f EXCEPT !.list = left]
        BY <1>1, <3>2 DEF Frame
      <3>. QED  BY <1>4, <3>1, <3>2
    <2>2. Ongoing(f) /\ Ongoing(g)
      BY <1>1, <2>1 DEF Ongoing
    <2>3. n \in Nat /\ Cardinality(f.list) = n + 1
      <3>1. f.list \in SUBSET Hooks
        BY <1>1 DEF Frame
      <3>. QED  BY <1>1, <2>1, <3>1, Counts DEF TablesFinite
    <2>4. c \in Nat
      BY <1>1, Parts
    <2>5. OfMod(f) = c + 3 * (n + 1) + 2
      BY <1>1, <2>2, <2>3, Bounds
    <2>6. OfMod(g) = c + 3 * n + 2 \/ OfMod(g) = c + 3 * n + 4
      BY <1>1, <2>1, <2>2, Bounds
    <2>7. OfMod(g) < OfMod(f)
      <3> HIDE DEF c, n, f, g
      <3>. QED  BY <2>3, <2>4, <2>5, <2>6
    <2> HIDE DEF f, g
    <2>8. StepsLeft(g) < StepsLeft(f)
      BY <1>1, <2>1, <2>2, <2>7, SameMod
    <2>. QED  BY <2>8 DEF f, g
  <1>. QED  BY <1>2, <1>3, <1>4

LEMMA DeliverLess ==
    ASSUME TablesFinite, TypeInv, NEW p \in Processes, Job(p), Deliver(p)
    PROVE  StepsLeft(run'[p]) < StepsLeft(run[p])
  <1> DEFINE f == run[p]
             g == run'[p]
             c == Cardinality(f.where) * PerModset
             n == Cardinality(f.list)
  <1>1. /\ f \in Frame /\ g \in Frame /\ f.at = "posting"
        /\ g = [f EXCEPT !.at = "posted"]
    BY After DEF Deliver, At
  <1>2. g.at = "posted" /\ g.todo = f.todo /\ g.where = f.where /\ g.list = f.list
    BY <1>1 DEF Frame
  <1>3. Ongoing(f) /\ Ongoing(g)
    BY <1>1, <1>2 DEF Ongoing
  <1>4. c \in Nat /\ n \in Nat
    BY <1>1, Parts
  <1>5. OfMod(f) = c + 3 * n + 4 /\ OfMod(g) = c + 3 * n + 3
    BY <1>1, <1>2, <1>3, Bounds
  <1>6. OfMod(g) < OfMod(f)
    <2> HIDE DEF c, n
    <2>. QED  BY <1>4, <1>5
  <1> HIDE DEF f, g
  <1>7. StepsLeft(g) < StepsLeft(f)
    BY <1>1, <1>2, <1>3, <1>6, SameMod
  <1>. QED  BY <1>7 DEF f, g

LEMMA LastWebhookLess ==
    ASSUME TablesFinite, TypeInv, NEW p \in Processes, Job(p), LastWebhook(p)
    PROVE  StepsLeft(run'[p]) < StepsLeft(run[p])
  <1> DEFINE f == run[p]
             g == run'[p]
             c == Cardinality(f.where) * PerModset
             n == Cardinality(f.list)
  <1>1. /\ f \in Frame /\ g \in Frame /\ f.at = "notifying"
        /\ g = [Rest EXCEPT !.at = "modset", !.todo = f.todo,
                  !.mod = f.mod, !.where = f.where,
                  !.version = IF f.fresh THEN f.version ELSE 0]
    BY After DEF LastWebhook, NextModset, At
  <1>2. g.at = "modset" /\ g.todo = f.todo /\ g.where = f.where
    BY <1>1 DEF Rest
  <1>3. Ongoing(f) /\ Ongoing(g)
    BY <1>1, <1>2 DEF Ongoing
  <1>4. c \in Nat /\ n \in Nat
    BY <1>1, Parts
  <1>5. OfMod(f) = c + 3 * n + 2 /\ OfMod(g) = c + 1
    BY <1>1, <1>2, <1>3, Bounds
  <1>6. OfMod(g) < OfMod(f)
    <2> HIDE DEF c, n
    <2>. QED  BY <1>4, <1>5
  <1> HIDE DEF f, g
  <1>7. StepsLeft(g) < StepsLeft(f)
    BY <1>1, <1>2, <1>3, <1>6, SameMod
  <1>. QED  BY <1>7 DEF f, g

(* Every step of a run that goes on leaves it less to do. *)
LEMMA JobLess ==
    ASSUME TablesFinite, TypeInv, NEW p \in Processes, Job(p), Ongoing(run[p])
    PROVE  StepsLeft(run'[p]) < StepsLeft(run[p])
  <1> DEFINE Goal == StepsLeft(run'[p]) < StepsLeft(run[p])
  <1>0. run[p].at \notin {"idle", "down"}
    BY DEF Ongoing
  <1>1. CASE Finish(p) \/ DbError(p) \/ Crash(p)
    <2>1. run'[p] = Rest \/ run'[p] = [Rest EXCEPT !.at = "down"]
      BY <1>1, After DEF Finish, DbError, Crash
    <2>2. StepsLeft(run'[p]) = 0
      BY <2>1 DEF StepsLeft, Ongoing, Rest
    <2>3. run[p] \in Frame
      BY RunFrame
    <2>4. StepsLeft(run[p]) \in Nat \ {0}
      BY <2>3, Bounds
    <2>. QED  BY <2>2, <2>4
  <1>2. ASSUME FetchFails(p) \/ LastModset(p) PROVE Goal
    <2>1. NextMod(p) /\ run[p].at \in {"fetching", "modset"}
      BY <1>2 DEF FetchFails, LastModset, At
    <2>. QED  BY <2>1, NextModLess
  <1>3. ASSUME Refused(p) \/ TimedOut(p) \/ Record(p) \/ RecordFails(p) \/ RecordLost(p)
        PROVE  Goal
    <2>1. run[p].at \in Away /\ run[p].fresh \in BOOLEAN
      BY <1>3, RunFrame DEF Refused, TimedOut, Record, RecordFails, RecordLost, At, Away, Frame
    <2>2. NextMod(p) \/ \E b \in BOOLEAN : NextWebhook(p, b)
      BY <1>3, <2>1 DEF Refused, TimedOut, Record, RecordFails, RecordLost
    <2>3. run[p].at \in About
      BY <2>1 DEF About
    <2>. QED  BY <2>1, <2>2, <2>3, NextModLess, NextWebhookLess
  <1>4. ASSUME Start(p) \/ Restart(p) PROVE FALSE
    BY <1>0, <1>4 DEF Start, Restart, At
  <1>5. ASSUME Fetch(p) PROVE Goal
    BY <1>5, FetchLess
  <1>6. ASSUME Deliver(p) PROVE Goal
    BY <1>6, DeliverLess
  <1>7. ASSUME LastWebhook(p) PROVE Goal
    BY <1>7, LastWebhookLess
  <1>8. ASSUME NEW m \in Mods, TakeMod(p, m) PROVE Goal
    BY <1>8, TakeModLess
  <1>9. ASSUME NEW s \in Modsets, Consider(p, s) PROVE Goal
    BY <1>9, ConsiderLess
  <1>10. ASSUME NEW w \in Hooks, Target(p, w) PROVE Goal
    BY <1>10, TargetLess
  <1>11. ASSUME Finish(p) \/ DbError(p) \/ Crash(p) PROVE Goal
    BY <1>1, <1>11
  <1> HIDE DEF Goal
  <1>12. Goal
    BY <1>2, <1>3, <1>4, <1>5, <1>6, <1>7, <1>8, <1>9, <1>10, <1>11 DEF Job, Advance
  <1>. QED  BY <1>12 DEF Goal

Runs == \A p \in Processes : StepsLeft(run[p]) \in 0..(Cardinality(Mods) * PerMod + 1)

(* Nothing gives a run more: no other run, administrator or user.          *)
RunsRunOut ==
    [][\A p \in Processes : Ongoing(run[p]) =>
          /\ StepsLeft(run'[p]) <= StepsLeft(run[p])
          /\ Job(p) => StepsLeft(run'[p]) < StepsLeft(run[p])]_vars

LEMMA StartsBounded ==
    ASSUME TablesFinite, TypeInv, NEW p \in Processes, Job(p), ~Ongoing(run[p])
    PROVE  StepsLeft(run'[p]) \in 0..(Cardinality(Mods) * PerMod + 1)
  <1> DEFINE g == run'[p]
             a == Cardinality(g.todo) * PerMod
             b == Cardinality(Mods) * PerMod
  <1>0. run[p] \in Frame /\ g \in Frame /\ run[p].at \in {"idle", "down"}
    BY After DEF Ongoing
  <1>1. a \in Nat /\ b \in Nat /\ a <= b
    <2>1. /\ Cardinality(g.todo) \in 0..Cardinality(Mods) /\ Cardinality(Mods) \in Nat
          /\ PerMod \in Nat
      BY <1>0, Parts
    <2>. QED  BY <2>1, Times
  <1>2. CASE Start(p)
    <2> DEFINE t == {m \in Mods : \E s \in modsets : Tracked(s, m)}
    <2>1. g = [Rest EXCEPT !.at = "next", !.todo = t]
      BY <1>2, After DEF Start
    <2>2. g.at = "next"
      BY <2>1 DEF Rest
    <2>3. StepsLeft(g) = a + 0 + 1
      <3>1. Ongoing(g)
        BY <2>2 DEF Ongoing
      <3>. QED  BY <1>0, <2>2, <3>1, Bounds
    <2> HIDE DEF a, b, g
    <2>4. StepsLeft(g) \in 0..(b + 1)
      BY <1>1, <2>3
    <2>. QED  BY <2>4 DEF b, g
  <1>3. CASE Restart(p) \/ Crash(p)
    <2>1. g = Rest \/ g = [Rest EXCEPT !.at = "down"]
      BY <1>3, After DEF Restart, Crash
    <2>2. StepsLeft(g) = 0
      BY <2>1 DEF StepsLeft, Ongoing, Rest
    <2> HIDE DEF a, b, g
    <2>3. StepsLeft(g) \in 0..(b + 1)
      BY <1>1, <2>2
    <2>. QED  BY <2>3 DEF b, g
  <1>. QED
    BY <1>0, <1>2, <1>3 DEF Job, Advance, Finish, LastModset, LastWebhook, Record, RecordFails,
       TakeMod, Consider, Target, Fetch, FetchFails, Deliver, Refused, TimedOut, RecordLost,
       DbError, At

LEMMA InitRuns == TablesFinite /\ Init => Runs
  <1> SUFFICES ASSUME TablesFinite, Init PROVE Runs
    OBVIOUS
  <1>1. Cardinality(Mods) * PerMod \in Nat
    <2>1. Cardinality(Mods) \in Nat /\ PerMod \in Nat
      BY RestFrame, Parts
    <2>. QED  BY <2>1, Times
  <1>2. ASSUME NEW p \in Processes PROVE StepsLeft(run[p]) = 0
    <2>1. run[p].at = "idle"
      BY RestFrame DEF Init
    <2>. QED  BY <2>1 DEF StepsLeft, Ongoing
  <1> DEFINE b == Cardinality(Mods) * PerMod
  <1>3. 0 \in 0..(b + 1)
    <2>1. b \in Nat
      BY <1>1
    <2> HIDE DEF b
    <2>. QED  BY <2>1
  <1>. QED  BY <1>2, <1>3 DEF Runs

(* A step of one run changes that run alone. *)
LEMMA NextLess ==
    ASSUME TablesFinite, TypeInv, [Next]_vars
    PROVE  \A p \in Processes :
              /\ \/ run'[p] = run[p] \/ Job(p)
              /\ Job(p) /\ Ongoing(run[p]) => StepsLeft(run'[p]) < StepsLeft(run[p])
  <1>1. ASSUME NEW q \in Processes, Job(q), NEW p \in Processes \ {q} PROVE run'[p] = run[p]
    BY <1>1, After
  <1>2. CASE \E e \in Editors : Edit(e)
    <2>1. TypeOK
      BY DEF TypeInv
    <2>. QED  BY <1>2, <2>1, EditType, JobLess
  <1>3. CASE Others
    <2>1. UNCHANGED run
      BY <1>3 DEF Others, CreateWebhook, DeleteWebhook, DeleteModset, Track, RefreshElsewhere
    <2>. QED  BY <2>1, JobLess
  <1>4. CASE UNCHANGED vars
    BY <1>4, JobLess DEF vars
  <1>5. CASE \E q \in Processes : Job(q)
    BY <1>1, <1>5, JobLess
  <1>. QED  BY <1>2, <1>3, <1>4, <1>5 DEF Next

(* The scheduled refresh is over after boundedly many steps of its own,    *)
(* whatever other processes, administrators and Discord do meanwhile: it   *)
(* takes up every mod, modset and webhook once, and tries none again       *)
(* (services.py:216-263, discord_webhooks.py:100-154).                     *)
THEOREM RunsBounded == ASSUME TablesFinite PROVE Spec => []Runs /\ RunsRunOut
  <1>1. Init => TypeInv /\ Runs
    BY InitTypes, InitRuns
  <1>2. ASSUME TypeInv, [Next]_vars
        PROVE  [\A p \in Processes : Ongoing(run[p]) =>
                  /\ StepsLeft(run'[p]) <= StepsLeft(run[p])
                  /\ Job(p) => StepsLeft(run'[p]) < StepsLeft(run[p])]_vars
    <2>1. SUFFICES ASSUME NEW p \in Processes, Ongoing(run[p])
                   PROVE  /\ StepsLeft(run'[p]) <= StepsLeft(run[p])
                          /\ Job(p) => StepsLeft(run'[p]) < StepsLeft(run[p])
      OBVIOUS
    <2>2. run[p] \in Frame
      BY <1>2, RunFrame
    <2>3. StepsLeft(run[p]) \in Nat
      BY <2>1, <2>2, Bounds
    <2>4. CASE run'[p] = run[p]
      BY <1>2, <2>1, <2>3, <2>4, NextLess
    <2>5. CASE Job(p)
      <3>1. run'[p] \in Frame
        BY <1>2, <2>5, After
      <3>2. StepsLeft(run'[p]) \in Nat
        BY <3>1, Bounds DEF StepsLeft
      <3>. QED  BY <1>2, <2>1, <2>3, <2>5, <3>2, NextLess
    <2>. QED  BY <1>2, <2>4, <2>5, NextLess
  <1>3. ASSUME TypeInv, Runs, [Next]_vars PROVE Runs'
    <2>1. SUFFICES ASSUME NEW p \in Processes
                   PROVE  StepsLeft(run'[p]) \in 0..(Cardinality(Mods) * PerMod + 1)
      BY DEF Runs
    <2> DEFINE b == Cardinality(Mods) * PerMod
    <2>2. StepsLeft(run[p]) \in 0..(b + 1) /\ b \in Nat
      <3>1. Cardinality(Mods) \in Nat /\ PerMod \in Nat
        BY RestFrame, Parts
      <3>2. b \in Nat
        BY <3>1, Times
      <3>. QED  BY <1>3, <3>2 DEF Runs
    <2>3. CASE run'[p] = run[p]
      BY <2>2, <2>3
    <2>4. CASE Job(p) /\ ~Ongoing(run[p])
      BY <1>3, <2>4, StartsBounded
    <2>5. CASE Job(p) /\ Ongoing(run[p])
      <3>1. run'[p] \in Frame
        BY <1>3, <2>5, After
      <3>2. StepsLeft(run'[p]) \in Nat
        BY <3>1, Bounds DEF StepsLeft
      <3>3. StepsLeft(run'[p]) < StepsLeft(run[p])
        BY <1>3, <2>5, NextLess
      <3> HIDE DEF b
      <3>4. StepsLeft(run'[p]) \in 0..(b + 1)
        BY <2>2, <3>2, <3>3
      <3>. QED  BY <3>4 DEF b
    <2>. QED  BY <1>3, <2>3, <2>4, <2>5, NextLess
  <1>. QED  BY <1>1, <1>2, <1>3, NextTypes, PTL DEF Spec, RunsRunOut
=============================================================================
