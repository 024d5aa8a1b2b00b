----------------------------- MODULE Notifications -----------------------------
(***************************************************************************)
(* The scheduled refresh and the Discord alerts it sends (scheduler.py,    *)
(* refresh_all_mods and refresh_mod_for_all_modsets of services.py,        *)
(* discord_webhooks.py), with the administrators who change webhooks and   *)
(* the other requests that change what is tracked.                         *)
(*                                                                         *)
(* Every process has one scheduler, which runs its job one at a time.  A   *)
(* run awaits the Workshop and Discord between its database statements.    *)
(* Only the scheduled run sends alerts: every other caller of refresh_mod  *)
(* and update_user_mod leaves send_update_notifications FALSE, and is      *)
(* here by its effect on the tables (Track, RefreshElsewhere).             *)
(*                                                                         *)
(* Abstracted: names, addresses, payloads; an installed version by how it  *)
(* compares with the latest one ("odd" if compare_versions raises for it); *)
(* the dependencies a refresh tracks on the way (ModTracking).             *)
(***************************************************************************)
EXTENDS Naturals

CONSTANTS Processes,  \* backend processes, one scheduler each
          Editors,    \* requests that update a webhook
          Hooks,      \* ids of webhooks
          Modsets,    \* ids of modsets; there are others, so none is the last
          Mods,
          Changes,    \* the payloads of an update that are tried
          MaxVersion, \* bound on the versions the Workshop publishes
          MaxEdits,   \* bound on the changes of administrators and users
          MaxFaults,  \* bound on exits, database errors and lost answers
          Nothing     \* no webhook, no modset, no mod

Versions == 1..MaxVersion
Keys == Hooks \X Modsets \X Mods \X Versions
Omitted == "omitted"
AllChanges == [active : {Omitted, "on", "off"}, replace : BOOLEAN,
               selection : SUBSET Modsets]

ASSUME NotificationsOK ==
    /\ Nothing \notin Hooks \cup Modsets \cup Mods
    /\ Changes \subseteq AllChanges
    /\ MaxVersion \in Nat \ {0}
    /\ MaxEdits \in Nat
    /\ MaxFaults \in Nat

VARIABLES hook,       \* tables discord_webhooks and discord_webhook_modsets
          modsets,    \* table modsets
          track,      \* track[s, m]: the row of user_mods, compared with latest
          latest,     \* latest[m]: latest_version of table mods
          deliveries, \* table discord_webhook_deliveries
          run,        \* run[p]: what the job of process p is doing
          edit,       \* edit[e]: the update of a webhook e has loaded
          received,   \* alerts Discord got
          repeated,   \* alerts Discord got again
          excused,    \* alerts that were sent but not recorded by a fault
          chosen,     \* chosen[w]: the modsets selected last for w
          mixed,      \* webhooks whose selections overlapped
          edits, faults

hooks == <<hook, edit, chosen, mixed>>
tracking == <<modsets, track, latest>>
alerts == <<received, repeated, excused>>
vars == <<hook, modsets, track, latest, deliveries, run, edit,
          received, repeated, excused, chosen, mixed, edits, faults>>

Webhook == [state : {"absent", "live", "deleted"}, active : {"on", "off"},
            scope : SUBSET Modsets]
Tracking == {"untracked", "no_version", "current", "outdated", "odd"}

Frame == [at : {"down", "idle", "next", "fetching", "modset", "notifying",
                "posting", "posted"},
          todo : SUBSET Mods, mod : Mods \cup {Nothing},
          where : SUBSET Modsets, modset : Modsets \cup {Nothing},
          version : 0..MaxVersion, list : SUBSET Hooks, targets : SUBSET Hooks,
          fresh : BOOLEAN, hook : Hooks \cup {Nothing}]
Rest == [at |-> "idle", todo |-> {}, mod |-> Nothing, where |-> {},
         modset |-> Nothing, version |-> 0, list |-> {}, targets |-> {},
         fresh |-> FALSE, hook |-> Nothing]

Editing == [hook : Hooks \cup {Nothing}, seen : Webhook, change : AllChanges,
            crossed : BOOLEAN]
NoHook == [state |-> "absent", active |-> "off", scope |-> {}]
NoEdit == [hook |-> Nothing, seen |-> NoHook, crossed |-> FALSE,
           change |-> [active |-> Omitted, replace |-> FALSE, selection |-> {}]]

TypeOK == /\ hook \in [Hooks -> Webhook]
          /\ modsets \subseteq Modsets
          /\ track \in [Modsets \X Mods -> Tracking]
          /\ latest \in [Mods -> Versions]
          /\ deliveries \subseteq Keys
          /\ run \in [Processes -> Frame]
          /\ edit \in [Editors -> Editing]
          /\ received \subseteq Keys
          /\ repeated \subseteq Keys
          /\ excused \subseteq Keys
          /\ chosen \in [Hooks -> SUBSET Modsets]
          /\ mixed \subseteq Hooks
          /\ edits \in 0..MaxEdits
          /\ faults \in 0..MaxFaults

(* Webhooks may be there from the start, for all modsets. *)
Init == /\ hook \in [Hooks -> {NoHook, [state |-> "live", active |-> "on",
                                       scope |-> Modsets]}]
        /\ modsets = Modsets
        /\ \E t \in {"untracked", "outdated"} :
              track = [x \in Modsets \X Mods |-> t]
        /\ latest = [m \in Mods |-> 1]
        /\ deliveries = {}
        /\ run = [p \in Processes |-> Rest]
        /\ edit = [e \in Editors |-> NoEdit]
        /\ received = {}
        /\ repeated = {}
        /\ excused = {}
        /\ chosen = [w \in Hooks |-> hook[w].scope]
        /\ mixed = {}
        /\ edits = 0
        /\ faults = 0

Live(w) == hook[w].state = "live"
Tracked(s, m) == s \in modsets /\ track[<<s, m>>] # "untracked"
At(p, place) == run[p].at = place
Edited == edits < MaxEdits /\ edits' = edits + 1
Fault == faults < MaxFaults /\ faults' = faults + 1
-----------------------------------------------------------------------------
(* Administrators: create_webhook (without a selection, all modsets).      *)
CreateWebhook(w, active, selection) ==
    /\ hook[w].state = "absent"
    /\ selection \subseteq modsets
    /\ hook' = [hook EXCEPT ![w] = [state |-> "live", active |-> active,
                                    scope |-> selection]]
    /\ chosen' = [chosen EXCEPT ![w] = selection]
    /\ Edited
    /\ UNCHANGED <<tracking, deliveries, run, edit, alerts, mixed, faults>>

(* delete_webhook; the delivery rows go with it. *)
DeleteWebhook(w) ==
    /\ Live(w)
    /\ hook' = [hook EXCEPT ![w] = [NoHook EXCEPT !.state = "deleted"]]
    /\ deliveries' = {k \in deliveries : k[1] # w}
    /\ Edited
    /\ UNCHANGED <<tracking, run, edit, alerts, chosen, mixed, faults>>

(* update_webhook loads the row and its modsets, and checks that the       *)
(* selected modsets exist.                                                 *)
LoadWebhook(e, w, c) ==
    /\ edit[e] = NoEdit
    /\ Live(w)
    /\ c.replace => c.selection \subseteq modsets
    /\ edit' = [edit EXCEPT ![e] = [hook |-> w, seen |-> hook[w],
                                    crossed |-> FALSE, change |-> c]]
    /\ Edited
    /\ UNCHANGED <<tracking, deliveries, run, hook, alerts, chosen, mixed, faults>>

(* Mutant: nothing is unlinked. *)
UnlinkedNothing(q) == {}

(* The modsets a commit unlinks and links: the difference of the selection *)
(* and the scope that was loaded.                                          *)
Unlinked(q) == IF q.change.replace THEN q.seen.scope \ q.change.selection ELSE {}

Linked(q) == IF q.change.replace THEN q.change.selection \ q.seen.scope ELSE {}

(* Other updates of w under way have loaded a scope that is replaced now.  *)
Crossing(e, w) == [f \in Editors |->
                     IF f = e THEN NoEdit
                     ELSE [edit[f] EXCEPT
                             !.crossed = edit[f].crossed \/ edit[f].hook = w]]

(* The commit of update_webhook. *)
CommitWebhook(e) ==
    LET q == edit[e]
        w == q.hook
        c == q.change
    IN /\ w # Nothing /\ Live(w)
       /\ Linked(q) \subseteq modsets
       /\ Linked(q) \cap hook[w].scope = {}
       /\ hook' = [hook EXCEPT ![w] =
            [hook[w] EXCEPT
               !.active = IF c.active \in {Omitted, q.seen.active}
                          THEN hook[w].active ELSE c.active,
               !.scope = (hook[w].scope \ Unlinked(q)) \cup Linked(q)]]
       /\ IF c.replace
          THEN /\ edit' = Crossing(e, w)
               /\ chosen' = [chosen EXCEPT ![w] = c.selection]
               /\ mixed' = IF q.crossed THEN mixed \cup {w} ELSE mixed \ {w}
          ELSE /\ edit' = [edit EXCEPT ![e] = NoEdit]
               /\ UNCHANGED <<chosen, mixed>>
       /\ UNCHANGED <<tracking, deliveries, run, alerts, edits, faults>>

(* The commit fails: the webhook or a modset is gone, or a link is already *)
(* there or already gone (which the driver may also pass over).            *)
FailWebhook(e) ==
    LET q == edit[e]
        w == q.hook
    IN /\ w # Nothing
       /\ \/ ~Live(w)
          \/ ~(Linked(q) \subseteq modsets)
          \/ Linked(q) \cap hook[w].scope # {}
          \/ ~(Unlinked(q) \subseteq hook[w].scope)
       /\ edit' = [edit EXCEPT ![e] = NoEdit]
       /\ UNCHANGED <<hook, tracking, deliveries, run, alerts, chosen, mixed,
                      edits, faults>>
-----------------------------------------------------------------------------
(* Other requests: a modset is deleted, with the rows that refer to it.    *)
DeleteModset(s) ==
    /\ s \in modsets
    /\ modsets' = modsets \ {s}
    /\ track' = [t \in Modsets \X Mods |->
                   IF t[1] = s THEN "untracked" ELSE track[t]]
    /\ hook' = [w \in Hooks |-> [hook[w] EXCEPT !.scope = hook[w].scope \ {s}]]
    /\ deliveries' = {k \in deliveries : k[2] # s}
    /\ Edited
    /\ UNCHANGED <<latest, run, edit, alerts, chosen, mixed, faults>>

(* A mod is tracked, untracked, or another version is installed. *)
Track(s, m, status) ==
    /\ s \in modsets
    /\ track[<<s, m>>] # status
    /\ track' = [track EXCEPT ![<<s, m>>] = status]
    /\ Edited
    /\ UNCHANGED <<hooks, modsets, latest, deliveries, run, alerts, faults>>

(* compare_versions: how an installed version may compare with version v   *)
(* that compares as status with version now.                               *)
Compared(status, now, v) ==
    {status} \cup IF (status = "current" /\ v > now) \/ (status = "outdated" /\ v < now)
                 THEN {"current", "outdated"} ELSE {}

(* upsert_scraped_mod stores what the page says, which may be an older     *)
(* version again ("the Workshop pages can lag behind", README.md:175).       *)
Upsert(m, v) ==
    /\ latest' = [latest EXCEPT ![m] = v]
    /\ \E turned \in SUBSET modsets :
         /\ \A s \in turned : Compared(track[<<s, m>>], latest[m], v) = {"current", "outdated"}
         /\ track' = [t \in Modsets \X Mods |->
                        IF t[1] \in turned /\ t[2] = m
                        THEN IF track[t] = "current" THEN "outdated" ELSE "current"
                        ELSE track[t]]
    /\ UNCHANGED modsets

(* Any other refresh stores another version, and alerts nobody. *)
RefreshElsewhere(m) ==
    /\ \E s \in modsets : track[<<s, m>>] # "untracked"
    /\ \E v \in Versions \ {latest[m]} : Upsert(m, v)
    /\ Edited
    /\ UNCHANGED <<hooks, deliveries, run, alerts, faults>>
-----------------------------------------------------------------------------
(* The job of process p. *)
Put(p, frame) == run' = [run EXCEPT ![p] = frame]

(* One mod is over, refreshed or in the result's "failed". *)
NextMod(p) == Put(p, [Rest EXCEPT !.at = "next", !.todo = run[p].todo])

(* A commit expires the version that was loaded. *)
NextModset(p) ==
    Put(p, [Rest EXCEPT !.at = "modset", !.todo = run[p].todo,
              !.mod = run[p].mod, !.where = run[p].where,
              !.version = IF run[p].fresh THEN run[p].version ELSE 0])

(* The time has come: the run is recorded and the tracked mods are listed. *)
Start(p) ==
    /\ At(p, "idle")
    /\ Put(p, [Rest EXCEPT !.at = "next",
                 !.todo = {m \in Mods : \E s \in modsets : Tracked(s, m)}])
    /\ UNCHANGED <<hooks, tracking, deliveries, alerts, edits, faults>>

TakeMod(p, m) ==
    /\ At(p, "next")
    /\ m \in run[p].todo
    /\ Put(p, [Rest EXCEPT !.at = "fetching", !.mod = m,
                              !.todo = run[p].todo \ {m}])
    /\ UNCHANGED <<hooks, tracking, deliveries, alerts, edits, faults>>

(* The result is stored in the row of the run. *)
Finish(p) ==
    /\ At(p, "next")
    /\ run[p].todo = {}
    /\ Put(p, Rest)
    /\ UNCHANGED <<hooks, tracking, deliveries, alerts, edits, faults>>

(* The Workshop page is stored and the modsets of the mod are listed. *)
Fetch(p) ==
    LET m == run[p].mod
    IN /\ At(p, "fetching")
       /\ \E v \in Versions : Upsert(m, v)
       /\ Put(p, [run[p] EXCEPT !.at = "modset",
                    !.where = {s \in modsets : Tracked(s, m)}])
       /\ UNCHANGED <<hooks, deliveries, alerts, edits, faults>>

FetchFails(p) == /\ At(p, "fetching")
                 /\ NextMod(p)
                 /\ UNCHANGED <<hooks, tracking, deliveries, alerts, edits, faults>>

LastModset(p) == /\ At(p, "modset")
                 /\ run[p].where = {}
                 /\ NextMod(p)
                 /\ UNCHANGED <<hooks, tracking, deliveries, alerts, edits, faults>>

(* The active webhooks. *)
Listed == {w \in Hooks : Live(w) /\ hook[w].active = "on"}

(* get_mod_read of one modset, and what notify_update_available does before *)
(* its first post.  The latest version may be the one an earlier modset has *)
(* loaded (version), with which the installed one compares otherwise.       *)
(* get_mod_read raises for an "odd" version, and so ends the mod, its other *)
(* modsets included.                                                        *)
Consider(p, s) ==
    LET m == run[p].mod
        rest == run[p].where \ {s}
    IN /\ At(p, "modset")
       /\ s \in run[p].where
       /\ IF ~Tracked(s, m) THEN Put(p, [run[p] EXCEPT !.where = rest])
          ELSE IF track[<<s, m>>] = "odd" THEN NextMod(p)
          ELSE \E v \in {run[p].version, latest[m]} \ {0} :
               \E status \in Compared(track[<<s, m>>], latest[m], v) :
                 \/ /\ status # "outdated"
                    /\ Put(p, [run[p] EXCEPT !.where = rest, !.version = v])
                 \/ /\ status = "outdated"
                    /\ Put(p, [run[p] EXCEPT
                         !.at = "notifying", !.where = rest, !.modset = s,
                         !.version = v, !.list = Listed, !.fresh = TRUE,
                         !.targets = {w \in Listed : s \in hook[w].scope}])
       /\ UNCHANGED <<hooks, tracking, deliveries, alerts, edits, faults>>

LastWebhook(p) == /\ At(p, "notifying")
                  /\ run[p].list = {}
                  /\ NextModset(p)
                  /\ UNCHANGED <<hooks, tracking, deliveries, alerts, edits, faults>>

(* Mutant: the ids are swapped. *)
AlertSwapped(p, w) == <<run[p].modset, w, run[p].mod, run[p].version>>

(* The alert that p sends to w. *)
Alert(p, w) == <<w, run[p].modset, run[p].mod, run[p].version>>

Sending(p) == run[p].at \in {"posting", "posted"}
Current(p) == Alert(p, run[p].hook)

(* _webhook_targets_modset: the modsets listed with the webhooks, or, as a  *)
(* commit expires them, those of the moment.                                *)
Targets(p, w) == IF run[p].fresh THEN w \in run[p].targets
                 ELSE run[p].modset \in hook[w].scope

(* Mutant: no look at the delivery rows. *)
DeliveryMissed(k) == FALSE

(* Mutant: the version is not compared. *)
DeliveryOfAnyVersion(k) == \E d \in deliveries : <<d[1], d[2], d[3]>> = <<k[1], k[2], k[3]>>

(* _delivery_exists. *)
DeliveryExists(k) == k \in deliveries

(* The next webhook is looked at, and the post to it begins.  A webhook    *)
(* that is gone when it must be loaded again ends the mod.                 *)
Target(p, w) ==
    LET k == Alert(p, w)
    IN /\ At(p, "notifying")
       /\ w \in run[p].list
       /\ IF ~run[p].fresh /\ ~Live(w)
          THEN NextMod(p) /\ UNCHANGED excused
          ELSE IF Targets(p, w) /\ ~DeliveryExists(k)
          THEN /\ Put(p, [run[p] EXCEPT !.at = "posting", !.hook = w,
                                        !.list = run[p].list \ {w}])
               /\ excused' = IF \E q \in Processes \ {p} : Sending(q) /\ Current(q) = k
                             THEN excused \cup {k} ELSE excused
          ELSE /\ Put(p, [run[p] EXCEPT !.list = run[p].list \ {w}])
               /\ UNCHANGED excused
       /\ UNCHANGED <<hooks, tracking, deliveries, received, repeated, edits, faults>>

(* Discord takes the alert; its answer is under way. *)
Deliver(p) ==
    /\ At(p, "posting")
    /\ Put(p, [run[p] EXCEPT !.at = "posted"])
    /\ received' = received \cup {Current(p)}
    /\ repeated' = repeated \cup ({Current(p)} \cap received)
    /\ UNCHANGED <<hooks, tracking, deliveries, excused, edits, faults>>

NextWebhook(p, fresh) ==
    Put(p, [run[p] EXCEPT !.at = "notifying", !.hook = Nothing, !.fresh = fresh])

(* Mutant: the delivery is recorded all the same. *)
RefusedRecorded(p) == /\ At(p, "posting")
                      /\ NextWebhook(p, run[p].fresh)
                      /\ deliveries' = deliveries \cup {Current(p)}
                      /\ UNCHANGED <<hooks, tracking, alerts, edits, faults>>

(* Discord cannot be reached or refuses: logged, not recorded. *)
Refused(p) == /\ At(p, "posting")
              /\ NextWebhook(p, run[p].fresh)
              /\ UNCHANGED <<hooks, tracking, deliveries, alerts, edits, faults>>

(* The answer does not arrive within 12 s: taken for a refusal. *)
TimedOut(p) == /\ At(p, "posted")
               /\ Fault
               /\ excused' = excused \cup {Current(p)}
               /\ NextWebhook(p, run[p].fresh)
               /\ UNCHANGED <<hooks, tracking, deliveries, received, repeated, edits>>

(* The delivery row refers to the webhook and the modset, and is unique.   *)
Recordable(k) == Live(k[1]) /\ k[2] \in modsets /\ k \notin deliveries

Record(p) == /\ At(p, "posted")
             /\ Recordable(Current(p))
             /\ deliveries' = deliveries \cup {Current(p)}
             /\ NextWebhook(p, FALSE)
             /\ UNCHANGED <<hooks, tracking, alerts, edits, faults>>

(* The row is refused and rolled back; logging needs the webhook again.    *)
RecordFails(p) ==
    /\ At(p, "posted")
    /\ ~Recordable(Current(p))
    /\ IF Live(run[p].hook) THEN NextWebhook(p, FALSE) ELSE NextMod(p)
    /\ UNCHANGED <<hooks, tracking, deliveries, alerts, edits, faults>>

(* The commit fails for a reason of the database. *)
RecordLost(p) == /\ At(p, "posted")
                 /\ Fault
                 /\ excused' = excused \cup {Current(p)}
                 /\ IF Live(run[p].hook) THEN NextWebhook(p, FALSE) ELSE NextMod(p)
                 /\ UNCHANGED <<hooks, tracking, deliveries, received, repeated, edits>>

(* Any other failing statement or commit: nothing rolls the session back,   *)
(* so every later mod fails, and so does storing the result.                *)
DbError(p) == /\ run[p].at \in {"next", "fetching", "modset", "notifying"}
              /\ Fault
              /\ Put(p, Rest)
              /\ UNCHANGED <<hooks, tracking, deliveries, alerts, edits>>

(* The process ends; what is not in a table is lost. *)
Crash(p) == /\ ~At(p, "down")
            /\ Fault
            /\ Put(p, [Rest EXCEPT !.at = "down"])
            /\ excused' = IF At(p, "posted") THEN excused \cup {Current(p)} ELSE excused
            /\ UNCHANGED <<hooks, tracking, deliveries, received, repeated, edits>>

Restart(p) == /\ At(p, "down")
              /\ Put(p, Rest)
              /\ UNCHANGED <<hooks, tracking, deliveries, alerts, edits, faults>>
-----------------------------------------------------------------------------
Advance(p) == \/ Start(p) \/ Finish(p) \/ LastModset(p) \/ LastWebhook(p)
              \/ Record(p) \/ RecordFails(p) \/ Restart(p)
              \/ \E m \in Mods : TakeMod(p, m)
              \/ \E s \in Modsets : Consider(p, s)
              \/ \E w \in Hooks : Target(p, w)
Job(p) == \/ Advance(p)
          \/ Fetch(p) \/ FetchFails(p) \/ Deliver(p) \/ Refused(p) \/ TimedOut(p)
          \/ RecordLost(p) \/ DbError(p) \/ Crash(p)

Edit(e) == \/ CommitWebhook(e) \/ FailWebhook(e)
           \/ \E w \in Hooks, c \in Changes : LoadWebhook(e, w, c)

Others == \/ \E w \in Hooks, a \in {"on", "off"}, x \in SUBSET Modsets :
                CreateWebhook(w, a, x)
          \/ \E w \in Hooks : DeleteWebhook(w)
          \/ \E s \in Modsets : DeleteModset(s)
          \/ \E s \in Modsets, m \in Mods, t \in Tracking : Track(s, m, t)
          \/ \E m \in Mods : RefreshElsewhere(m)

Next == (\E p \in Processes : Job(p)) \/ (\E e \in Editors : Edit(e)) \/ Others

Spec == Init /\ [][Next]_vars

(* The scheduler and its thread go on; a page that is fetched again and    *)
(* again is fetched once, and a webhook that is posted to again and again  *)
(* takes an alert once.                                                    *)
FairSpec == /\ Spec
            /\ \A p \in Processes :
                 /\ WF_vars(Advance(p))
                 /\ WF_vars(FetchFails(p))
                 /\ WF_vars(Refused(p))
                 /\ \A m \in Mods : SF_vars(Fetch(p) /\ run[p].mod = m)
                 /\ \A w \in Hooks : SF_vars(Deliver(p) /\ run[p].hook = w)
-----------------------------------------------------------------------------
(* A delivery row says that Discord got the alert: the row keeps the alert *)
(* from being sent, so a row without an alert would silence it for good.   *)
DeliveriesReceived == deliveries \subseteq received

(* "alerts are deduplicated per webhook, modset, mod, and latest version"  *)
(* (README.md:65): none is repeated while webhook and modset exist, except *)
(* one whose row was lost to an exit, a late answer or the database, or    *)
(* that two processes were sending at the same time.                       *)
SentOnce == \A k \in repeated :
              k \in excused \/ hook[k[1]].state = "deleted" \/ k[2] \notin modsets

(* A webhook's alerts "only fire for the modsets you choose" (README.md:30): *)
(* its modsets are the last selection, but for deleted ones, unless updates  *)
(* of the webhook overlapped.                                                *)
ScopeChosen == \A w \in Hooks \ mixed :
                 Live(w) => hook[w].scope = chosen[w] \cap modsets

(* The alert is due: its modset is tracked in a state that get_mod_read     *)
(* can tell, and the webhook is active and targets it.                      *)
Due(w, s, m, v) ==
    /\ Live(w) /\ hook[w].active = "on" /\ s \in hook[w].scope
    /\ track[<<s, m>>] = "outdated" /\ latest[m] = v
    /\ \A t \in modsets : track[<<t, m>>] # "odd"

(* An update that stays available is announced: alerts that fail are sent  *)
(* by a later run.  Only a modset in which the mod has an "odd" version    *)
(* can keep it from the others.                                            *)
Announced == \A w \in Hooks, s \in Modsets, m \in Mods, v \in Versions :
               <>[]Due(w, s, m, v) => <>(<<w, s, m, v>> \in deliveries)
=============================================================================
