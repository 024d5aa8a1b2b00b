----------------------------- MODULE MCServices -----------------------------
(***************************************************************************)
(* Three parts of the system that share no state: the migrations of a      *)
(* start, a request to the probe service and the polling of a browser tab. *)
(* Each behaviour runs one of them.                                        *)
(***************************************************************************)
EXTENDS Migrations, Probe, RefreshJobPolling

CONSTANTS p1, p2, m1, m2, l1, l2, r1

\* The schema of this version, and that of the first.
FirstSchema == {"webhook_url", "default modset"}
Schemas == {FirstSchema, DOMAIN Tables}

\* The choices of users that a backfill could undo.
Choices == {"discord_webhook_modsets", "active_modset_id"}

VARIABLE part

vars == <<part, migrationVars, probeVars, pollVars>>

Init ==
    /\ part \in {"migrations", "probe", "polling"}
    /\ MigrationsInit /\ ProbeInit /\ PollingInit
    /\ part # "migrations" => schema = FirstSchema /\ users
    /\ part # "probe" => ~keep
    /\ schema # FirstSchema => users

Migrating_(A) ==
    part = "migrations" /\ A /\ UNCHANGED <<part, probeVars, pollVars>>
Probing_(A) ==
    part = "probe" /\ A /\ UNCHANGED <<part, migrationVars, pollVars>>
Polling_(A) ==
    part = "polling" /\ A /\ UNCHANGED <<part, migrationVars, probeVars>>

Next == \/ Migrating_(MigrationsNext)
        \/ Probing_(ProbeNext)
        \/ Polling_(PollingNext)

(* Processes that are ended are started again (restart: unless-stopped).   *)
(* A probe's thread goes on, whatever the game server does.  The tab's     *)
(* timer fires, its polls and requests are answered unless they are lost,  *)
(* and checks end.  Users need do nothing.                                 *)
Spec ==
    /\ Init
    /\ [][Next]_vars
    /\ \A p \in Procs : WF_vars(Migrating_(Run(p)))
    /\ WF_vars(Probing_(Handles))
    /\ WF_vars(Polling_(\E p \in Polls : PollStep(p)))
    /\ WF_vars(Polling_(\E r \in Requests : RequestStep(r)))
    /\ WF_vars(Polling_(\E s \in Scopes : CheckEnds(s)))

(* What Settles says of a tab, when there is one. *)
TabSettles == part = "polling" => Settles
=============================================================================
