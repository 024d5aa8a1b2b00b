------------------------------- MODULE Probe -------------------------------
(***************************************************************************)
(* A request to the probe service (metadata_service.py): for each mod id,  *)
(* one after another, a game server is started in a directory of its own   *)
(* and its ServerData.json awaited.  Requests have a thread each and share *)
(* nothing, so that one stands for all: the next request may find a game   *)
(* server or directories the present one left, and does not look at them.  *)
(*                                                                         *)
(* Abstracted: the contents of the files and answers, and an id given      *)
(* twice or empty.  External: the game server, which writes the file when  *)
(* it likes, may be read in the middle of that, and exits when it likes.   *)
(***************************************************************************)
EXTENDS Naturals

CONSTANTS MaxIds,  \* bound on the ids of a request
          Timeout, \* TIMEOUT_SECONDS, in polls
          Settle   \* SETTLE_SECONDS, in polls

ASSUME ProbeOK == MaxIds \in Nat \ {0} /\ Timeout \in Nat /\ Settle \in Nat

VARIABLES step,   \* where the request is
          todo,   \* ids left to probe, the present one included
          server, \* the game server
          dirs,   \* directories of the request
          keep,   \* KEEP_WORKDIR, set in the environment of the service
          faults, \* what has failed the request: the profile directory, a
                  \* reading, SIGKILL or a removal
          file,   \* ServerData.json: none, torn (not JSON) or whole
          parsed, \* whether the last reading found the mod
          waited, \* polls since the server was started
          seen,   \* waited at the first sight of the file
          ended   \* how the present id, or the request, ended

probeVars == <<step, todo, server, dirs, keep, faults, file, parsed, waited, seen, ended>>

ProbeSteps == {"idle", "begin", "popen", "look", "seen", "poll", "reread", "sleep",
           "terminate", "wait", "killed", "clean"}
Unseen == Timeout + 1

ProbeTypeOK ==
    /\ step \in ProbeSteps
    /\ todo \in 0..MaxIds
    /\ server \in {"none", "running", "exited", "stuck"}
    /\ dirs \in 0..MaxIds
    /\ keep \in BOOLEAN
    /\ faults \subseteq {"mkdir", "look", "kill", "rmtree"}
    /\ file \in {"none", "torn", "whole"}
    /\ parsed \in BOOLEAN
    /\ waited \in 0..Timeout
    /\ seen \in 0..Unseen
    /\ ended \in {"ok", "missing", "invalid", "timeout", "failed"}

ProbeInit == /\ step = "idle"
             /\ todo = 0
             /\ server = "none"
             /\ dirs = 0
             /\ keep \in BOOLEAN
             /\ faults = {}
             /\ file = "none"
             /\ parsed = FALSE
             /\ waited = 0
             /\ seen = Unseen
             /\ ended = "ok"
-----------------------------------------------------------------------------
From(s, next) == step = s /\ step' = next
Exited == server = "exited"

Request == \E n \in 1..MaxIds :
           /\ From("idle", "begin")
           /\ todo' = n
           /\ ended' = "ok"
           /\ server' = "none"
           /\ dirs' = 0
           /\ faults' = {}
           /\ UNCHANGED <<keep, file, parsed, waited, seen>>

(* The request is answered: with the metadata of all ids, or 504 or 502    *)
(* for the first that failed.  A client that is gone changes nothing else. *)
Answers == step' = "idle" /\ todo' = 0

(* The binary is looked for and the directory made, with another for the   *)
(* profile in it.  Nothing removes the one when the other fails.           *)
Begin == /\ step = "begin"
         /\ \/ step' = "popen" /\ dirs' = dirs + 1 /\ UNCHANGED <<todo, ended, faults>>
            \/ Answers /\ ended' = "failed" /\ UNCHANGED <<dirs, faults>>
            \/ /\ Answers /\ ended' = "failed"
               /\ dirs' = dirs + 1 /\ faults' = faults \cup {"mkdir"}
         /\ file' = "none"
         /\ parsed' = FALSE
         /\ waited' = 0
         /\ seen' = Unseen
         /\ UNCHANGED <<server, keep>>

Popen == /\ \/ From("popen", "look") /\ server' = "running" /\ UNCHANGED ended
            \/ From("popen", "clean") /\ ended' = "failed" /\ UNCHANGED server
         /\ UNCHANGED <<todo, dirs, keep, faults, file, parsed, waited, seen>>

(* _read_server_data: whether the mod was found.  A file that does not     *)
(* parse is passed over, but raises when ignore_invalid is not set.        *)
Found == file = "whole"

(* The walk through the profile raises: the server is not ended.           *)
LookFails == /\ From("look", "clean")
             /\ ended' = "failed"
             /\ faults' = faults \cup {"look"}
             /\ UNCHANGED <<todo, server, dirs, keep, file, parsed, waited, seen>>

Look == /\ From("look", "seen")
        /\ waited < Timeout
        /\ parsed' = Found
        /\ UNCHANGED <<todo, server, dirs, keep, faults, file, waited, seen, ended>>

(* The file is settled when it was first seen long enough ago: that the    *)
(* set of ids seen has changed since is asked of a set of one id.          *)
Sight == /\ step = "seen"
         /\ seen' = IF parsed /\ seen = Unseen THEN waited ELSE seen
         /\ step' = IF parsed /\ seen # Unseen /\ waited - seen >= Settle
                    THEN "terminate" ELSE "poll"
         /\ UNCHANGED <<todo, server, dirs, keep, faults, file, parsed, waited, ended>>

(* Mutant: the reading before the exit is used again. *)
FoundBefore == parsed

FoundAfter == Found

(* After the exit every file must parse, those of dependencies included.   *)
Poll == /\ From("poll", IF Exited THEN "reread" ELSE "sleep")
        /\ UNCHANGED <<todo, server, dirs, keep, faults, file, parsed, waited, seen, ended>>

Reread == /\ From("reread", "clean")
          /\ parsed' = FoundAfter
          /\ \/ ended' = "invalid"
             \/ file # "torn" /\ ended' = IF parsed' THEN "ok" ELSE "missing"
          /\ UNCHANGED <<todo, server, dirs, keep, faults, file, waited, seen>>

(* Mutant: the sleeps are not counted. *)
Sleeps == UNCHANGED waited

Passes == waited' = waited + 1

Sleep == /\ From("sleep", "look")
         /\ Passes
         /\ UNCHANGED <<todo, server, dirs, keep, faults, file, parsed, seen, ended>>

(* The deadline has passed: a last look, then the server is ended. *)
Expire == /\ From("look", "terminate")
          /\ waited = Timeout
          /\ parsed' = Found
          /\ ended' = IF Found THEN "ok" ELSE "timeout"
          /\ UNCHANGED <<todo, server, dirs, keep, faults, file, waited, seen>>

(* _terminate: SIGTERM, and SIGKILL when it has not exited in 10 s. *)
Terminate == /\ From("terminate", IF Exited THEN "clean" ELSE "wait")
             /\ UNCHANGED <<todo, server, dirs, keep, faults, file, parsed, waited, seen, ended>>

Kills == /\ step' = "killed"
         /\ \/ server' = "exited" /\ UNCHANGED faults
            \/ server' = "stuck" /\ faults' = faults \cup {"kill"}

Wait == /\ step = "wait"
        /\ \/ step' = "clean" /\ server' = "exited" /\ UNCHANGED faults
           \/ Kills
        /\ UNCHANGED <<todo, dirs, keep, file, parsed, waited, seen, ended>>

(* A server the system cannot end even so: the second wait raises. *)
Killed == /\ From("killed", "clean")
          /\ ended' = IF Exited THEN ended ELSE "failed"
          /\ UNCHANGED <<todo, server, dirs, keep, faults, file, parsed, waited, seen>>

Retains == UNCHANGED <<dirs, faults>>
Deletes == \/ dirs' = dirs - 1 /\ UNCHANGED faults
           \/ UNCHANGED dirs /\ faults' = faults \cup {"rmtree"}

(* Mutant: only what succeeded is removed. *)
RemovesSuccess == IF keep \/ ended # "ok" THEN Retains ELSE Deletes

(* Errors of the removal are ignored. *)
Removes == IF keep THEN Retains ELSE Deletes

Clean == /\ step = "clean"
         /\ Removes
         /\ IF ended = "ok" /\ todo > 1 THEN step' = "begin" /\ todo' = todo - 1 ELSE Answers
         /\ server' = IF Exited THEN "none" ELSE server
         /\ UNCHANGED <<keep, file, parsed, waited, seen, ended>>
-----------------------------------------------------------------------------
(* The game server writes, exits after it, or is ended from outside. *)
Write == /\ server = "running"
         /\ file' \in {"torn", "whole"}
         /\ UNCHANGED <<step, todo, server, dirs, keep, faults, parsed, waited, seen, ended>>

Exit == /\ server = "running"
        /\ server' = "exited"
        /\ UNCHANGED <<step, todo, dirs, keep, faults, file, parsed, waited, seen, ended>>

Handles == \/ Begin \/ Popen \/ Look \/ LookFails \/ Sight \/ Poll \/ Reread \/ Sleep \/ Expire
           \/ Terminate \/ Wait \/ Killed \/ Clean

ProbeNext == Request \/ Handles \/ Write \/ Exit

ProbeSpec == ProbeInit /\ [][ProbeNext]_probeVars
-----------------------------------------------------------------------------
(* Whatever a request comes to, no game server outlives it unless reading  *)
(* the profile raised or the server survived SIGKILL; and its directories  *)
(* are gone ("deleted after each lookup unless debug retention is",        *)
(* README.md:191) unless they are kept, the profile directory could not be *)
(* made or a removal failed.                                               *)
ProbeCleaned ==
    step = "idle" => /\ server # "none" => faults \cap {"look", "kill"} # {}
                     /\ dirs > 0 => keep \/ faults \cap {"mkdir", "rmtree"} # {}

(* A server that wrote its file and exited is never reported to have left  *)
(* none, however late the file came: it is read again after the exit.      *)
LateFileTaken == step = "clean" /\ ended = "missing" => file # "whole"

(* Every request is answered, whatever its game servers do. *)
ProbeEnds == []<>(step = "idle")
=============================================================================
