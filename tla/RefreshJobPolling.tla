------------------------- MODULE RefreshJobPolling -------------------------
(***************************************************************************)
(* One browser tab that shows the refresh jobs of the selected modset      *)
(* (useRefreshJobs.ts): it polls them, asks for checks, and meanwhile its  *)
(* user switches modsets.  Answers come when they come.                    *)
(*                                                                         *)
(* Abstracted: one mod for each modset, and of its jobs only how many      *)
(* changes its row has seen (Stage): 0 without a job, odd while one is     *)
(* active, even after it.  External: the server, here one row per modset   *)
(* (RefreshJobs has what is behind it) that other tabs use, too.           *)
(***************************************************************************)
EXTENDS Naturals

CONSTANTS Scopes,      \* modsets the user may select
          Polls,       \* polls in flight, those of earlier selections included
          Requests,    \* requests for a check in flight
          MaxRequests, \* bound on requests
          MaxOthers,   \* bound on requests of other tabs
          MaxSwitches, \* bound on changes of the selected modset
          MaxLosses    \* bound on polls and requests that fail

ASSUME PollingOK ==
    Scopes # {} /\ {MaxRequests, MaxOthers, MaxSwitches, MaxLosses} \subseteq Nat

VARIABLES jobs,     \* jobs[s]: the stage of the mod in modset s, at the server
          scope,    \* the selected modset
          poll,     \* poll[p]: a poll in flight
          request,  \* request[r]: a request in flight
          mutations,\* mutationVersion
          snapshot, \* the jobs the tab has, and of which modset
          pending,  \* whether the mod is marked as being checked, and where
          strayed,  \* modsets whose request ended while another was selected
          uses      \* how much of each bound is used up

pollVars == <<jobs, scope, poll, request, mutations, snapshot, pending, strayed, uses>>

Active(stage) == stage % 2 = 1
Home == CHOOSE s \in Scopes : TRUE
NoPoll == [pc |-> "none", scope |-> Home, version |-> 0, live |-> FALSE, stage |-> 0]
NoRequest == [pc |-> "none", scope |-> Home, stage |-> 0]

PollingTypeOK ==
    /\ jobs \in [Scopes -> Nat]
    /\ scope \in Scopes
    /\ poll \in [Polls -> [pc : {"none", "asked", "answered"}, scope : Scopes,
                           version : Nat, live : BOOLEAN, stage : Nat]]
    /\ request \in [Requests -> [pc : {"none", "asked", "answered"}, scope : Scopes, stage : Nat]]
    /\ mutations \in Nat
    /\ snapshot \in [scope : Scopes, stage : Nat, loaded : BOOLEAN, error : BOOLEAN]
    /\ pending \in [scope : Scopes, on : BOOLEAN]
    /\ strayed \subseteq Scopes
    /\ uses \in [requests : 0..MaxRequests, others : 0..MaxOthers,
                 switches : 0..MaxSwitches, losses : 0..MaxLosses]

PollingInit ==
    /\ jobs = [s \in Scopes |-> 0]
    /\ scope = Home
    /\ poll = [p \in Polls |-> NoPoll]
    /\ request = [r \in Requests |-> NoRequest]
    /\ mutations = 0
    /\ snapshot = [scope |-> scope, stage |-> 0, loaded |-> FALSE, error |-> FALSE]
    /\ pending = [scope |-> scope, on |-> FALSE]
    /\ strayed = {}
    /\ uses = [requests |-> 0, others |-> 0, switches |-> 0, losses |-> 0]
-----------------------------------------------------------------------------
(* What the tab shows: getModRefreshState, and when the button is enabled. *)
Shown == IF snapshot.scope = scope THEN snapshot.stage ELSE 0
Loaded == snapshot.scope = scope /\ snapshot.loaded
Checking == (pending.scope = scope /\ pending.on) \/ Active(Shown)
Enabled == ~Checking /\ Loaded /\ ~snapshot.error

Asked(stage) == IF Active(stage) THEN stage ELSE stage + 1
-----------------------------------------------------------------------------
(* The timer, a focus or a request's end: one poll at a time (inFlight). *)
Ask(p) == /\ poll[p].pc = "none"
          /\ \A q \in Polls : poll[q].pc # "none" => ~poll[q].live
          /\ poll' = [poll EXCEPT ![p] = [pc |-> "asked", scope |-> scope, version |-> mutations,
                                          live |-> TRUE, stage |-> 0]]
          /\ UNCHANGED <<jobs, scope, request, mutations, snapshot, pending, strayed, uses>>

(* list_refresh_jobs, at the server. *)
List(p) == /\ poll[p].pc = "asked"
           /\ poll' = [poll EXCEPT ![p].pc = "answered", ![p].stage = jobs[poll[p].scope]]
           /\ UNCHANGED <<jobs, scope, request, mutations, snapshot, pending, strayed, uses>>

(* Mutant: it is not asked whether a request was made since. *)
CurrentSelection(p) == poll[p].live

(* disposed, currentScope and mutationVersion. *)
Current(p) == poll[p].live /\ poll[p].version = mutations

TakeJobs(p) ==
    /\ poll[p].pc = "answered"
    /\ snapshot' = IF Current(p)
                   THEN [scope |-> poll[p].scope, stage |-> poll[p].stage,
                         loaded |-> TRUE, error |-> FALSE]
                   ELSE snapshot
    /\ poll' = [poll EXCEPT ![p] = NoPoll]
    /\ UNCHANGED <<jobs, scope, request, mutations, pending, strayed, uses>>

(* The poll fails: the jobs of the same modset stay, with an error. *)
PollFails(p) ==
    /\ poll[p].pc # "none"
    /\ uses.losses < MaxLosses
    /\ uses' = [uses EXCEPT !.losses = @ + 1]
    /\ snapshot' = IF poll[p].live
                   THEN [scope |-> scope, stage |-> Shown, loaded |-> Loaded, error |-> TRUE]
                   ELSE snapshot
    /\ poll' = [poll EXCEPT ![p] = NoPoll]
    /\ UNCHANGED <<jobs, scope, request, mutations, pending, strayed>>

(* refreshMod up to the await. *)
RefreshMod(r) ==
    /\ request[r].pc = "none"
    /\ Enabled
    /\ uses.requests < MaxRequests
    /\ uses' = [uses EXCEPT !.requests = @ + 1]
    /\ request' = [request EXCEPT ![r] = [pc |-> "asked", scope |-> scope, stage |-> 0]]
    /\ mutations' = mutations + 1
    /\ pending' = [scope |-> scope, on |-> TRUE]
    /\ UNCHANGED <<jobs, scope, poll, snapshot, strayed>>

(* enqueue_refresh, at the server: a new job, or the active one. *)
Accept(r) ==
    LET s == request[r].scope
    IN /\ request[r].pc = "asked"
       /\ jobs' = [jobs EXCEPT ![s] = Asked(@)]
       /\ request' = [request EXCEPT ![r].pc = "answered", ![r].stage = jobs'[s]]
       /\ UNCHANGED <<scope, poll, mutations, snapshot, pending, strayed, uses>>

(* Mutant: a request that fails leaves its mark. *)
UnmarksAnswered(r) ==
    /\ pending' = IF request[r].scope = scope /\ request[r].pc = "answered"
                THEN [scope |-> scope, on |-> FALSE] ELSE pending
    /\ strayed' = IF request[r].scope = scope THEN strayed ELSE strayed \cup {request[r].scope}
    /\ request' = [request EXCEPT ![r] = NoRequest]

(* The end of refreshMod: the answer is passed over, and the mark stays,   *)
(* when another modset is selected (the mark has one modset only).         *)
Unmarks(r) ==
    /\ pending' = IF request[r].scope = scope THEN [scope |-> scope, on |-> FALSE] ELSE pending
    /\ strayed' = IF request[r].scope = scope THEN strayed ELSE strayed \cup {request[r].scope}
    /\ request' = [request EXCEPT ![r] = NoRequest]

Stores(r) ==
    IF request[r].scope = scope
    THEN /\ mutations' = mutations + 1
         /\ snapshot' = [scope |-> scope, stage |-> request[r].stage,
                         loaded |-> TRUE, error |-> FALSE]
    ELSE UNCHANGED <<mutations, snapshot>>

Answered(r) == /\ request[r].pc = "answered"
               /\ Stores(r)
               /\ Unmarks(r)
               /\ UNCHANGED <<jobs, scope, poll, uses>>

(* The request or its answer is lost. *)
RequestFails(r) == /\ request[r].pc # "none"
                   /\ uses.losses < MaxLosses
                   /\ uses' = [uses EXCEPT !.losses = @ + 1]
                   /\ Unmarks(r)
                   /\ UNCHANGED <<jobs, scope, poll, mutations, snapshot>>

(* The effect's clean-up: disposed. *)
Disposes == poll' = [p \in Polls |-> [poll[p] EXCEPT !.live = FALSE]]

Select(s) == /\ s # scope
             /\ uses.switches < MaxSwitches
             /\ uses' = [uses EXCEPT !.switches = @ + 1]
             /\ scope' = s
             /\ Disposes
             /\ UNCHANGED <<jobs, request, mutations, snapshot, pending, strayed>>
-----------------------------------------------------------------------------
(* Another tab asks for a check; a check ends. *)
Elsewhere(s) == /\ ~Active(jobs[s])
                /\ uses.others < MaxOthers
                /\ uses' = [uses EXCEPT !.others = @ + 1]
                /\ jobs' = [jobs EXCEPT ![s] = @ + 1]
                /\ UNCHANGED <<scope, poll, request, mutations, snapshot, pending, strayed>>

CheckEnds(s) == /\ Active(jobs[s])
                /\ jobs' = [jobs EXCEPT ![s] = @ + 1]
                /\ UNCHANGED <<scope, poll, request, mutations, snapshot, pending, strayed, uses>>

PollStep(p) == Ask(p) \/ List(p) \/ TakeJobs(p)
RequestStep(r) == Accept(r) \/ Answered(r)

PollingNext ==
    \/ \E p \in Polls : PollStep(p) \/ PollFails(p)
    \/ \E r \in Requests : RefreshMod(r) \/ RequestStep(r) \/ RequestFails(r)
    \/ \E s \in Scopes : Select(s) \/ Elsewhere(s) \/ CheckEnds(s)

PollingSpec == PollingInit /\ [][PollingNext]_pollVars
-----------------------------------------------------------------------------
(* While a modset stays selected, no poll puts an older state in the place *)
(* of the one shown, whatever was asked, answered or selected since the    *)
(* poll was sent.  (Only the answers to two requests can do so, until the  *)
(* next poll.)                                                             *)
NeverOlder == /\ mutations' = mutations
              /\ snapshot'.scope = snapshot.scope
              => snapshot'.stage >= snapshot.stage
PollNeverOlder == [][NeverOlder]_pollVars

(* In the end the tab shows what is on the server ("reconnects             *)
(* automatically after network failures", manual-refresh-upgrade.md:7),    *)
(* and marks nothing, so that the button is not disabled for good; but for *)
(* a request that ended while another modset was selected.                 *)
Settled == /\ snapshot = [scope |-> scope, stage |-> jobs[scope], loaded |-> TRUE, error |-> FALSE]
           /\ pending.scope = scope /\ pending.on => scope \in strayed
Settles == <>[]Settled
=============================================================================
