--------------------------- MODULE LoginProtection ---------------------------
(***************************************************************************)
(* The window of failed logins of one address and user name                *)
(* (login_protection.py, routers/auth.py:38-82).  Logins run in threads    *)
(* that share the dictionary of attempts and hold no lock: the check reads *)
(* the list, then puts a new one in its place, and the failure is appended *)
(* to the list that was found.  The lists of other keys are not touched.   *)
(*                                                                         *)
(* Abstracted: the clock, of which only the ages of attempts are kept.     *)
(***************************************************************************)
EXTENDS Naturals, FiniteSets

CONSTANTS Logins, \* threads that handle logins
          Limit,  \* FAILED_LOGIN_LIMIT
          Window, \* FAILED_LOGIN_WINDOW_SECONDS, in ticks
          MaxFailures \* bound on the logins that fail within a window

ASSUME LoginOK == Limit \in Nat \ {0} /\ Window \in Nat \ {0} /\ MaxFailures \in Nat

(* Attempts by age, those that are outside the window together. *)
Ages == 0..Window
Empty == [a \in Ages |-> 0]
(* Each attempt of a list is <<its age, its place among those of that age>>. *)
Marks(list) == UNION {{a} \X (1..list[a]) : a \in Ages}
Total(list) == Cardinality(Marks(list))
Young(list) == [list EXCEPT ![Window] = 0]
More(list) == [list EXCEPT ![0] = @ + 1]
Older(list) == [a \in Ages |-> IF a = 0 THEN 0
                               ELSE IF a = Window THEN list[a] + list[a - 1]
                               ELSE list[a - 1]]

VARIABLES login,    \* login[t]: where thread t is
          attempts, \* the list in _failed_logins; Empty when there is none
          kept,     \* kept[t]: the attempts t read that were young
          replaced, \* threads whose list is no longer the one in there
          crowd,    \* each login that goes on overlapped another
          failed,   \* the logins that failed within the window
          apart     \* those of them that overlapped no other, and that no
                    \* successful one has followed

loginVars == <<login, attempts, kept, replaced, crowd, failed, apart>>
history == <<crowd, failed, apart>>

LoginTypeOK ==
    /\ login \in [Logins -> {"out", "store", "verify", "fetch", "append"}]
    /\ attempts \in [Ages -> Nat]
    /\ kept \in [Logins -> [Ages -> Nat]]
    /\ replaced \subseteq {t \in Logins : login[t] = "append"}
    /\ crowd \in BOOLEAN
    /\ failed \in [Ages -> Nat]
    /\ apart \in [Ages -> Nat]

LoginInit == /\ login = [t \in Logins |-> "out"]
             /\ attempts = Empty
             /\ kept = [t \in Logins |-> Empty]
             /\ replaced = {}
             /\ crowd = FALSE
             /\ failed = Empty
             /\ apart = Empty
-----------------------------------------------------------------------------
LoginGoes(t, from, to) == login[t] = from /\ login' = [login EXCEPT ![t] = to]
Appending == {t \in Logins : login[t] = "append"}

Others(t) == {u \in Logins : u # t /\ login[u] # "out"}

(* Mutant: attempts outside the window count, too. *)
YoungAndOld(list) == list

Recent(list) == Young(list)

(* check_login_rate_limit reads the attempts in the window ... *)
Check(t) == /\ LoginGoes(t, "out", "store")
            /\ kept' = [kept EXCEPT ![t] = Recent(attempts)]
            /\ crowd' = (Others(t) # {})
            /\ UNCHANGED <<attempts, replaced, failed, apart>>

(* Mutant: one more than the limit. *)
RefusedAfter(list) == Total(list) > Limit

Refused(list) == Total(list) >= Limit

(* ... and puts them there as a new list, and refuses at the limit. *)
Store(t) == /\ LoginGoes(t, "store", IF Refused(kept[t]) THEN "out" ELSE "verify")
            /\ attempts' = kept[t]
            /\ kept' = [kept EXCEPT ![t] = Empty]
            /\ replaced' = Appending
            /\ UNCHANGED history

(* The password is right: clear_failed_logins. *)
Succeed(t) == /\ LoginGoes(t, "verify", "out")
              /\ attempts' = Empty
              /\ replaced' = Appending
              /\ apart' = Empty
              /\ UNCHANGED <<kept, crowd, failed>>

(* It is wrong: record_failed_login fetches the list ... *)
Fetch(t) == /\ LoginGoes(t, "verify", "append")
            /\ UNCHANGED <<attempts, kept, replaced, history>>

(* ... and appends to it, in vain when it was replaced. *)
Record(t) == /\ LoginGoes(t, "append", "out")
             /\ Total(failed) < MaxFailures
             /\ attempts' = IF t \in replaced THEN attempts ELSE More(attempts)
             /\ replaced' = replaced \ {t}
             /\ failed' = More(failed)
             /\ apart' = IF crowd THEN apart ELSE More(apart)
             /\ UNCHANGED <<kept, crowd>>

Tick == /\ attempts' = Older(attempts)
        /\ kept' = [t \in Logins |-> Older(kept[t])]
        /\ failed' = Young(Older(failed))
        /\ apart' = Young(Older(apart))
        /\ UNCHANGED <<login, replaced, crowd>>

LoginNext == \/ \E t \in Logins : Check(t) \/ Store(t) \/ Succeed(t) \/ Fetch(t) \/ Record(t)
             \/ Tick

LoginSpec == LoginInit /\ [][LoginNext]_loginVars
-----------------------------------------------------------------------------
(* The limit ("8 failed attempts per 60 seconds", README.md:54) holds of   *)
(* the logins that overlap no other: however those that do lose failures   *)
(* of each other, they lose none of these, so that no more of them fail    *)
(* within the window, after the last successful login, than the limit.     *)
FailuresBounded == Total(apart) <= Limit

(* Nobody is refused early: whoever finds as many attempts as the limit,   *)
(* really as many logins failed within the window.  Lists that are put     *)
(* back and appended to never count a failure twice.                       *)
RefusalsEarned ==
    [][\A t \in Logins : login[t] = "out" /\ login'[t] = "store" /\ Refused(kept'[t])
                          => Total(failed) >= Limit]_loginVars
=============================================================================
