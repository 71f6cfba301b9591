--------------------------- MODULE MCCompliance ---------------------------
(* Compliance on a small instance, with what users were told and did.      *)
EXTENDS Compliance

VARIABLES lastSet,   \* history: user -> the limit the user set last
          saveFailed \* history: a limit was not saved

mcVars == <<vars, lastSet, saveFailed>>

MCInit ==
    /\ Init
    /\ lastSet = [u \in Users |-> DefaultLimit]
    /\ saveFailed = FALSE

SetBy(u) == limits'[u] # limits[u] /\ restarts' = restarts

SaveFails == restarts' = restarts /\ limitVars' # limitVars /\ limitsFile' # limits'

MCNext ==
    /\ Next
    /\ lastSet' = [u \in Users |-> IF SetBy(u) THEN limits'[u] ELSE lastSet[u]]
    /\ saveFailed' = (saveFailed \/ SaveFails)

MCSpec == MCInit /\ [][MCNext]_mcVars

(* What the cache answers is what is on record: a credential that is still *)
(* valid has the level of the user's record (verify_kyc answers from the   *)
(* one, the checks of a transfer from the other).                          *)
CredentialAgreesWithRecord ==
    \A u \in Users : CredentialValid(u) => credential[u].level = record[u]

(* A user loses a level only by a restart, or by the answer to a           *)
(* verification that was under way when the higher level was recorded: a   *)
(* call that found the higher level on record never lowers it.             *)
LevelFallsOnlyByOverlap ==
    [][restarts' = restarts =>
          \A u \in Users : record'[u] < record[u] =>
              \E c \in Calls : /\ call[c].op = "verify" /\ call[c].user = u
                               /\ call[c].level = record'[u]
                               /\ call[c].found < record'[u]]_mcVars

(* A transfer that was let through had a clear verdict on its recipient    *)
(* that is in the audit trail; when the verdict came from the cache, it    *)
(* was less than the lifetime of a screening old.                          *)
PassesOnFreshVerdict ==
    answer.op = "passed" =>
        \E i \in DOMAIN audit : /\ audit[i].address = answer.address
                                /\ audit[i].status = "clear"
                                /\ answer.at < audit[i].at + ScreenLife

(* A limit a user set outlives a restart, unless some save failed.         *)
LimitOutlivesRestart == saveFailed \/ limits = lastSet

=============================================================================
