---------------------------- MODULE SecondFactor ----------------------------
(***************************************************************************)
(* Signing in with a second factor: the password step, enrolment of an     *)
(* authenticator, one-time codes, recovery codes, lockout and the          *)
(* administrator's reset (api/src/auth), for one account whose role        *)
(* requires MFA.                                                           *)
(*                                                                         *)
(* Every handler reads the account row, decides on that snapshot, and      *)
(* then commits one transaction; the requests of two tabs interleave at    *)
(* that point.  The transaction's guarded UPDATE takes the row lock, the   *)
(* challenge is claimed in Redis inside it, and a refusal rolls the        *)
(* database back (Redis keeps the claim).  A request refused by a guard or *)
(* by the rate limiter changes nothing and is not a step.                  *)
(***************************************************************************)
EXTENDS Integers, FiniteSets

CONSTANTS
    MfaRequests,      \* requests that may be under way at once
    Challenges,       \* challenge tokens the password step can sign
    NoChallenge,      \* the actor holds an access token instead
    LoginMaxAttempts, \* LOGIN_MAX_ATTEMPTS
    MaxResets,        \* bound: times the replay mark is cleared
    MaxTotpStep       \* bound: 30-second steps that pass

ASSUME SecondFactorAssumption ==
    /\ NoChallenge \notin Challenges
    /\ LoginMaxAttempts \in Nat \ {0}
    /\ MaxResets \in Nat /\ MaxTotpStep \in Nat

VARIABLES
    account,          \* the app_user row
    challenges,       \* per challenge token: unsigned, live or expired
    claimed,          \* challenge ids on the Redis denylist
    recoveryCodes,    \* rows of mfa_recovery_code, a batch per confirmation
    inFlight,         \* per request: what it read, or NoRequest
    totpNow,          \* the current 30-second step
    signedIn,         \* history: the sessions issued, each with its evidence
    resets            \* history: how often the replay mark was cleared; the
                      \* secret and the batch of recovery codes made next
                      \* are numbered by it

mfaVars == <<account, challenges, claimed, recoveryCodes, inFlight, totpNow,
             signedIn, resets>>

NoStep == -1
NoSecret == 0
NoRequest == [kind |-> "none"]

Fresh == [enrolled |-> FALSE, secret |-> NoSecret, lastUsedStep |-> NoStep,
          failed |-> 0, locked |-> FALSE]

(* The account is new, or somebody enrolled on it long ago.                *)
MfaInit ==
    /\ \/ account = Fresh /\ recoveryCodes = {} /\ resets = 0
       \/ /\ account = [Fresh EXCEPT !.enrolled = TRUE, !.secret = 1]
          /\ recoveryCodes = {[batch |-> 0, used |-> FALSE]}
          /\ resets = 0
    /\ challenges = [c \in Challenges |-> "unsigned"]
    /\ claimed = {}
    /\ inFlight = [r \in MfaRequests |-> NoRequest]
    /\ totpNow = 0
    /\ signedIn = {}

(***************************************************************************)
(* A request starts: the guard accepts its credential, the row is read and *)
(* the checks on the snapshot pass; it keeps what it will use of the row.  *)
(***************************************************************************)
Reads(r, kind, c) ==
    /\ inFlight[r] = NoRequest
    /\ ~account.locked
    /\ inFlight' = [inFlight EXCEPT ![r] =
          [kind |-> kind, challenge |-> c,
           lastUsedStep |-> IF kind \in {"confirm", "verify"} THEN account.lastUsedStep ELSE NoStep,
           failed |-> IF kind = "enrol" THEN 0 ELSE account.failed,
           codes |-> IF kind = "recovery" THEN recoveryCodes ELSE {}]]
    /\ UNCHANGED <<account, challenges, claimed, recoveryCodes, totpNow, signedIn, resets>>

authoriseWithChallenge(c) ==
    /\ c \in Challenges \ claimed
    /\ challenges[c] = "live"

ReadLogin(r) == Reads(r, "login", NoChallenge)

ReadEnrol(r, c) ==
    /\ authoriseWithChallenge(c) \/ (c = NoChallenge /\ signedIn # {})
    /\ ~account.enrolled
    /\ Reads(r, "enrol", c)

ReadConfirm(r, c) ==
    /\ authoriseWithChallenge(c) \/ (c = NoChallenge /\ signedIn # {})
    /\ ~account.enrolled /\ account.secret # NoSecret
    /\ Reads(r, "confirm", c)

ReadVerify(r, c) ==
    /\ authoriseWithChallenge(c)
    /\ account.enrolled /\ account.secret # NoSecret
    /\ Reads(r, "verify", c)

ReadRecovery(r, c) ==
    /\ authoriseWithChallenge(c)
    /\ Reads(r, "recovery", c)

Ends(r) == inFlight' = [inFlight EXCEPT ![r] = NoRequest]

(***************************************************************************)
(* A wrong password or code: the count is the snapshot's plus one.         *)
(***************************************************************************)
recordFailure(r) ==
    LET newCount == inFlight[r].failed + 1 IN
    /\ inFlight[r].kind \in {"login", "confirm", "verify", "recovery"}
    /\ newCount <= LoginMaxAttempts + 1
    /\ account' = [account EXCEPT !.failed = newCount,
                                  !.locked = newCount >= LoginMaxAttempts]
    /\ Ends(r)
    /\ UNCHANGED <<challenges, claimed, recoveryCodes, totpNow, signedIn, resets>>

LockoutExpires ==
    /\ account.locked
    /\ account' = [account EXCEPT !.locked = FALSE]
    /\ UNCHANGED <<challenges, claimed, recoveryCodes, inFlight, totpNow, signedIn, resets>>

(* The password was right: the role requires MFA, so a challenge is signed *)
(* and nothing is written.                                                 *)
SignChallenge(r, c) ==
    /\ inFlight[r].kind = "login"
    /\ challenges[c] = "unsigned"
    /\ challenges' = [challenges EXCEPT ![c] = "live"]
    /\ Ends(r)
    /\ UNCHANGED <<account, claimed, recoveryCodes, totpNow, signedIn, resets>>

(***************************************************************************)
(* POST /auth/mfa/enrol: the new secret is written without a condition.    *)
(***************************************************************************)
EnrolWrite(r) ==
    /\ inFlight[r].kind = "enrol"
    /\ resets < MaxResets
    /\ account' = [account EXCEPT !.secret = resets + 2, !.lastUsedStep = NoStep]
    /\ resets' = resets + 1
    /\ Ends(r)
    /\ UNCHANGED <<challenges, claimed, recoveryCodes, totpNow, signedIn>>

(***************************************************************************)
(* verifyTotp: the steps whose code is accepted, one either side of now    *)
(* and none at or below the replay mark of the snapshot.                   *)
(***************************************************************************)
AcceptedSteps(notBeforeStep) ==
    {s \in (totpNow - 1)..(totpNow + 1) : s >= 0 /\ s > notBeforeStep}

stepNotYetUsed(step) == account.lastUsedStep < step

(* The session issuer clears the failure count and the lock.               *)
issue(row) == [row EXCEPT !.failed = 0, !.locked = FALSE]

(* SET NX: the claim succeeds only for the first caller.                   *)
claim_Overwrites(c) == TRUE

claim(c) == c \notin claimed

Commit(r, row, codes, evidence) ==
    LET c == inFlight[r].challenge IN
    IF c = NoChallenge
    THEN /\ account' = row /\ recoveryCodes' = codes
         /\ UNCHANGED <<claimed, signedIn>>
    ELSE IF claim(c)
    THEN /\ account' = issue(row) /\ recoveryCodes' = codes
         /\ claimed' = claimed \cup {c}
         /\ signedIn' = signedIn \cup
               {[challenge |-> c, request |-> r, evidence |-> evidence]}
    ELSE UNCHANGED <<account, recoveryCodes, claimed, signedIn>>

Refused == UNCHANGED <<account, recoveryCodes, claimed, signedIn>>

ConfirmCommit(r, step) ==
    /\ inFlight[r].kind = "confirm"
    /\ step \in AcceptedSteps(inFlight[r].lastUsedStep)
    /\ IF ~account.enrolled /\ stepNotYetUsed(step)
       THEN Commit(r, [account EXCEPT !.enrolled = TRUE, !.lastUsedStep = step],
                   recoveryCodes \cup {[batch |-> resets, used |-> FALSE]},
                   <<"step", resets, step>>)
       ELSE Refused
    /\ Ends(r)
    /\ UNCHANGED <<challenges, totpNow, resets>>

burnTotpStep_TrustsSnapshot(step) == TRUE

burnTotpStep(step) == stepNotYetUsed(step)

VerifyCommit(r, step) ==
    /\ inFlight[r].kind = "verify"
    /\ step \in AcceptedSteps(inFlight[r].lastUsedStep)
    /\ IF burnTotpStep(step)
       THEN Commit(r, [account EXCEPT !.lastUsedStep = step], recoveryCodes,
                   <<"step", resets, step>>)
       ELSE Refused
    /\ Ends(r)
    /\ UNCHANGED <<challenges, totpNow, resets>>

(* redeemRecoveryCode looks the code up before the transaction and marks   *)
(* it used inside, guarded on usedAt being null; the row is named by the   *)
(* confirmation it was issued with.                                        *)
markedUsed(code) == code \in recoveryCodes

RecoveryCommit(r, code) ==
    /\ inFlight[r].kind = "recovery"
    /\ code \in inFlight[r].codes /\ ~code.used
    /\ IF markedUsed(code)
       THEN Commit(r, account, (recoveryCodes \ {code}) \cup {[code EXCEPT !.used = TRUE]},
                   <<"code", code.batch, 0>>)
       ELSE Refused
    /\ Ends(r)
    /\ UNCHANGED <<challenges, totpNow, resets>>

(* The transaction is rolled back after the claim (its timeout, a lost     *)
(* connection, a process that dies): the challenge is spent.               *)
AbortAfterClaim(r) ==
    /\ inFlight[r].kind \in {"confirm", "verify", "recovery"}
    /\ inFlight[r].challenge # NoChallenge
    /\ claimed' = claimed \cup {inFlight[r].challenge}
    /\ Ends(r)
    /\ UNCHANGED <<account, challenges, recoveryCodes, totpNow, signedIn, resets>>

(***************************************************************************)
(* POST /users/{id}/mfa-reset: the enrolment is wiped and every unused     *)
(* recovery code is spent.                                                 *)
(***************************************************************************)
resetForUser ==
    /\ account.enrolled \/ account.secret # NoSecret
    /\ resets < MaxResets
    /\ account' = [account EXCEPT !.enrolled = FALSE, !.secret = NoSecret,
                                  !.lastUsedStep = NoStep]
    /\ recoveryCodes' = {[e EXCEPT !.used = TRUE] : e \in recoveryCodes}
    /\ resets' = resets + 1
    /\ UNCHANGED <<challenges, claimed, inFlight, totpNow, signedIn>>

ChallengeExpires(c) ==
    /\ challenges[c] = "live"
    /\ challenges' = [challenges EXCEPT ![c] = "expired"]
    /\ UNCHANGED <<account, claimed, recoveryCodes, inFlight, totpNow, signedIn, resets>>

TotpStepPasses ==
    /\ totpNow < MaxTotpStep
    /\ totpNow' = totpNow + 1
    /\ UNCHANGED <<account, challenges, claimed, recoveryCodes, inFlight, signedIn, resets>>

MfaNext ==
    \/ \E r \in MfaRequests :
         \/ ReadLogin(r) \/ recordFailure(r) \/ EnrolWrite(r) \/ AbortAfterClaim(r)
         \/ \E c \in Challenges :
              ReadVerify(r, c) \/ ReadRecovery(r, c) \/ SignChallenge(r, c)
         \/ \E c \in Challenges \cup {NoChallenge} : ReadEnrol(r, c) \/ ReadConfirm(r, c)
         \/ \E step \in 0..(MaxTotpStep + 1) : ConfirmCommit(r, step) \/ VerifyCommit(r, step)
         \/ inFlight[r].kind = "recovery" /\ \E code \in inFlight[r].codes : RecoveryCommit(r, code)
    \/ \E c \in Challenges : ChallengeExpires(c)
    \/ LockoutExpires \/ resetForUser \/ TotpStepPasses

MfaSpec == MfaInit /\ [][MfaNext]_mfaVars

-----------------------------------------------------------------------------

MfaTypeOK ==
    /\ account \in [enrolled : BOOLEAN, secret : 0..(MaxResets + 1), lastUsedStep : -1..(MaxTotpStep + 1),
                    failed : 0..(LoginMaxAttempts + 1), locked : BOOLEAN]
    /\ challenges \in [Challenges -> {"unsigned", "live", "expired"}]
    /\ claimed \subseteq Challenges
    /\ recoveryCodes \subseteq [batch : 0..MaxResets, used : BOOLEAN]
    /\ totpNow \in 0..MaxTotpStep
    /\ resets \in 0..MaxResets

(* A challenge token buys one session: however the code, the recovery code *)
(* and the enrolment requests of several tabs interleave, two sessions     *)
(* never come from the same password step (claimChallenge).                *)
ChallengeBuysOneSession ==
    \A a, b \in signedIn : a.challenge = b.challenge => a = b

(* A one-time code or a recovery code buys one session: until the replay   *)
(* mark is cleared by a new enrolment or a reset, a step that signed       *)
(* somebody in signs nobody in again, and neither does a recovery code     *)
(* (burnTotpStep, redeemRecoveryCode).                                     *)
EvidenceBuysOneSession ==
    \A a, b \in signedIn : a.evidence = b.evidence => a = b
=============================================================================
