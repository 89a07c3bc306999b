---------------------------- MODULE ClientSession ----------------------------
(***************************************************************************)
(* The session of one browser page: the in-memory stores of web/src/auth,  *)
(* the calls under way, the refresh cookie, and the refresh-token families *)
(* the server keeps (api/src/auth).  Several people use the same device.   *)
(*                                                                         *)
(* A call is sent with the bearer and the cookie of that moment, handled   *)
(* by the server, and its answer is applied when it arrives, or never: the *)
(* page may have changed hands in between.  Nothing makes two refreshes    *)
(* exclusive, so two calls may present one cookie.                         *)
(***************************************************************************)
EXTENDS Naturals, Sequences, FiniteSets

CONSTANTS
    People,           \* accounts that sign in on this device
    NoUser,           \* nobody
    Late,             \* owner of a latch set by an answer to a previous user
    MfaPeople,        \* accounts whose role requires a second factor
    Calls,            \* calls that may be under way at once
    MaxTokens         \* bound: refresh tokens ever issued

ASSUME ClientSessionAssumption ==
    /\ {NoUser, Late} \cap People = {} /\ NoUser # Late
    /\ MfaPeople \subseteq People
    /\ MaxTokens \in Nat

VARIABLES
    tokens,           \* rows of refresh_token, in the order of issue
    enabled,          \* accounts that are active
    mustChange,       \* accounts with must_change_password
    cookie,           \* the bf_refresh cookie: index of a token, or 0
    bearer,           \* token-store: whose access token the page holds
    currentUser,      \* current-user-store
    gate,             \* password-change-gate: whose refusal latched it
    codes,            \* recovery-codes-store: whose codes are pending
    challenge,        \* challenge-store: who passed the password step
    calls             \* per slot: the call under way, or NoCall

pageVars == <<bearer, currentUser, gate, codes, challenge>>
serverVars == <<tokens, enabled, mustChange>>
sessionVars == <<serverVars, pageVars, cookie, calls>>

(* A call with what the server reads of it: the bearer (the account for a  *)
(* login), the cookie and the challenge of the moment it is sent.          *)
NewCall(op, u, t, c, retry) ==
    [op |-> op,
     user |-> IF op \in {"refresh", "verify"} THEN NoUser ELSE u,
     token |-> IF op \in {"refresh", "password", "logout"} THEN t ELSE 0,
     challenge |-> IF op \in {"verify", "confirm"} THEN c ELSE NoUser,
     retry |-> retry, answer |-> "none", grant |-> 0]
NoCall == NewCall("none", NoUser, 0, NoUser, "no")

(* The accounts without a second factor have a password an administrator   *)
(* chose.                                                                  *)
SessionInit ==
    /\ tokens = <<>> /\ enabled = People
    /\ mustChange = People \ MfaPeople
    /\ cookie = 0
    /\ bearer = NoUser /\ currentUser = NoUser /\ gate = NoUser
    /\ codes = NoUser /\ challenge = NoUser
    /\ calls = [s \in Calls |-> NoCall]

(***************************************************************************)
(* What App renders, outermost decision first.                             *)
(***************************************************************************)
Screen == IF bearer = NoUser THEN "sign-in"
          ELSE IF codes # NoUser THEN "recovery-codes"
          ELSE IF gate # NoUser THEN "change-password"
          ELSE "app"

Sends(s, op, retry) ==
    calls' = [calls EXCEPT ![s] = NewCall(op, bearer, cookie, challenge, retry)]

Send(s, op) ==
    /\ calls[s] = NoCall
    /\ Sends(s, op, "no")
    /\ UNCHANGED <<serverVars, pageVars, cookie>>

(* The startup check and every fetch without a token refresh first; a      *)
(* fetch started without one goes on with its request afterwards.          *)
ensureFreshToken(s) == bearer = NoUser /\ Send(s, "refresh")

authorizedFetch(s) ==
    /\ calls[s] = NoCall
    /\ IF bearer = NoUser THEN Sends(s, "refresh", "first") ELSE Sends(s, "fetch", "first")
    /\ UNCHANGED <<serverVars, pageVars, cookie>>

LoginSent(s, u) ==
    /\ Screen = "sign-in" /\ challenge = NoUser
    /\ calls[s] = NoCall
    /\ calls' = [calls EXCEPT ![s] = NewCall("login", u, cookie, NoUser, "no")]
    /\ UNCHANGED <<serverVars, pageVars, cookie>>

(* The second step needs a live challenge: a code or a recovery code, or   *)
(* the confirmation of a new authenticator.                                *)
SecondStepSent(s) == /\ Screen = "sign-in" /\ challenge # NoUser
                     /\ Send(s, "verify") \/ Send(s, "confirm")

(* An enrolment from inside the app uses the bearer.                       *)
ConfirmSent(s) == Screen = "app" /\ challenge = NoUser /\ Send(s, "confirm")

restart ==
    /\ challenge # NoUser
    /\ challenge' = NoUser
    /\ UNCHANGED <<serverVars, bearer, currentUser, gate, codes, cookie, calls>>

PasswordSent(s) == Screen \in {"app", "change-password"} /\ Send(s, "password")

LogoutSent(s) == Screen \in {"app", "change-password"} /\ Send(s, "logout")

AcknowledgeCodes ==
    /\ Screen = "recovery-codes"
    /\ codes' = NoUser
    /\ UNCHANGED <<serverVars, bearer, currentUser, gate, challenge, cookie, calls>>

(***************************************************************************)
(* The server.                                                             *)
(***************************************************************************)
(* What the page still needs of a call once it is answered.                *)
Answered(c, a, g) ==
    [c EXCEPT !.answer = a, !.grant = g, !.token = 0, !.challenge = NoUser,
              !.user = IF a \in {"challenge", "password-change-required"}
                          \/ (c.op = "confirm" /\ a = "done") THEN @ ELSE NoUser]

Answers(s, op, a) == /\ calls[s].op = op /\ calls[s].answer = "none"
                     /\ calls' = [calls EXCEPT ![s] = Answered(@, a, 0)]

(* The answer carries a session and sets its new refresh token.            *)
Grants(s, op) == /\ calls[s].op = op /\ calls[s].answer = "none"
                 /\ calls' = [calls EXCEPT ![s] = Answered(@, "session", Len(tokens) + 1)]

createToken(f, u) == Append(tokens, [family |-> f, user |-> u, used |-> FALSE, revoked |-> FALSE])

RevokeFamilies(ts, fs) ==
    [i \in DOMAIN ts |-> IF ts[i].family \in fs THEN [ts[i] EXCEPT !.revoked = TRUE] ELSE ts[i]]

issueNewFamily(s, op, u) ==
    /\ Len(tokens) < MaxTokens
    /\ tokens' = createToken(Len(tokens) + 1, u)
    /\ Grants(s, op)

LoginHandled(s) ==
    LET u == calls[s].user IN
    /\ calls[s].op = "login"
    /\ \/ u \notin enabled /\ Answers(s, "login", "refused") /\ UNCHANGED tokens
       \/ u \in enabled \cap MfaPeople /\ Answers(s, "login", "challenge") /\ UNCHANGED tokens
       \/ u \in enabled \ MfaPeople /\ issueNewFamily(s, "login", u)
    /\ UNCHANGED <<enabled, mustChange, pageVars, cookie>>

SecondStepHandled(s) ==
    /\ calls[s].op \in {"verify", "confirm"}
    /\ IF calls[s].challenge # NoUser
       THEN issueNewFamily(s, calls[s].op, calls[s].challenge)
       ELSE Answers(s, "confirm", "done") /\ UNCHANGED tokens
    /\ UNCHANGED <<enabled, mustChange, pageVars, cookie>>

(* rotate reads the row, and updates it by id without a condition: a       *)
(* second rotation that read the row before the first wrote it succeeds.   *)
(* The page takes every answer that is not a session for a refusal, a      *)
(* failure of the server too.                                              *)
RotateRead(s) ==
    LET t == calls[s].token IN
    /\ calls[s].op = "refresh" /\ calls[s].answer = "none"
    /\ \/ Answers(s, "refresh", "refused") /\ UNCHANGED tokens
       \/ /\ t # 0 /\ ~tokens[t].revoked /\ tokens[t].used
          /\ tokens' = RevokeFamilies(tokens, {tokens[t].family})
          /\ Answers(s, "refresh", "refused")
       \/ /\ t # 0 /\ ~tokens[t].revoked /\ ~tokens[t].used
          /\ calls' = [calls EXCEPT ![s].answer = "rotating"]
          /\ UNCHANGED tokens
    /\ UNCHANGED <<enabled, mustChange, pageVars, cookie>>

RotateWrite(s) ==
    LET t == calls[s].token IN
    /\ calls[s].op = "refresh" /\ calls[s].answer = "rotating"
    /\ Len(tokens) < MaxTokens
    /\ tokens' = [createToken(tokens[t].family, tokens[t].user) EXCEPT ![t].used = TRUE]
    /\ calls' = [calls EXCEPT ![s] = IF tokens[t].user \in enabled
                                     THEN Answered(@, "session", Len(tokens) + 1)
                                     ELSE Answered(@, "refused", 0)]
    /\ UNCHANGED <<enabled, mustChange, pageVars, cookie>>

(* The access token is refused, the global guard insists on a new          *)
(* password, or the request is served.                                     *)
FetchHandled(s) ==
    /\ \/ Answers(s, "fetch", "unauthenticated")
       \/ calls[s].user \in mustChange /\ Answers(s, "fetch", "password-change-required")
       \/ calls[s].user \notin mustChange \cup {NoUser} /\ Answers(s, "fetch", "done")
    /\ UNCHANGED <<serverVars, pageVars, cookie>>

FamilyOf(t) == IF t = 0 THEN {} ELSE {tokens[t].family}

revokeOtherFamiliesForUser(u, keep) ==
    RevokeFamilies(tokens, {tokens[i].family : i \in {j \in DOMAIN tokens : tokens[j].user = u}} \ keep)

PasswordHandled(s) ==
    LET u == calls[s].user IN
    /\ calls[s].op = "password"
    /\ \/ Answers(s, "password", "refused") /\ UNCHANGED <<tokens, mustChange>>
       \/ /\ u # NoUser
          /\ tokens' = revokeOtherFamiliesForUser(u, FamilyOf(calls[s].token))
          /\ mustChange' = mustChange \ {u}
          /\ Answers(s, "password", "done")
    /\ UNCHANGED <<enabled, pageVars, cookie>>

(* Without a bearer the logout is refused and no family is revoked.        *)
LogoutHandled(s) ==
    /\ calls[s].op = "logout"
    /\ IF calls[s].user = NoUser THEN UNCHANGED tokens
       ELSE tokens' = RevokeFamilies(tokens, FamilyOf(calls[s].token))
    /\ Answers(s, "logout", IF calls[s].user = NoUser THEN "refused" ELSE "done")
    /\ UNCHANGED <<enabled, mustChange, pageVars, cookie>>

(* An administrator deactivates an account.                                *)
Deactivate(u) ==
    /\ u \in enabled
    /\ enabled' = enabled \ {u}
    /\ UNCHANGED <<tokens, mustChange, pageVars, cookie, calls>>

(***************************************************************************)
(* The answer arrives: the browser stores the cookie, the page applies it. *)
(***************************************************************************)
KeepsLatches_Always(u) == TRUE

KeepsLatches_Never(u) == FALSE

KeepsLatches(u) == currentUser = u

acceptAuthResult(u) ==
    /\ bearer' = u /\ currentUser' = u /\ challenge' = NoUser
    /\ gate' = IF KeepsLatches(u) THEN gate ELSE NoUser

OwnerOfLatch(u) == IF u # NoUser /\ u = currentUser THEN u ELSE Late

Arrives(s, a) == /\ calls[s] # NoCall /\ calls[s].answer = a
                 /\ UNCHANGED serverVars
Finished(s) == calls' = [calls EXCEPT ![s] = NoCall]

(* A session; a confirmed enrolment brings its recovery codes with it, and *)
(* the fetch that was waiting for a refresh goes on.                       *)
SessionArrives(s) ==
    LET t == calls[s].grant
        u == tokens[t].user
    IN
    /\ Arrives(s, "session")
    /\ cookie' = t
    /\ acceptAuthResult(u)
    /\ codes' = IF calls[s].op = "confirm" THEN u
                ELSE IF KeepsLatches(u) THEN codes ELSE NoUser
    /\ calls' = [calls EXCEPT ![s] =
          IF @.op = "refresh" /\ @.retry # "no"
          THEN NewCall("fetch", u, t, NoUser, IF @.retry = "first" THEN "first" ELSE "last")
          ELSE NoCall]

ChallengeArrives(s) ==
    /\ Arrives(s, "challenge")
    /\ challenge' = calls[s].user
    /\ Finished(s)
    /\ UNCHANGED <<bearer, currentUser, gate, codes, cookie>>

RefreshRefused(s) ==
    /\ Arrives(s, "refused") /\ calls[s].op = "refresh"
    /\ bearer' = NoUser /\ currentUser' = NoUser
    /\ Finished(s)
    /\ UNCHANGED <<gate, codes, challenge, cookie>>

(* A first 401 asks for a new token and tries again once.                  *)
UnauthenticatedArrives(s) ==
    /\ Arrives(s, "unauthenticated")
    /\ IF calls[s].retry = "first" THEN Sends(s, "refresh", "retry") ELSE Finished(s)
    /\ UNCHANGED <<pageVars, cookie>>

GateArrives(s) ==
    /\ Arrives(s, "password-change-required")
    /\ gate' = IF gate = NoUser THEN OwnerOfLatch(calls[s].user) ELSE gate
    /\ Finished(s)
    /\ UNCHANGED <<bearer, currentUser, codes, challenge, cookie>>

DoneArrives(s) ==
    /\ Arrives(s, "done") /\ calls[s].op \in {"fetch", "password", "confirm"}
    /\ gate' = IF calls[s].op = "password" THEN NoUser ELSE gate
    /\ codes' = IF calls[s].op = "confirm" THEN OwnerOfLatch(calls[s].user) ELSE codes
    /\ Finished(s)
    /\ UNCHANGED <<bearer, currentUser, challenge, cookie>>

RefusedArrives(s) ==
    /\ Arrives(s, "refused") /\ calls[s].op \in {"login", "password"}
    /\ Finished(s)
    /\ UNCHANGED <<pageVars, cookie>>

(* Whatever the server said, or if it said nothing, the page forgets; the  *)
(* cookie is cleared only by an answer that accepted the logout.           *)
LogoutReturns(s) ==
    /\ calls[s].op = "logout"
    /\ bearer' = NoUser /\ currentUser' = NoUser /\ gate' = NoUser
    /\ codes' = NoUser /\ challenge' = NoUser
    /\ cookie' = IF calls[s].answer = "done" THEN 0 ELSE cookie
    /\ Finished(s)
    /\ UNCHANGED serverVars

(* The request or its answer is lost: the call rejects, nothing is applied.*)
AnswerLost(s) ==
    /\ calls[s] # NoCall /\ calls[s].op # "logout"
    /\ Finished(s)
    /\ UNCHANGED <<serverVars, pageVars, cookie>>

(* A reload forgets everything but the cookie.                             *)
Reload ==
    /\ bearer' = NoUser /\ currentUser' = NoUser /\ gate' = NoUser
    /\ codes' = NoUser /\ challenge' = NoUser
    /\ calls' = [s \in Calls |-> NoCall]
    /\ UNCHANGED <<serverVars, cookie>>

SessionNext ==
    \/ \E s \in Calls :
         \/ ensureFreshToken(s) \/ authorizedFetch(s) \/ SecondStepSent(s) \/ ConfirmSent(s)
         \/ PasswordSent(s) \/ LogoutSent(s) \/ \E u \in People : LoginSent(s, u)
         \/ LoginHandled(s) \/ SecondStepHandled(s) \/ RotateRead(s) \/ RotateWrite(s)
         \/ FetchHandled(s) \/ PasswordHandled(s) \/ LogoutHandled(s)
         \/ SessionArrives(s) \/ ChallengeArrives(s) \/ RefreshRefused(s)
         \/ UnauthenticatedArrives(s) \/ GateArrives(s) \/ DoneArrives(s)
         \/ RefusedArrives(s) \/ LogoutReturns(s) \/ AnswerLost(s)
    \/ \E u \in People : Deactivate(u)
    \/ restart \/ AcknowledgeCodes \/ Reload

SessionSpec == SessionInit /\ [][SessionNext]_sessionVars

-----------------------------------------------------------------------------

SessionTypeOK ==
    /\ tokens \in Seq([family : 1..MaxTokens, user : People, used : BOOLEAN, revoked : BOOLEAN])
    /\ enabled \subseteq People /\ mustChange \subseteq People
    /\ cookie \in 0..Len(tokens)
    /\ {bearer, currentUser, challenge} \subseteq People \cup {NoUser}
    /\ {gate, codes} \subseteq People \cup {NoUser, Late}
    /\ \A s \in Calls : {calls[s].token, calls[s].grant} \subseteq 0..Len(tokens)

(* What was latched before the page changed hands is gone afterwards: a    *)
(* forced password change or recovery codes on show are of the person      *)
(* signed in (acceptAuthResult).  The exception the code leaves open is an *)
(* answer to an earlier person's call that arrives after the change of     *)
(* hands: it latches whoever is signed in by then (Late).                  *)
LatchesFollowTheAccount ==
    currentUser # NoUser => {gate, codes} \subseteq {NoUser, Late, currentUser}

(* Whose session the answer that is about to arrive on s carries.          *)
SessionOf(s) == tokens[calls[s].grant].user

(* The ways a step can take a person's recovery codes off the page.        *)
CodesMayGo ==
    codes \in People /\ codes' \notin {codes, Late}
      => \/ AcknowledgeCodes \/ Reload
         \/ \E s \in Calls : LogoutReturns(s)
         \/ \E s \in Calls :
              /\ SessionArrives(s)
              /\ SessionOf(s) # codes \/ currentUser = NoUser

(* No refresh, fetch or failure by itself takes the only copy of a         *)
(* person's recovery codes.  Unless they acknowledge them, log out or      *)
(* reload, the codes go only when a session is accepted that is somebody   *)
(* else's, or is the first one after a refused refresh forgot who was      *)
(* signed in: that one drops them even when it is their own                *)
(* (acceptAuthResult, refresh).                                            *)
CodesGoWithAnotherSession == [][CodesMayGo]_sessionVars
=============================================================================
