---------------------------- MODULE AccessProofs ----------------------------
(***************************************************************************)
(* Proofs about who may do what, for every set of people, calls, areas and *)
(* browsers: the second step of signing in (SecondFactor), the session of  *)
(* a page (ClientSession) and the area access of a person (AreaScopes).    *)
(***************************************************************************)
EXTENDS SecondFactor, ClientSession, AreaScopes, TLAPS

-----------------------------------------------------------------------------
(* SecondFactor.                                                           *)

(* A session was issued only for a challenge that is claimed since.        *)
SessionsAreClaimed == \A e \in signedIn : e.challenge \in claimed

MfaInv == SessionsAreClaimed /\ ChallengeBuysOneSession

(* Whatever evidence a commit presents, it issues at most one session, and *)
(* only for a challenge nobody has claimed.                                *)
LEMMA CommitClaims ==
    ASSUME MfaInv, NEW r, NEW row, NEW left, NEW evidence, Commit(r, row, left, evidence)
    PROVE  MfaInv'
  <1> DEFINE c == inFlight[r].challenge
             new == [challenge |-> c, request |-> r, evidence |-> evidence]
  <1>1. CASE UNCHANGED <<claimed, signedIn>>
      BY <1>1 DEF MfaInv, SessionsAreClaimed, ChallengeBuysOneSession
  <1>2. CASE c \notin claimed /\ claimed' = claimed \cup {c} /\ signedIn' = signedIn \cup {new}
      BY <1>2 DEF MfaInv, SessionsAreClaimed, ChallengeBuysOneSession
  <1> QED BY <1>1, <1>2 DEF Commit, claim

(* However the second steps of several tabs interleave, fail or roll back, *)
(* no password step is good for two sessions (claimChallenge).             *)
THEOREM OneSessionPerChallenge == MfaSpec => []ChallengeBuysOneSession
  <1>1. MfaInit => MfaInv
      BY DEF MfaInit, MfaInv, SessionsAreClaimed, ChallengeBuysOneSession
  <1>2. ASSUME MfaInv, [MfaNext]_mfaVars PROVE MfaInv'
    <2>1. CASE UNCHANGED <<claimed, signedIn>>
        BY <1>2, <2>1 DEF MfaInv, SessionsAreClaimed, ChallengeBuysOneSession
    <2>2. ASSUME NEW r \in MfaRequests, AbortAfterClaim(r) PROVE MfaInv'
        BY <1>2, <2>2 DEF AbortAfterClaim, MfaInv, SessionsAreClaimed, ChallengeBuysOneSession
    <2>3. ASSUME NEW r \in MfaRequests, NEW step, ConfirmCommit(r, step) PROVE MfaInv'
        BY <1>2, <2>1, <2>3, CommitClaims DEF ConfirmCommit, Refused
    <2>4. ASSUME NEW r \in MfaRequests, NEW step, VerifyCommit(r, step) PROVE MfaInv'
        BY <1>2, <2>1, <2>4, CommitClaims DEF VerifyCommit, Refused
    <2>5. ASSUME NEW r \in MfaRequests, NEW code, RecoveryCommit(r, code) PROVE MfaInv'
        BY <1>2, <2>1, <2>5, CommitClaims DEF RecoveryCommit, Refused
    <2>6. ASSUME NEW r \in MfaRequests, NEW d,
                 \/ ReadLogin(r) \/ recordFailure(r) \/ EnrolWrite(r) \/ ReadVerify(r, d)
                 \/ ReadRecovery(r, d) \/ SignChallenge(r, d) \/ ReadEnrol(r, d) \/ ReadConfirm(r, d)
          PROVE  MfaInv'
        BY <2>1, <2>6 DEF ReadLogin, recordFailure, EnrolWrite, ReadVerify, ReadRecovery,
                          SignChallenge, ReadEnrol, ReadConfirm, Reads
    <2>7. CASE \/ \E d \in Challenges : ChallengeExpires(d)
               \/ LockoutExpires \/ resetForUser \/ TotpStepPasses
        BY <2>1, <2>7 DEF ChallengeExpires, LockoutExpires, resetForUser, TotpStepPasses
    <2>8. CASE UNCHANGED mfaVars
        BY <2>1, <2>8 DEF mfaVars
    <2> QED BY <1>2, <2>2, <2>3, <2>4, <2>5, <2>6, <2>7, <2>8 DEF MfaNext
  <1>3. MfaInv => ChallengeBuysOneSession
      BY DEF MfaInv
  <1> QED BY <1>1, <1>2, <1>3, PTL DEF MfaSpec

(* What signed somebody in cannot sign in again: a code of the current     *)
(* secret is at or below the replay mark, a code of an earlier one belongs *)
(* to a mark that was cleared since, and a recovery code is used.          *)
StepSpent(e) ==
    \E k, s \in Int : /\ e.evidence = <<"step", k, s>> /\ k <= resets
                      /\ k = resets => s <= account.lastUsedStep

CodeSpent(e) ==
    \E b \in Int : /\ e.evidence = <<"code", b, 0>>
                   /\ [batch |-> b, used |-> FALSE] \notin recoveryCodes
                   /\ b <= resets /\ (b = resets => account.enrolled)

(* A batch is numbered by the clearings before it: the account stays       *)
(* enrolled until the next one, so no number is used twice.                *)
BatchesAreOld ==
    \A code \in recoveryCodes :
        code.batch <= resets /\ (code.batch = resets => account.enrolled)

IsAccount(a) ==
    /\ DOMAIN a = {"enrolled", "secret", "lastUsedStep", "failed", "locked"}
    /\ a.enrolled \in BOOLEAN /\ a.lastUsedStep \in Int

EvidenceInv ==
    /\ resets \in Int
    /\ IsAccount(account)
    /\ recoveryCodes \subseteq [batch : Int, used : BOOLEAN]
    /\ BatchesAreOld
    /\ \A e \in signedIn : StepSpent(e) \/ CodeSpent(e)
    /\ EvidenceBuysOneSession

(* One step of the account, whichever it is: the mark is cleared or goes   *)
(* up, the account stays enrolled until it is cleared, and a code that     *)
(* becomes usable belongs to the batch of a confirmation.                  *)
MfaMoves ==
    /\ resets' \in Int /\ resets' >= resets
    /\ IsAccount(account')
    /\ recoveryCodes' \subseteq [batch : Int, used : BOOLEAN]
    /\ resets' = resets => /\ account'.lastUsedStep >= account.lastUsedStep
                           /\ account.enrolled => account'.enrolled
    /\ \A code \in recoveryCodes' :
          /\ \/ \E old \in recoveryCodes : code.batch = old.batch
             \/ code.batch = resets /\ resets' = resets /\ ~account.enrolled /\ account'.enrolled
          /\ ~code.used => \/ code \in recoveryCodes
                           \/ code.batch = resets /\ ~account.enrolled

LEMMA BatchesStayOld ==
    ASSUME EvidenceInv, MfaMoves PROVE BatchesAreOld'
  <1> SUFFICES ASSUME NEW code \in recoveryCodes'
               PROVE  code.batch <= resets' /\ (code.batch = resets' => account'.enrolled)
      BY DEF BatchesAreOld
  <1>1. CASE \E old \in recoveryCodes : code.batch = old.batch
    <2>1. PICK old \in recoveryCodes : code.batch = old.batch
        BY <1>1
    <2>2. old.batch \in Int /\ old.batch <= resets /\ (old.batch = resets => account.enrolled)
        BY DEF EvidenceInv, BatchesAreOld
    <2> QED BY <2>1, <2>2 DEF EvidenceInv, MfaMoves
  <1>2. CASE code.batch = resets /\ resets' = resets /\ ~account.enrolled /\ account'.enrolled
      BY <1>2 DEF EvidenceInv
  <1> QED BY <1>1, <1>2 DEF MfaMoves

LEMMA SpentStaysSpent ==
    ASSUME EvidenceInv, MfaMoves, NEW e \in signedIn
    PROVE  StepSpent(e)' \/ CodeSpent(e)'
  <1>1. ASSUME NEW k \in Int, NEW s \in Int, e.evidence = <<"step", k, s>>, k <= resets,
               k = resets => s <= account.lastUsedStep
        PROVE  StepSpent(e)'
    <2>1. k <= resets' /\ (k = resets' => s <= account'.lastUsedStep)
        BY <1>1 DEF IsAccount, EvidenceInv, MfaMoves
    <2> QED BY <1>1, <2>1 DEF StepSpent
  <1>2. ASSUME NEW b \in Int, e.evidence = <<"code", b, 0>>,
               [batch |-> b, used |-> FALSE] \notin recoveryCodes,
               b <= resets, b = resets => account.enrolled
        PROVE  CodeSpent(e)'
    <2>1. [batch |-> b, used |-> FALSE] \notin recoveryCodes'
        BY <1>2 DEF MfaMoves
    <2>2. b <= resets' /\ (b = resets' => account'.enrolled)
        BY <1>2 DEF EvidenceInv, MfaMoves
    <2> QED BY <1>2, <2>1, <2>2 DEF CodeSpent
  <1>3. CASE StepSpent(e)
      BY <1>1, <1>3 DEF StepSpent
  <1>4. CASE CodeSpent(e)
      BY <1>2, <1>4 DEF CodeSpent
  <1> QED BY <1>3, <1>4 DEF EvidenceInv

(* A step that signs nobody in.                                            *)
LEMMA NobodySignsIn ==
    ASSUME EvidenceInv, MfaMoves, signedIn' = signedIn PROVE EvidenceInv'
  <1>1. \A e \in signedIn' : StepSpent(e)' \/ CodeSpent(e)'
      BY SpentStaysSpent
  <1>2. EvidenceBuysOneSession'
      BY DEF EvidenceInv, EvidenceBuysOneSession
  <1> QED BY <1>1, <1>2, BatchesStayOld DEF EvidenceInv, MfaMoves

(* A step that signs somebody in, with evidence nobody signed in with.     *)
LEMMA SomebodySignsIn ==
    ASSUME EvidenceInv, MfaMoves, NEW new, signedIn' = signedIn \cup {new},
           StepSpent(new)' \/ CodeSpent(new)',
           \A e \in signedIn : e.evidence # new.evidence
    PROVE  EvidenceInv'
  <1>1. \A e \in signedIn' : StepSpent(e)' \/ CodeSpent(e)'
      BY SpentStaysSpent
  <1>2. EvidenceBuysOneSession'
      BY DEF EvidenceInv, EvidenceBuysOneSession
  <1> QED BY <1>1, <1>2, BatchesStayOld DEF EvidenceInv, MfaMoves

LEMMA SameAccount ==
    ASSUME EvidenceInv, UNCHANGED <<resets, recoveryCodes>>,
           IsAccount(account'),
           account'.enrolled = account.enrolled, account'.lastUsedStep = account.lastUsedStep
    PROVE  MfaMoves
  <1>1. account.lastUsedStep \in Int
      BY DEF IsAccount, EvidenceInv
  <1>2. \A code \in recoveryCodes' : \E old \in recoveryCodes : code.batch = old.batch
      OBVIOUS
  <1> QED BY <1>1, <1>2 DEF EvidenceInv, MfaMoves

(* A one-time code that the guarded UPDATE accepts is above the mark: no   *)
(* session came from it.                                                   *)
LEMMA StepSignsInOnce ==
    ASSUME EvidenceInv, NEW r, NEW row, NEW left, NEW step \in Int,
           Commit(r, row, left, <<"step", resets, step>>), resets' = resets,
           account.lastUsedStep < step,
           IsAccount(row),
           row.lastUsedStep = step, account.enrolled => row.enrolled,
           \/ left = recoveryCodes
           \/ /\ left = recoveryCodes \cup {[batch |-> resets, used |-> FALSE]}
              /\ ~account.enrolled /\ row.enrolled
    PROVE  EvidenceInv'
  <1>0a. PICK new : new = [challenge |-> inFlight[r].challenge, request |-> r,
                           evidence |-> <<"step", resets, step>>]
      OBVIOUS
  <1>0b. new.evidence = <<"step", resets, step>>
      BY <1>0a
  <1>0. /\ new = [challenge |-> inFlight[r].challenge, request |-> r,
                  evidence |-> <<"step", resets, step>>]
        /\ new.evidence = <<"step", resets, step>>
      BY <1>0a, <1>0b
  <1>1. \/ UNCHANGED <<account, recoveryCodes, signedIn>>
        \/ account' = row /\ recoveryCodes' = left /\ signedIn' = signedIn
        \/ account' = issue(row) /\ recoveryCodes' = left /\ signedIn' = signedIn \cup {new}
      BY <1>0 DEF Commit
  <1>2. CASE UNCHANGED <<account, recoveryCodes, signedIn>>
    <2>1. MfaMoves
        BY <1>2, SameAccount DEF EvidenceInv
    <2> QED BY <1>2, <2>1, NobodySignsIn
  <1>3. ASSUME account' = row \/ account' = issue(row), recoveryCodes' = left PROVE MfaMoves
    <2>1. /\ IsAccount(account')
          /\ account'.lastUsedStep = step /\ account'.enrolled = row.enrolled
        BY <1>3 DEF IsAccount, issue
    <2>a. [batch |-> resets, used |-> FALSE] \in [batch : Int, used : BOOLEAN]
        BY DEF EvidenceInv
    <2>2. left \subseteq [batch : Int, used : BOOLEAN]
        BY <2>a DEF EvidenceInv
    <2>3. ASSUME NEW code \in left, code \notin recoveryCodes
          PROVE  code.batch = resets /\ ~account.enrolled /\ row.enrolled
        BY <2>3
    <2>4. account.lastUsedStep \in Int /\ resets \in Int
        BY DEF IsAccount, EvidenceInv
    <2> QED BY <1>3, <2>1, <2>2, <2>3, <2>4 DEF MfaMoves
  <1>4. CASE account' = row /\ recoveryCodes' = left /\ signedIn' = signedIn
      BY <1>3, <1>4, NobodySignsIn
  <1>5. CASE account' = issue(row) /\ recoveryCodes' = left /\ signedIn' = signedIn \cup {new}
    <2>1. StepSpent(new)'
      <3>1. account'.lastUsedStep = step
          BY <1>5 DEF issue
      <3>2. resets \in Int /\ resets' \in Int
          BY DEF EvidenceInv
      <3>3. \E k, s \in Int : /\ new.evidence = <<"step", k, s>> /\ k <= resets'
                              /\ k = resets' => s <= account'.lastUsedStep
        <4>0. resets' \in Int
            BY <3>2
        <4>1. new.evidence = <<"step", resets', step>> /\ resets' <= resets' /\ step <= account'.lastUsedStep
            BY <1>0, <3>1, <3>2
        <4> WITNESS resets' \in Int, step \in Int
        <4> QED BY <4>1
      <3> QED BY <3>3 DEF StepSpent
    <2>2. ASSUME NEW e \in signedIn PROVE e.evidence # <<"step", resets, step>>
      <3>1. account.lastUsedStep \in Int
          BY DEF IsAccount, EvidenceInv
      <3>2. ~CodeSpent(e) \/ e.evidence # <<"step", resets, step>>
        <4> SUFFICES ASSUME CodeSpent(e), e.evidence = <<"step", resets, step>> PROVE FALSE
            OBVIOUS
        <4>1. PICK b \in Int : e.evidence = <<"code", b, 0>>
            BY DEF CodeSpent
        <4>2. e.evidence[1] = "code" /\ e.evidence[1] = "step"
            BY <4>1
        <4> QED BY <4>2
      <3>3. ~StepSpent(e) \/ e.evidence # <<"step", resets, step>>
        <4> SUFFICES ASSUME NEW k \in Int, NEW s \in Int, e.evidence = <<"step", k, s>>,
                            k = resets => s <= account.lastUsedStep,
                            e.evidence = <<"step", resets, step>>
                     PROVE  FALSE
            BY DEF StepSpent
        <4>1. k = resets /\ s = step
            OBVIOUS
        <4> QED BY <3>1, <4>1
      <3> QED BY <3>2, <3>3 DEF EvidenceInv
    <2>3. \A e \in signedIn : e.evidence # new.evidence
        BY <1>0, <2>2
    <2>4. MfaMoves
        BY <1>3, <1>5
    <2> QED BY <1>5, <2>1, <2>3, <2>4, SomebodySignsIn
  <1> QED BY <1>1, <1>2, <1>4, <1>5

(* So does a recovery code that the guarded UPDATE finds unused.           *)
LEMMA CodeSignsInOnce ==
    ASSUME EvidenceInv, NEW r, NEW code \in recoveryCodes, ~code.used, resets' = resets,
           Commit(r, account, (recoveryCodes \ {code}) \cup {[code EXCEPT !.used = TRUE]},
                  <<"code", code.batch, 0>>)
    PROVE  EvidenceInv'
  <1>a. PICK new : new = [challenge |-> inFlight[r].challenge, request |-> r,
                          evidence |-> <<"code", code.batch, 0>>]
      OBVIOUS
  <1>b. new.evidence = <<"code", code.batch, 0>>
      BY <1>a
  <1>n. /\ new = [challenge |-> inFlight[r].challenge, request |-> r,
                  evidence |-> <<"code", code.batch, 0>>]
        /\ new.evidence = <<"code", code.batch, 0>>
      BY <1>a, <1>b
  <1> DEFINE spent == [code EXCEPT !.used = TRUE]
  <1>c. code \in [batch : Int, used : BOOLEAN]
      BY DEF EvidenceInv
  <1>d. code.used = FALSE /\ code.batch \in Int
      BY <1>c
  <1>e. code = [batch |-> code.batch, used |-> FALSE]
      BY <1>c, <1>d
  <1>f. spent \in [batch : Int, used : BOOLEAN] /\ spent.batch = code.batch /\ spent.used = TRUE
      BY <1>c
  <1>0. /\ code.batch \in Int /\ code = [batch |-> code.batch, used |-> FALSE]
        /\ spent \in [batch : Int, used : BOOLEAN] /\ spent.batch = code.batch /\ spent.used = TRUE
      BY <1>d, <1>e, <1>f
  <1>1. \/ UNCHANGED <<account, recoveryCodes, signedIn>>
        \/ /\ account' = account \/ account' = issue(account)
           /\ recoveryCodes' = (recoveryCodes \ {code}) \cup {spent}
           /\ signedIn' = signedIn \/ signedIn' = signedIn \cup {new}
      BY <1>0, <1>n DEF Commit
  <1> HIDE DEF spent
  <1>2. CASE UNCHANGED <<account, recoveryCodes, signedIn>>
    <2>1. MfaMoves
        BY <1>2, SameAccount DEF EvidenceInv
    <2> QED BY <1>2, <2>1, NobodySignsIn
  <1>3. CASE /\ account' = account \/ account' = issue(account)
             /\ recoveryCodes' = (recoveryCodes \ {code}) \cup {spent}
             /\ signedIn' = signedIn \/ signedIn' = signedIn \cup {new}
    <2>1. /\ IsAccount(account')
          /\ account'.lastUsedStep = account.lastUsedStep /\ account'.enrolled = account.enrolled
          /\ account.lastUsedStep \in Int /\ resets \in Int
        BY <1>3 DEF IsAccount, EvidenceInv, issue
    <2>2. recoveryCodes' \subseteq [batch : Int, used : BOOLEAN]
        BY <1>0, <1>3 DEF EvidenceInv
    <2>3. \A d \in recoveryCodes' : /\ \E old \in recoveryCodes : d.batch = old.batch
                                    /\ ~d.used => d \in recoveryCodes
        BY <1>0, <1>3
    <2>4. MfaMoves
        BY <2>1, <2>2, <2>3 DEF MfaMoves
    <2>5. CodeSpent(new)'
      <3>1. [batch |-> code.batch, used |-> FALSE] \notin recoveryCodes'
          BY <1>0, <1>3
      <3>2. code.batch <= resets' /\ (code.batch = resets' => account'.enrolled)
          BY <2>1 DEF EvidenceInv, BatchesAreOld
      <3>3. \E b \in Int : /\ new.evidence = <<"code", b, 0>>
                            /\ [batch |-> b, used |-> FALSE] \notin recoveryCodes'
                            /\ b <= resets' /\ (b = resets' => account'.enrolled)
          BY <1>0, <1>n, <3>1, <3>2
      <3> QED BY <3>3 DEF CodeSpent
    <2>6. \A e \in signedIn : e.evidence # new.evidence
      <3> SUFFICES ASSUME NEW e \in signedIn, e.evidence = <<"code", code.batch, 0>> PROVE FALSE
          BY <1>n
      <3>1. ~StepSpent(e)
          BY DEF StepSpent
      <3>2. ~CodeSpent(e)
        <4> SUFFICES ASSUME NEW b \in Int, e.evidence = <<"code", b, 0>>,
                            [batch |-> b, used |-> FALSE] \notin recoveryCodes
                     PROVE  FALSE
            BY DEF CodeSpent
        <4>1. b = code.batch
            OBVIOUS
        <4> QED BY <1>0, <4>1
      <3> QED BY <3>1, <3>2 DEF EvidenceInv
    <2>7. CASE signedIn' = signedIn
        BY <2>4, <2>7, NobodySignsIn
    <2>8. CASE signedIn' = signedIn \cup {new}
        BY <2>4, <2>5, <2>6, <2>8, SomebodySignsIn
    <2> QED BY <1>3, <2>7, <2>8
  <1> QED BY <1>1, <1>2, <1>3

LEMMA EvidenceInvInit == MfaInit => EvidenceInv
  <1> SUFFICES ASSUME MfaInit PROVE EvidenceInv
      OBVIOUS
  <1>1. signedIn = {} /\ resets = 0
      BY DEF MfaInit
  <1>2. CASE account = Fresh /\ recoveryCodes = {}
      BY <1>1, <1>2 DEF IsAccount, EvidenceInv, BatchesAreOld, EvidenceBuysOneSession, Fresh, NoSecret, NoStep
  <1>3. CASE /\ account = [Fresh EXCEPT !.enrolled = TRUE, !.secret = 1]
             /\ recoveryCodes = {[batch |-> 0, used |-> FALSE]}
    <2>1. account.enrolled
        BY <1>3 DEF Fresh
    <2>2. IsAccount(account)
        BY <1>3 DEF IsAccount, Fresh, NoSecret, NoStep
    <2>3. BatchesAreOld
        BY <1>1, <1>3, <2>1 DEF BatchesAreOld
    <2> QED BY <1>1, <1>3, <2>2, <2>3 DEF EvidenceInv, EvidenceBuysOneSession
  <1> QED BY <1>2, <1>3 DEF MfaInit

LEMMA EvidenceInvNext == EvidenceInv /\ [MfaNext]_mfaVars => EvidenceInv'
  <1> SUFFICES ASSUME EvidenceInv, [MfaNext]_mfaVars PROVE EvidenceInv'
      OBVIOUS
  <1>0. IsAccount(account) /\ resets \in Int
      BY DEF EvidenceInv
  <1>1. CASE UNCHANGED <<account, recoveryCodes, resets, signedIn>>
    <2>1. MfaMoves
        BY <1>0, <1>1, SameAccount
    <2> QED BY <1>1, <2>1, NobodySignsIn
  <1>2. ASSUME NEW r \in MfaRequests, NEW d,
               \/ ReadLogin(r) \/ AbortAfterClaim(r) \/ ReadVerify(r, d) \/ ReadRecovery(r, d)
               \/ SignChallenge(r, d) \/ ReadEnrol(r, d) \/ ReadConfirm(r, d)
        PROVE  EvidenceInv'
      BY <1>1, <1>2 DEF ReadLogin, AbortAfterClaim, ReadVerify, ReadRecovery, SignChallenge,
                        ReadEnrol, ReadConfirm, Reads
  <1>3. ASSUME UNCHANGED <<recoveryCodes, signedIn, resets>>,
               \/ \E n, b : account' = [account EXCEPT !.failed = n, !.locked = b]
               \/ \E b : account' = [account EXCEPT !.locked = b]
        PROVE  EvidenceInv'
    <2>1. /\ IsAccount(account') /\ account'.enrolled = account.enrolled
          /\ account'.lastUsedStep = account.lastUsedStep
        BY <1>0, <1>3 DEF IsAccount
    <2>2. MfaMoves
        BY <1>3, <2>1, SameAccount
    <2> QED BY <1>3, <2>2, NobodySignsIn
  <1>4. ASSUME NEW r \in MfaRequests, recordFailure(r) PROVE EvidenceInv'
      BY <1>3, <1>4 DEF recordFailure
  <1>5. CASE LockoutExpires
      BY <1>3, <1>5 DEF LockoutExpires
  <1>6. ASSUME NEW r \in MfaRequests, EnrolWrite(r) PROVE EvidenceInv'
    <2>1. /\ account' = [account EXCEPT !.secret = resets + 2, !.lastUsedStep = NoStep]
          /\ resets' = resets + 1 /\ UNCHANGED <<recoveryCodes, signedIn>>
        BY <1>6 DEF EnrolWrite
    <2>2. IsAccount(account')
        BY <1>0, <2>1 DEF IsAccount, NoStep
    <2>3. \A code \in recoveryCodes' : code \in recoveryCodes
        BY <2>1
    <2>4. MfaMoves
        BY <1>0, <2>1, <2>2, <2>3 DEF MfaMoves, EvidenceInv
    <2> QED BY <2>1, <2>4, NobodySignsIn
  <1>7. CASE resetForUser
    <2>1. /\ account' = [account EXCEPT !.enrolled = FALSE, !.secret = NoSecret, !.lastUsedStep = NoStep]
          /\ recoveryCodes' = {[e EXCEPT !.used = TRUE] : e \in recoveryCodes}
          /\ resets' = resets + 1 /\ signedIn' = signedIn
        BY <1>7 DEF resetForUser
    <2>2. IsAccount(account')
        BY <1>0, <2>1 DEF IsAccount, NoStep
    <2>3. ASSUME NEW code \in recoveryCodes'
          PROVE  /\ code \in [batch : Int, used : BOOLEAN] /\ code.used
                 /\ \E old \in recoveryCodes : code.batch = old.batch
      <3>1. PICK e \in recoveryCodes : code = [e EXCEPT !.used = TRUE]
          BY <2>1
      <3>2. e \in [batch : Int, used : BOOLEAN]
          BY DEF EvidenceInv
      <3> QED BY <3>1, <3>2
    <2>4. MfaMoves
        BY <1>0, <2>1, <2>2, <2>3 DEF MfaMoves
    <2> QED BY <2>1, <2>4, NobodySignsIn
  <1>8. ASSUME NEW r \in MfaRequests, NEW step \in Int, ConfirmCommit(r, step) PROVE EvidenceInv'
    <2>1. CASE Refused
        BY <1>1, <1>8, <2>1 DEF ConfirmCommit, Refused
    <2>2. CASE ~account.enrolled /\ stepNotYetUsed(step)
      <3> DEFINE row == [account EXCEPT !.enrolled = TRUE, !.lastUsedStep = step]
                 left == recoveryCodes \cup {[batch |-> resets, used |-> FALSE]}
      <3>1. Commit(r, row, left, <<"step", resets, step>>) /\ resets' = resets
          BY <1>8, <2>2 DEF ConfirmCommit
      <3>2. IsAccount(row) /\ row.lastUsedStep = step /\ row.enrolled
          BY <1>0 DEF IsAccount
      <3>3. account.lastUsedStep < step
          BY <2>2 DEF stepNotYetUsed
      <3>4. left = recoveryCodes \cup {[batch |-> resets, used |-> FALSE]}
          OBVIOUS
      <3> HIDE DEF row, left
      <3> QED BY <2>2, <3>1, <3>2, <3>3, <3>4, StepSignsInOnce
    <2> QED BY <1>8, <2>1, <2>2 DEF ConfirmCommit
  <1>9. ASSUME NEW r \in MfaRequests, NEW step \in Int, VerifyCommit(r, step) PROVE EvidenceInv'
    <2>1. CASE Refused
        BY <1>1, <1>9, <2>1 DEF VerifyCommit, Refused
    <2>2. CASE burnTotpStep(step)
      <3> DEFINE row == [account EXCEPT !.lastUsedStep = step]
      <3>1. Commit(r, row, recoveryCodes, <<"step", resets, step>>) /\ resets' = resets
          BY <1>9, <2>2 DEF VerifyCommit
      <3>2. IsAccount(row) /\ row.lastUsedStep = step /\ (account.enrolled => row.enrolled)
          BY <1>0 DEF IsAccount
      <3>3. account.lastUsedStep < step
          BY <2>2 DEF burnTotpStep, stepNotYetUsed
      <3> HIDE DEF row
      <3> QED BY <3>1, <3>2, <3>3, StepSignsInOnce
    <2> QED BY <1>9, <2>1, <2>2 DEF VerifyCommit
  <1>10. ASSUME NEW r \in MfaRequests, NEW code, RecoveryCommit(r, code) PROVE EvidenceInv'
    <2>1. CASE Refused
        BY <1>1, <1>10, <2>1 DEF RecoveryCommit, Refused
    <2>2. CASE markedUsed(code)
        BY <1>10, <2>2, CodeSignsInOnce DEF RecoveryCommit, markedUsed
    <2> QED BY <1>10, <2>1, <2>2 DEF RecoveryCommit
  <1>11. CASE (\E d \in Challenges : ChallengeExpires(d)) \/ TotpStepPasses
      BY <1>1, <1>11 DEF ChallengeExpires, TotpStepPasses
  <1>12. CASE UNCHANGED mfaVars
      BY <1>1, <1>12 DEF mfaVars
  <1>13. \A step \in 0..(MaxTotpStep + 1) : step \in Int
      BY SecondFactorAssumption
  <1> QED BY <1>2, <1>4, <1>5, <1>6, <1>7, <1>8, <1>9, <1>10, <1>11, <1>12, <1>13 DEF MfaNext

(* However the requests of several tabs interleave with a wrong code, a    *)
(* lockout, a new enrolment and an administrator's reset, a one-time code  *)
(* and a recovery code are good for one session each (burnTotpStep,        *)
(* stepNotYetUsed, redeemRecoveryCode).                                    *)
THEOREM OneSessionPerCode == MfaSpec => []EvidenceBuysOneSession
  <1>1. EvidenceInv => EvidenceBuysOneSession
      BY DEF EvidenceInv
  <1> QED BY <1>1, EvidenceInvInit, EvidenceInvNext, PTL DEF MfaSpec

-----------------------------------------------------------------------------
(* ClientSession.                                                          *)

(* What a step may do to the page's latches: nothing, while the same or    *)
(* nobody is signed in; set one in the name of the person signed in or of  *)
(* nobody in particular; drop the others when the page changes hands.      *)
LatchesMove ==
    \/ UNCHANGED <<currentUser, gate, codes>>
    \/ /\ currentUser' = NoUser /\ codes' \in {codes, NoUser}
    \/ AcknowledgeCodes
    \/ /\ currentUser' = currentUser
       /\ gate' \in {gate, NoUser, Late, currentUser}
       /\ codes' \in {codes, Late, currentUser}
    \/ /\ currentUser' # currentUser
       /\ gate' = NoUser /\ codes' \in {NoUser, currentUser'}

(* Every step of the session moves the latches in one of those ways.       *)
LEMMA SessionMovesLatches == SessionNext => LatchesMove
  <1> SUFFICES ASSUME SessionNext PROVE LatchesMove
      OBVIOUS
  <1> USE DEF LatchesMove
  <1>1. ASSUME NEW s \in Calls,
               \/ ensureFreshToken(s) \/ authorizedFetch(s) \/ SecondStepSent(s) \/ ConfirmSent(s)
               \/ PasswordSent(s) \/ LogoutSent(s) \/ \E u \in People : LoginSent(s, u)
        PROVE  LatchesMove
      BY <1>1 DEF ensureFreshToken, authorizedFetch, SecondStepSent, ConfirmSent, PasswordSent,
                  LogoutSent, LoginSent, Send, pageVars
  <1>2. ASSUME NEW s \in Calls,
               \/ LoginHandled(s) \/ SecondStepHandled(s) \/ RotateRead(s) \/ RotateWrite(s)
               \/ FetchHandled(s) \/ PasswordHandled(s) \/ LogoutHandled(s)
        PROVE  LatchesMove
      BY <1>2 DEF LoginHandled, SecondStepHandled, RotateRead, RotateWrite, FetchHandled,
                  PasswordHandled, LogoutHandled, pageVars
  <1>3. ASSUME NEW s \in Calls, SessionArrives(s)
        PROVE  LatchesMove
    <2> DEFINE u == tokens[calls[s].grant].user
    <2>1. /\ currentUser' = u
          /\ gate' = IF currentUser = u THEN gate ELSE NoUser
          /\ codes' = IF calls[s].op = "confirm" THEN u
                      ELSE IF currentUser = u THEN codes ELSE NoUser
        BY <1>3 DEF SessionArrives, acceptAuthResult, KeepsLatches
    <2>2. CASE currentUser = u
        BY <2>1, <2>2
    <2>3. CASE currentUser # u
        BY <2>1, <2>3
    <2> QED BY <2>2, <2>3
  <1>4. ASSUME NEW s \in Calls, GateArrives(s) \/ DoneArrives(s)
        PROVE  LatchesMove
      BY <1>4 DEF GateArrives, DoneArrives, OwnerOfLatch
  <1>5. ASSUME NEW s \in Calls, RefreshRefused(s) \/ LogoutReturns(s)
        PROVE  LatchesMove
      BY <1>5 DEF RefreshRefused, LogoutReturns
  <1>6. ASSUME NEW s \in Calls,
               \/ ChallengeArrives(s) \/ UnauthenticatedArrives(s)
               \/ RefusedArrives(s) \/ AnswerLost(s)
        PROVE  LatchesMove
      BY <1>6 DEF ChallengeArrives, UnauthenticatedArrives, RefusedArrives, AnswerLost, pageVars
  <1>7. ASSUME NEW u \in People, Deactivate(u) PROVE LatchesMove
      BY <1>7 DEF Deactivate, pageVars
  <1>8. CASE restart
      BY <1>8 DEF restart
  <1>9. CASE Reload
      BY <1>9 DEF Reload
  <1> QED BY <1>1, <1>2, <1>3, <1>4, <1>5, <1>6, <1>7, <1>8, <1>9 DEF SessionNext

(* A step that leaves the session's variables alone keeps the latches.     *)
LEMMA SessionStep == [SessionNext]_sessionVars => LatchesMove
  BY SessionMovesLatches DEF LatchesMove, sessionVars, pageVars

(* Whoever signs in, and in whatever order sessions and refusals arrive,   *)
(* the person signed in never keeps what was latched for another: only an  *)
(* answer to an earlier person's call that arrives later still can latch   *)
(* the page of somebody else (acceptAuthResult).                           *)
THEOREM LatchesFollow == SessionSpec => []LatchesFollowTheAccount
  <1>1. SessionInit => LatchesFollowTheAccount
      BY DEF SessionInit, LatchesFollowTheAccount
  <1>2. LatchesFollowTheAccount /\ [SessionNext]_sessionVars => LatchesFollowTheAccount'
    <2> SUFFICES ASSUME LatchesFollowTheAccount, LatchesMove
                 PROVE  LatchesFollowTheAccount'
        BY SessionStep
    <2> QED BY DEF LatchesFollowTheAccount, LatchesMove, AcknowledgeCodes
  <1> QED BY <1>1, <1>2, PTL DEF SessionSpec

(* An accepted session spares the codes of the person it belongs to while  *)
(* that person is signed in: what is latched then is theirs.               *)
LEMMA SessionSparesItsCodes ==
    ASSUME LatchesFollowTheAccount, NEW s \in Calls, SessionArrives(s)
    PROVE  CodesMayGo
  <1> SUFFICES ASSUME codes \in People, codes' \notin {codes, Late},
                      SessionOf(s) = codes, currentUser # NoUser
               PROVE  FALSE
      BY DEF CodesMayGo
  <1>1. codes = currentUser
      BY ClientSessionAssumption DEF LatchesFollowTheAccount
  <1>2. codes' = IF calls[s].op = "confirm" THEN SessionOf(s)
                 ELSE IF currentUser = SessionOf(s) THEN codes ELSE NoUser
      BY DEF SessionArrives, SessionOf, KeepsLatches
  <1> QED BY <1>1, <1>2

(* A confirmed enrolment brings new codes to the person signed in, whose   *)
(* the codes on show were already.                                         *)
LEMMA NewCodesReplaceTheirOwn ==
    ASSUME LatchesFollowTheAccount, NEW s \in Calls, DoneArrives(s)
    PROVE  codes \in People => codes' \in {codes, Late}
  BY ClientSessionAssumption DEF DoneArrives, OwnerOfLatch, LatchesFollowTheAccount

(* However calls are refused, lost or answered late, the recovery codes of *)
(* a person who has not acknowledged them go only with a logout, a reload, *)
(* or another session: somebody else's, or the first one accepted after a  *)
(* refused refresh (acceptAuthResult, refresh).                            *)
THEOREM CodesGoOneWay == SessionSpec => CodesGoWithAnotherSession
  <1>1. LatchesFollowTheAccount /\ [SessionNext]_sessionVars => [CodesMayGo]_sessionVars
    <2> SUFFICES ASSUME LatchesFollowTheAccount, SessionNext
                 PROVE  CodesMayGo
        OBVIOUS
    <2>1. CASE \E s \in Calls : SessionArrives(s)
        BY <2>1, SessionSparesItsCodes
    <2>2. CASE \E s \in Calls : DoneArrives(s)
        BY <2>2, NewCodesReplaceTheirOwn DEF CodesMayGo
    <2>3. CASE \E s \in Calls : LogoutReturns(s)
        BY <2>3 DEF CodesMayGo
    <2>4. CASE Reload \/ AcknowledgeCodes
        BY <2>4 DEF CodesMayGo
    <2>5. CASE codes' = codes
        BY <2>5 DEF CodesMayGo
    <2>6. ASSUME NEW s \in Calls,
                 \/ ensureFreshToken(s) \/ authorizedFetch(s) \/ SecondStepSent(s) \/ ConfirmSent(s)
                 \/ PasswordSent(s) \/ LogoutSent(s) \/ (\E u \in People : LoginSent(s, u))
                 \/ LoginHandled(s) \/ SecondStepHandled(s) \/ RotateRead(s) \/ RotateWrite(s)
                 \/ FetchHandled(s) \/ PasswordHandled(s) \/ LogoutHandled(s)
          PROVE  codes' = codes
        BY <2>6 DEF ensureFreshToken, authorizedFetch, SecondStepSent, ConfirmSent, PasswordSent,
                    LogoutSent, LoginSent, Send, LoginHandled, SecondStepHandled, RotateRead,
                    RotateWrite, FetchHandled, PasswordHandled, LogoutHandled, pageVars
    <2>7. ASSUME NEW s \in Calls,
                 \/ ChallengeArrives(s) \/ RefreshRefused(s) \/ UnauthenticatedArrives(s)
                 \/ GateArrives(s) \/ RefusedArrives(s) \/ AnswerLost(s)
          PROVE  codes' = codes
        BY <2>7 DEF ChallengeArrives, RefreshRefused, UnauthenticatedArrives, GateArrives,
                    RefusedArrives, AnswerLost, pageVars
    <2>8. ASSUME restart \/ \E u \in People : Deactivate(u) PROVE codes' = codes
        BY <2>8 DEF restart, Deactivate, pageVars
    <2> QED BY <2>1, <2>2, <2>3, <2>4, <2>5, <2>6, <2>7, <2>8 DEF SessionNext
  <1> QED BY <1>1, LatchesFollow, PTL DEF SessionSpec, CodesGoWithAnotherSession

-----------------------------------------------------------------------------
(* AreaScopes.                                                             *)

USE AreaScopesAssumption

(* A page's save and what a page shows.                                    *)
Save == [step : {"none", "sent", "writing"}, desired : SUBSET AreaIds,
         before : SUBSET AreaIds, on : SUBSET AreaIds, off : SUBSET AreaIds]
View == [listed : SUBSET AreaIds, held : SUBSET AreaIds, loaded : BOOLEAN]

(* A save only switches on what it asks for, and off what it does not.     *)
RowsFollowRequest ==
    \A s \in AdminScreens : /\ saves[s].on \subseteq saves[s].desired
                            /\ saves[s].off \cap saves[s].desired = {}

(* Both together survive every step: what a commit switches on is all it   *)
(* asked for, and none of it is switched off again in the same commit.     *)
ScopeInv == ScopeTypeOK /\ RowsFollowRequest /\ UnrestrictedByChoice

LEMMA ScopeInvInit == ScopeInit => ScopeInv
  <1>1. NoSave \in Save /\ NoView \in View
      BY DEF NoSave, NoView, Save, View
  <1>2. NoSave.on = {} /\ NoSave.off = {}
      BY DEF NoSave
  <1>3. ASSUME ScopeInit
        PROVE  saves \in [AdminScreens -> Save] /\ views \in [AdminScreens -> View]
      BY <1>1, <1>3 DEF ScopeInit
  <1> SUFFICES ASSUME ScopeInit PROVE ScopeInv
      OBVIOUS
  <1>4. areas \in [AreaIds -> {"absent", "active", "retired"}] /\ saveCount \in 0 .. MaxSaves
      BY DEF ScopeInit
  <1>5. ScopeTypeOK
      BY <1>3, <1>4 DEF ScopeInit, ScopeTypeOK, Save, View
  <1>6. RowsFollowRequest /\ UnrestrictedByChoice
      BY <1>2 DEF ScopeInit, RowsFollowRequest, UnrestrictedByChoice
  <1> QED BY <1>5, <1>6 DEF ScopeInv

(* Every action keeps it.                                                  *)
LEMMA ScopeInvNext ==
    ASSUME ScopeInv, [ScopeNext]_scopeVars PROVE ScopeInv'
  <1> USE DEF ScopeInv, ScopeTypeOK, RowsFollowRequest, UnrestrictedByChoice, Unrestricted, NoSave
  <1>1. ASSUME NEW a \in AreaIds, NEW x \in {"active", "retired"},
               createArea(a) \/ setAreaActive(a, x)
        PROVE  ScopeInv'
      BY <1>1 DEF createArea, setAreaActive
  <1>2. ASSUME NEW s \in AdminScreens, loadUser(s) PROVE ScopeInv'
    <2>1. [listed |-> AreasThat("active"), held |-> scopes, loaded |-> TRUE] \in View
        BY DEF AreasThat, View
    <2>2. views' \in [AdminScreens -> View]
        BY <1>2, <2>1 DEF loadUser, View
    <2> QED BY <1>2, <2>2 DEF loadUser, View
  <1>3. ASSUME NEW s \in AdminScreens, readScopes(s) PROVE ScopeInv'
    <2> DEFINE asked == saves[s].desired
               began == [saves[s] EXCEPT !.step = "writing", !.before = scopes]
    <2>1. /\ began \in Save /\ NoSave \in Save
          /\ began.on = saves[s].on /\ began.off = saves[s].off /\ began.desired = asked
        BY DEF Save
    <2>2. saves' = [saves EXCEPT ![s] = IF asked \subseteq AreasThat("active") /\ scopes # asked
                                        THEN began ELSE NoSave]
        BY <1>3 DEF readScopes
    <2>3. saves' \in [AdminScreens -> Save] /\ RowsFollowRequest'
        BY <2>1, <2>2 DEF Save
    <2>4. views' \in [AdminScreens -> View]
        BY <1>3 DEF readScopes, View
    <2> QED BY <1>3, <2>3, <2>4 DEF readScopes, Save, View
  <1>4. ASSUME NEW s \in AdminScreens, commitScopes(s) PROVE ScopeInv'
    <2> DEFINE committed == (scopes \cup saves[s].on) \ saves[s].off
    <2>1. /\ saves' = [saves EXCEPT ![s] = NoSave] /\ scopes' = committed
          /\ views' = [views EXCEPT ![s].held = committed]
          /\ committed \subseteq AreaIds /\ NoSave \in Save
        BY <1>4 DEF commitScopes, Save
    <2>2. saves' \in [AdminScreens -> Save] /\ RowsFollowRequest'
        BY <2>1 DEF Save
    <2>3. views' \in [AdminScreens -> View]
        BY <2>1 DEF View
    <2>4. ScopeTypeOK' /\ RowsFollowRequest'
        BY <1>4, <2>1, <2>2, <2>3 DEF commitScopes, Save, View
    <2>5. CASE saves[s].desired = {}
        BY <1>4, <2>4, <2>5 DEF commitScopes
    <2>6. CASE saves[s].desired # {}
      <3>1. PICK a \in saves[s].desired : TRUE
          BY <2>6
      <3>2. a \in saves[s].on /\ a \notin saves[s].off
          BY <1>4, <3>1 DEF commitScopes, ToUpsert
      <3>3. a \in scopes'
          BY <1>4, <3>2 DEF commitScopes
      <3> QED BY <2>4, <3>3
    <2> QED BY <2>5, <2>6
  <1>5. ASSUME NEW s \in AdminScreens, deadlockAborts(s) PROVE ScopeInv'
      BY <1>5 DEF deadlockAborts
  <1>6. ASSUME NEW s \in AdminScreens, NEW desired \in SUBSET selectableAreas(s),
               saveAreas(s, desired)
        PROVE  ScopeInv'
    <2>1. desired \subseteq AreaIds
        BY DEF selectableAreas
    <2> DEFINE asked == [NoSave EXCEPT !.step = "sent", !.desired = desired]
    <2>2. asked \in Save /\ asked.on = {} /\ asked.off = {}
        BY <2>1 DEF Save
    <2>3. saves' = [saves EXCEPT ![s] = asked]
        BY <1>6 DEF saveAreas
    <2>4. saves' \in [AdminScreens -> Save] /\ RowsFollowRequest'
        BY <2>2, <2>3 DEF Save
    <2>5. saveCount' \in 0 .. MaxSaves
        BY <1>6 DEF saveAreas
    <2> QED BY <1>6, <2>4, <2>5 DEF saveAreas, Save
  <1>7. ASSUME NEW s \in AdminScreens, NEW a \in AreaIds, upsertScope(s, a) PROVE ScopeInv'
      BY <1>7 DEF upsertScope, ToUpsert
  <1>8. ASSUME NEW s \in AdminScreens, NEW a \in AreaIds, revokeScope(s, a) PROVE ScopeInv'
      BY <1>8 DEF revokeScope, ToRevoke
  <1>9. CASE UNCHANGED scopeVars
      BY <1>9 DEF scopeVars
  <1> QED BY <1>1, <1>2, <1>3, <1>4, <1>5, <1>6, <1>7, <1>8, <1>9 DEF ScopeNext

(* However the saves of several administrators overlap, commit or abort,   *)
(* a person whose last committed save asked for some area is restricted    *)
(* (UsersService.setAreaScopes: every area asked for is written).          *)
THEOREM RestrictionHolds == ScopeSpec => []UnrestrictedByChoice
  <1>1. ScopeSpec => []ScopeInv
      BY ScopeInvInit, ScopeInvNext, PTL DEF ScopeSpec
  <1>2. ScopeInv => UnrestrictedByChoice
      BY DEF ScopeInv
  <1> QED BY <1>1, <1>2, PTL
=============================================================================
