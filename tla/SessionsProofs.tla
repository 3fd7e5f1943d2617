--------------------------- MODULE SessionsProofs ---------------------------
(* Proofs about Sessions, for every value of its constants. *)
EXTENDS Sessions, FiniteSetTheorems, TLAPS

USE SessionsAssumption

\* A payload that says a code was checked comes from a secret.
Proved(payload) == payload.tfaVerified = "True" => payload.otp # Null

PairsProved    == \A n \in 1..Len(pairs) : Proved(pairs[n])
RequestsProved == \A r \in Requests : req[r].at = "Write" => Proved(req[r].payload)

Sound == TypeOK /\ PairsProved /\ RequestsProved

LEMMA RequestFields ==
    ASSUME NEW q \in Request
    PROVE  /\ q.at = "Write" => q.payload \in Payload
           /\ q.at \in {"TurnOn", "ReadOn"} => q.otp \in Secret
           /\ q.at \in {"Change", "LoginAgain", "Reset"} => q.password \in Passwords
  BY DEF Request, Idle

(***************************************************************************)
(* The points a handler moves to are requests.                             *)
(***************************************************************************)
LEMMA RequestPoints ==
    /\ Idle \in Request
    /\ \A show \in {"Mail", "QR"} : [at |-> "Secret", show |-> show] \in Request
    /\ [at |-> "ShowQR"] \in Request /\ [at |-> "Logout"] \in Request
    /\ [at |-> "TurnOff"] \in Request /\ [at |-> "ReadOff"] \in Request
    /\ \A s \in Secret : [at |-> "TurnOn", otp |-> s] \in Request /\ [at |-> "ReadOn", otp |-> s] \in Request
    /\ \A p \in Passwords, at \in {"Change", "LoginAgain", "Reset"} : [at |-> at, password |-> p] \in Request
    /\ \A by \in {"Login", "Refresh", "TurnOn", "TurnOff", "Verify"}, payload \in Payload :
          WritePoint(by, payload) \in Request
<1>1. \A p \in Passwords, at \in {"Change", "LoginAgain", "Reset"} : [at |-> at, password |-> p] \in Request
  BY DEF Request
<1>2. \A by \in {"Login", "Refresh", "TurnOn", "TurnOff", "Verify"}, payload \in Payload :
          WritePoint(by, payload) \in Request
  BY DEF Request, WritePoint
<1>3. \A s \in Secret : [at |-> "TurnOn", otp |-> s] \in Request /\ [at |-> "ReadOn", otp |-> s] \in Request
  BY DEF Request
<1>4. \A show \in {"Mail", "QR"} : [at |-> "Secret", show |-> show] \in Request
  BY DEF Request
<1>5. /\ Idle \in Request
      /\ [at |-> "ShowQR"] \in Request /\ [at |-> "Logout"] \in Request
      /\ [at |-> "TurnOff"] \in Request /\ [at |-> "ReadOff"] \in Request
  BY DEF Request
<1> QED
  BY <1>1, <1>2, <1>3, <1>4, <1>5

LEMMA PayloadMade ==
    ASSUME NEW e \in BOOLEAN, NEW v \in {"Absent", "False", "True"}, NEW s \in Secret \cup {Null}
    PROVE  /\ TokenPayload(e, v, s) \in Payload
           /\ (v = "True" => s # Null) => Proved(TokenPayload(e, v, s))
  BY DEF TokenPayload, Payload, Proved

LEMMA SoundInit == Init => Sound
<1> SUFFICES ASSUME Init PROVE Sound
  OBVIOUS
<1>1. pairs \in Seq(Payload) /\ Len(pairs) = 0
  BY DEF Init
<1>2. row \in User
  BY DEF Init, User
<1>3. req \in [Requests -> Request] /\ RequestsProved
  BY RequestPoints DEF Init, RequestsProved, Idle
<1>4. PairsProved
  BY <1>1 DEF PairsProved
<1>5. row.tokens = Null /\ row.tfaSecret = Null
  BY DEF Init
<1> QED
  BY <1>1, <1>2, <1>3, <1>4, <1>5 DEF Sound, TypeOK, Init, ServingInit, Null

\* The fields of the row.
LEMMA UserFields ==
    ASSUME Sound
    PROVE  /\ row.password \in Passwords /\ row.tfaEnabled \in BOOLEAN
           /\ row.tfaSecret \in Secret \cup {Null} /\ row.tokens \in Pair \cup {Null}
  BY DEF Sound, TypeOK, User

\* The row's secret was generated, and so can be the one of a code.
LEMMA SecretGenerated ==
    ASSUME Sound
    PROVE  /\ row.tfaSecret # Null => row.tfaSecret \in 1..generated
           /\ CodeMatches => row.tfaSecret \in Secret /\ row.tfaSecret # Null
<1>1. generated \in 0..MaxSecrets /\ row.tfaSecret <= generated /\ shown \subseteq 1..generated
  BY DEF Sound, TypeOK
<1>2. row.tfaSecret \in 0..MaxSecrets
  BY UserFields DEF Secret, Null
<1>3. row.tfaSecret # Null => row.tfaSecret \in 1..generated
  BY <1>1, <1>2 DEF Null
<1>4. CodeMatches => row.tfaSecret \in 1..generated
  BY <1>1 DEF CodeMatches
<1> QED
  BY <1>1, <1>3, <1>4 DEF Secret, Null

(***************************************************************************)
(* A handler that only moves on to a point.                                *)
(***************************************************************************)
LEMMA GotoSound ==
    ASSUME Sound, NEW r \in Requests, NEW q \in Request, Goto(r, q),
           q.at = "Write" => Proved(q.payload)
    PROVE  req' \in [Requests -> Request] /\ RequestsProved'
  BY DEF Goto, Sound, TypeOK, RequestsProved

LEMMA ReplySound ==
    ASSUME Sound, NEW r \in Requests, Reply(r)
    PROVE  req' \in [Requests -> Request] /\ RequestsProved'
  BY RequestPoints DEF Reply, Idle, Sound, TypeOK, RequestsProved

LEMMA StartSound ==
    ASSUME Sound, NEW r \in Requests, NEW q \in Request, Start(r, q), UNCHANGED width,
           q.at = "Write" => Proved(q.payload)
    PROVE  Sound'
<1>1. Goto(r, q) /\ UNCHANGED <<row, pairs, generated, shown, failures>>
  BY DEF Start
<1>2. req' \in [Requests -> Request] /\ RequestsProved'
  BY <1>1, GotoSound
<1> QED
  BY <1>1, <1>2 DEF Sound, TypeOK, PairsProved

(***************************************************************************)
(* The reads that begin a handler.                                         *)
(***************************************************************************)
LEMMA BeginSound ==
    ASSUME Sound, NEW r \in Requests, Begin(r), UNCHANGED width
    PROVE  Sound'
<1>1. CASE Login(r)
  <2>1. LoginPayload(row.tfaEnabled) \in Payload /\ Proved(LoginPayload(row.tfaEnabled))
    BY UserFields, PayloadMade DEF LoginPayload
  <2> QED
    BY <1>1, <2>1, RequestPoints, StartSound DEF Login, WritePoint
<1>2. CASE Logout(r)
  BY <1>2, RequestPoints, StartSound DEF Logout
<1>3. ASSUME NEW n \in Pair, RefreshToken(r, n)
      PROVE  Sound'
  <2> DEFINE otp == IF Verified(n) = "True" THEN pairs[n].otp ELSE Null
             payload == TokenPayload(row.tfaEnabled, Verified(n), otp)
  <2>1. n \in 1..Len(pairs) /\ Start(r, WritePoint("Refresh", payload))
    BY <1>3 DEF RefreshToken
  <2>2. pairs[n] \in Payload /\ Proved(pairs[n])
    BY <2>1 DEF Sound, TypeOK, PairsProved
  <2>3. /\ pairs[n].tfaVerified \in {"Absent", "False", "True"}
        /\ pairs[n].otp \in Secret \cup {Null}
        /\ pairs[n].tfaVerified = "True" => pairs[n].otp # Null
    BY <2>2 DEF Payload, Proved
  <2>4. /\ Verified(n) \in {"Absent", "False", "True"} /\ otp \in Secret \cup {Null}
        /\ Verified(n) = "True" => otp # Null
    BY <2>3 DEF Verified
  <2> HIDE DEF otp
  <2>5. payload \in Payload /\ Proved(payload)
    BY <2>4, UserFields, PayloadMade
  <2> HIDE DEF payload
  <2>6. WritePoint("Refresh", payload) \in Request /\ WritePoint("Refresh", payload).payload = payload
    BY <2>5, RequestPoints DEF WritePoint
  <2> QED
    BY <2>1, <2>5, <2>6, StartSound
<1>4. ASSUME NEW show \in {"Mail", "QR"}, EnableTFA(r, show) \/ SendCode(r, show)
      PROVE  Sound'
  <2>1. CASE Start(r, [at |-> "Secret", show |-> show])
    BY <2>1, RequestPoints, StartSound
  <2>2. CASE Start(r, [at |-> "ShowQR"])
    BY <2>2, RequestPoints, StartSound
  <2>3. CASE /\ row.tfaSecret # Null /\ shown' = shown \cup {row.tfaSecret}
             /\ UNCHANGED <<row, pairs, generated, req, failures>>
    <3>1. row.tfaSecret \in 1..generated
      BY <2>3, SecretGenerated
    <3> QED
      BY <2>3, <3>1 DEF Sound, TypeOK, PairsProved, RequestsProved
  <2> QED
    BY <1>4, <2>1, <2>2, <2>3 DEF EnableTFA, SendCode
<1>5. CodeMatches => row.tfaSecret \in Secret /\ row.tfaSecret # Null
  BY SecretGenerated
<1>6. CASE TurnOnTFA(r)
  <2>1. [at |-> "TurnOn", otp |-> row.tfaSecret] \in Request
    BY <1>5, <1>6, RequestPoints DEF TurnOnTFA
  <2> QED
    BY <1>6, <2>1, StartSound DEF TurnOnTFA
<1>7. CASE TurnOffTFA(r)
  BY <1>7, RequestPoints, StartSound DEF TurnOffTFA
<1>8. CASE Verify2FactorAuthentication(r)
  <2> DEFINE payload == TokenPayload(TRUE, "True", row.tfaSecret)
  <2>1. payload \in Payload /\ Proved(payload)
    BY <1>5, <1>8, PayloadMade DEF Verify2FactorAuthentication
  <2>2. Start(r, WritePoint("Verify", payload))
    BY <1>8 DEF Verify2FactorAuthentication
  <2> HIDE DEF payload
  <2>3. WritePoint("Verify", payload) \in Request /\ WritePoint("Verify", payload).payload = payload
    BY <2>1, RequestPoints DEF WritePoint
  <2> QED
    BY <2>1, <2>2, <2>3, StartSound
<1>9. ASSUME NEW p \in Passwords, ChangePassword(r, p) \/ ResetPassword(r, p)
      PROVE  Sound'
  <2>1. \E at \in {"Change", "Reset"} : Start(r, [at |-> at, password |-> p])
    BY <1>9 DEF ChangePassword, ResetPassword
  <2> QED
    BY <2>1, RequestPoints, StartSound
<1> QED
  BY <1>1, <1>2, <1>3, <1>4, <1>6, <1>7, <1>8, <1>9 DEF Begin

(***************************************************************************)
(* The writes and later reads of a handler, and its death.                 *)
(***************************************************************************)
LEMMA StepSound ==
    ASSUME Sound, NEW r \in Requests, Step(r) \/ Fail(r), UNCHANGED width
    PROVE  Sound'
<1>1. req[r] \in Request
  BY DEF Sound, TypeOK
<1>2. row = [password |-> row.password, tfaEnabled |-> row.tfaEnabled,
             tfaSecret |-> row.tfaSecret, tokens |-> row.tokens]
  BY DEF Sound, TypeOK, User
<1>3. CASE UpdateUserToken(r)
  <2>1. req[r].payload \in Payload /\ Proved(req[r].payload)
    BY <1>1, <1>3, RequestFields DEF UpdateUserToken, Sound, RequestsProved
  <2>2. /\ pairs' = Append(pairs, req[r].payload) /\ Len(pairs) < MaxPairs
        /\ row' = [row EXCEPT !.tokens = Len(pairs) + 1] /\ Reply(r)
        /\ UNCHANGED <<generated, shown, failures>>
    BY <1>3 DEF UpdateUserToken
  <2>3. pairs \in Seq(Payload) /\ Len(pairs) \in Nat
    BY DEF Sound, TypeOK
  <2>4. /\ pairs' \in Seq(Payload) /\ Len(pairs') = Len(pairs) + 1
        /\ \A n \in 1..Len(pairs) : pairs'[n] = pairs[n]
        /\ pairs'[Len(pairs) + 1] = req[r].payload
    BY <2>1, <2>2, <2>3
  <2>5. PairsProved'
    BY <2>1, <2>3, <2>4 DEF Sound, PairsProved
  <2>6. row' \in User /\ row'.tokens = Len(pairs) + 1 /\ row'.tfaSecret = row.tfaSecret
    BY <1>2, <2>2, <2>3, UserFields DEF User, Pair
  <2>7. req' \in [Requests -> Request] /\ RequestsProved'
    BY <2>2, ReplySound
  <2> QED
    BY <2>2, <2>3, <2>4, <2>5, <2>6, <2>7 DEF Sound, TypeOK
<1>4. CASE LogoutWrite(r)
  <2>1. row' = [row EXCEPT !.tokens = Null] /\ Reply(r) /\ UNCHANGED <<pairs, generated, shown, failures>>
    BY <1>4 DEF LogoutWrite
  <2>2. row' \in User /\ row'.tokens <= Len(pairs) /\ row'.tfaSecret = row.tfaSecret
    BY <1>2, <2>1, UserFields DEF User, Null, Sound, TypeOK
  <2>3. req' \in [Requests -> Request] /\ RequestsProved'
    BY <2>1, ReplySound
  <2> QED
    BY <2>1, <2>2, <2>3 DEF Sound, TypeOK, PairsProved
<1>5. CASE UpdateUserTFASecret(r)
  <2>1. /\ generated' = generated + 1 /\ generated < MaxSecrets
        /\ row' = [row EXCEPT !.tfaSecret = generated'] /\ UNCHANGED <<pairs, failures>>
        /\ shown' \subseteq shown \cup {generated'}
    BY <1>5 DEF UpdateUserTFASecret
  <2>2. Goto(r, [at |-> "ShowQR"]) \/ Reply(r)
    BY <1>5 DEF UpdateUserTFASecret
  <2>3. req' \in [Requests -> Request] /\ RequestsProved'
    BY <2>2, ReplySound, GotoSound, RequestPoints
  <2>4. generated \in 0..MaxSecrets /\ shown \subseteq 1..generated
    BY DEF Sound, TypeOK
  <2>5. generated' \in Secret /\ shown' \subseteq 1..generated'
    BY <2>1, <2>4 DEF Secret
  <2>6. row' \in User /\ row'.tfaSecret = generated' /\ row'.tokens = row.tokens
    BY <1>2, <2>1, <2>5, UserFields DEF User
  <2> QED
    BY <2>1, <2>3, <2>4, <2>5, <2>6 DEF Sound, TypeOK, PairsProved, Secret
<1>6. CASE CreateQRCode(r)
  <2>1. /\ shown' = IF row.tfaSecret = Null THEN shown ELSE shown \cup {row.tfaSecret}
        /\ Reply(r) /\ UNCHANGED <<row, pairs, generated, failures>>
    BY <1>6 DEF CreateQRCode
  <2>2. shown' \subseteq 1..generated
    BY <2>1, SecretGenerated DEF Sound, TypeOK
  <2>3. req' \in [Requests -> Request] /\ RequestsProved'
    BY <2>1, ReplySound
  <2> QED
    BY <2>1, <2>2, <2>3 DEF Sound, TypeOK, PairsProved
<1>7. CASE ChangeUserTFAStatus(r)
  <2>1. /\ row' = [row EXCEPT !.tfaEnabled = TRUE] \/ row' = [row EXCEPT !.tfaEnabled = FALSE, !.tfaSecret = Null]
        /\ UNCHANGED <<pairs, generated, shown, failures>>
    BY <1>7 DEF ChangeUserTFAStatus
  <2>2. (\E s \in Secret : Goto(r, [at |-> "ReadOn", otp |-> s])) \/ Goto(r, [at |-> "ReadOff"])
    BY <1>1, <1>7, RequestFields DEF ChangeUserTFAStatus
  <2>3. req' \in [Requests -> Request] /\ RequestsProved'
    BY <2>2, GotoSound, RequestPoints
  <2>4. row' \in User /\ row'.tokens = row.tokens /\ row'.tfaSecret \in {row.tfaSecret, Null}
    BY <1>2, <2>1, UserFields DEF User
  <2> QED
    BY <2>1, <2>3, <2>4 DEF Sound, TypeOK, PairsProved, Null
<1>8. CASE ReadAgain(r)
  <2>1. PICK by \in {"TurnOn", "TurnOff"}, payload \in Payload :
            Proved(payload) /\ Goto(r, WritePoint(by, payload))
    <3>1. EnabledNow(req[r].at) \in BOOLEAN
      BY UserFields DEF EnabledNow
    <3>2. CASE req[r].at = "ReadOn"
      <4>1. req[r].otp \in Secret /\ req[r].otp # Null
        BY <1>1, <3>2, RequestFields DEF Secret, Null
      <4>2. /\ TokenPayload(TRUE, "True", req[r].otp) \in Payload
            /\ Proved(TokenPayload(TRUE, "True", req[r].otp))
            /\ TokenPayload(FALSE, "Absent", Null) \in Payload
            /\ Proved(TokenPayload(FALSE, "Absent", Null))
        BY <4>1, PayloadMade
      <4> QED
        BY <1>8, <3>2, <4>2 DEF ReadAgain
    <3>3. CASE req[r].at = "ReadOff"
      <4>1. /\ TokenPayload(EnabledNow(req[r].at), "Absent", Null) \in Payload
            /\ Proved(TokenPayload(EnabledNow(req[r].at), "Absent", Null))
        BY <3>1, PayloadMade
      <4> QED
        BY <1>8, <3>3, <4>1 DEF ReadAgain
    <3> QED
      BY <1>8, <3>2, <3>3 DEF ReadAgain
  <2>2. WritePoint(by, payload) \in Request /\ WritePoint(by, payload).payload = payload
    BY RequestPoints DEF WritePoint
  <2>3. req' \in [Requests -> Request] /\ RequestsProved'
    BY <2>1, <2>2, GotoSound
  <2> QED
    BY <1>8, <2>3 DEF ReadAgain, Sound, TypeOK, PairsProved
<1>9. CASE PasswordWrite(r)
  <2>1. req[r].password \in Passwords
    BY <1>1, <1>9, RequestFields DEF PasswordWrite
  <2>2. /\ row' = [row EXCEPT !.password = req[r].password]
        /\ Reply(r) \/ Goto(r, [at |-> "LoginAgain", password |-> req[r].password])
        /\ UNCHANGED <<pairs, generated, shown, failures>>
    BY <1>9 DEF PasswordWrite
  <2>3. req' \in [Requests -> Request] /\ RequestsProved'
    BY <2>1, <2>2, ReplySound, GotoSound, RequestPoints
  <2>4. row' \in User /\ row'.tokens = row.tokens /\ row'.tfaSecret = row.tfaSecret
    BY <1>2, <2>1, <2>2, UserFields DEF User
  <2> QED
    BY <2>2, <2>3, <2>4 DEF Sound, TypeOK, PairsProved
<1>10. CASE LoginWithUserId(r)
  <2> DEFINE payload == LoginPayload(row.tfaEnabled)
  <2>1. payload \in Payload /\ Proved(payload)
    BY UserFields, PayloadMade DEF LoginPayload
  <2>2. Reply(r) \/ Goto(r, WritePoint("Login", payload))
    BY <1>10 DEF LoginWithUserId
  <2> HIDE DEF payload
  <2>3. WritePoint("Login", payload) \in Request /\ WritePoint("Login", payload).payload = payload
    BY <2>1, RequestPoints DEF WritePoint
  <2>4. req' \in [Requests -> Request] /\ RequestsProved'
    BY <2>1, <2>2, <2>3, ReplySound, GotoSound
  <2> QED
    BY <1>10, <2>4 DEF LoginWithUserId, Sound, TypeOK, PairsProved
<1>11. CASE Fail(r)
  BY <1>11, ReplySound DEF Fail, Sound, TypeOK, PairsProved
<1> QED
  BY <1>3, <1>4, <1>5, <1>6, <1>7, <1>8, <1>9, <1>10, <1>11 DEF Step

LEMMA SoundNext == Sound /\ [Next]_vars => Sound'
<1>1. ASSUME Sound, UNCHANGED vars
      PROVE  Sound'
  BY <1>1 DEF vars, Sound, TypeOK, PairsProved, RequestsProved
<1> QED
  BY <1>1, BeginSound, StepSound DEF Next

(***************************************************************************)
(* auth.service.ts, tfa.service.ts and users.service.ts write only rows    *)
(* and payloads of the declared shape.                                     *)
(***************************************************************************)
THEOREM SessionsTypeCorrect == Spec => []TypeOK
<1>1. Sound => TypeOK
  BY DEF Sound
<1> QED
  BY <1>1, SoundInit, SoundNext, PTL DEF Spec

(***************************************************************************)
(* However many requests are interleaved, while two-factor authentication  *)
(* is on JwtStrategy accepts only a token on whose way a code was checked. *)
(***************************************************************************)
THEOREM SecondFactorSafe == Spec => []SecondFactorAsked
<1>1. Sound => SecondFactorAsked
  <2> SUFFICES ASSUME Sound, Authorized, row.tfaEnabled
               PROVE  pairs[row.tokens].otp # Null
    BY DEF SecondFactorAsked
  <2>1. row.tokens \in 1..Len(pairs)
    BY UserFields DEF Authorized, Sound, TypeOK, Pair, Null
  <2> QED
    BY <2>1 DEF Authorized, Accepts, Sound, PairsProved, Proved
<1> QED
  BY <1>1, SoundInit, SoundNext, PTL DEF Spec

-----------------------------------------------------------------------------
(* One request at a time *)

\* What a handler has read, and what it will write, fits the row.
Fits(q) ==
    /\ q.at \in {"TurnOn", "ReadOn", "TurnOff", "ReadOff"} => row.tokens # Null
    /\ q.at \in {"Secret", "ReadOff"} => ~row.tfaEnabled
    /\ q.at = "TurnOn" =>
          q.otp = row.tfaSecret /\ ~row.tfaEnabled /\ pairs[row.tokens].tfaVerified # "True"
    /\ q.at = "ReadOn" => q.otp = row.tfaSecret /\ row.tfaEnabled
    /\ q.at = "Write" =>
          /\ q.by # "Login" => row.tokens # Null
          /\ q.payload.tfaVerified = "True" =>
                row.tfaEnabled /\ q.payload.tfaEnabled /\ q.payload.otp = row.tfaSecret
          /\ q.by \in {"TurnOn", "TurnOff", "Verify"} => Accepts(row, q.payload)

OneRequest == \A r, s \in Requests : req[r] # Idle /\ req[s] # Idle => r = s
SecretKept == row.tfaEnabled => row.tfaSecret # Null
PairFits   ==
    row.tokens # Null /\ pairs[row.tokens].tfaVerified = "True" =>
        /\ pairs[row.tokens].tfaEnabled
        /\ row.tfaEnabled => pairs[row.tokens].otp = row.tfaSecret
RequestsFit == \A r \in Requests : Fits(req[r])

AloneInv == Alone => OneRequest /\ SecretKept /\ PairFits /\ RequestsFit

LEMMA AloneInit == Init => AloneInv
<1> SUFFICES ASSUME Init
             PROVE  AloneInv
  OBVIOUS
<1>1. row.tokens = Null /\ row.tfaEnabled = FALSE
  BY DEF Init
<1>2. \A r \in Requests : req[r] = Idle /\ req[r].at = "Idle"
  BY DEF Init, Idle
<1>3. RequestsFit
  BY <1>2 DEF RequestsFit, Fits
<1> QED
  BY <1>1, <1>2, <1>3 DEF AloneInv, OneRequest, SecretKept, PairFits

\* A request is taken up when no other is in hand.
LEMMA TakenUpAlone ==
    ASSUME Sound, Alone, MayServe(req)
    PROVE  \A r \in Requests : req[r] = Idle
<1> DEFINE busy == {r \in DOMAIN req : req[r] # Idle}
<1>1. busy = {r \in Requests : req[r] # Idle}
  BY DEF Sound, TypeOK
<1>2. IsFiniteSet(busy) /\ Cardinality(busy) \in Nat
  BY <1>1, FS_Subset, FS_CardinalityType
<1>3. Cardinality(busy) = 0
  BY <1>2 DEF MayServe, Alone
<1>4. busy = {}
  BY <1>2, <1>3, FS_EmptySet
<1> QED
  BY <1>1, <1>4

\* The one request in hand moves to a point that fits.
LEMMA MoveFits ==
    ASSUME Sound, NEW r \in Requests, \A s \in Requests : s # r => req[s] = Idle,
           NEW q, Goto(r, q), Fits(q)'
    PROVE  OneRequest' /\ RequestsFit'
<1>1. req' = [req EXCEPT ![r] = q] /\ req \in [Requests -> Request]
  BY DEF Goto, Sound, TypeOK
<1>2. \A s \in Requests : req'[s] = IF s = r THEN q ELSE Idle
  BY <1>1
<1>3. Fits(Idle)'
  BY DEF Fits, Idle
<1> QED
  BY <1>2, <1>3 DEF OneRequest, RequestsFit

LEMMA ReplyFits ==
    ASSUME Sound, NEW r \in Requests, \A s \in Requests : s # r => req[s] = Idle, Reply(r)
    PROVE  OneRequest' /\ RequestsFit'
<1>1. Goto(r, Idle) /\ Fits(Idle)'
  BY DEF Reply, Goto, Fits, Idle
<1> QED
  BY <1>1, MoveFits

LEMMA StartFits ==
    ASSUME Sound, AloneInv, Alone, UNCHANGED width, NEW r \in Requests,
           NEW q, Start(r, q), Fits(q)
    PROVE  AloneInv'
<1>1. /\ MayServe(req) /\ Goto(r, q) /\ UNCHANGED <<row, pairs>>
  BY DEF Start
<1>2. \A s \in Requests : req[s] = Idle
  BY <1>1, TakenUpAlone
<1>3. Fits(q)'
  BY <1>1 DEF Fits, Accepts
<1>4. OneRequest' /\ RequestsFit'
  BY <1>1, <1>2, <1>3, MoveFits
<1> QED
  BY <1>1, <1>4 DEF AloneInv, SecretKept, PairFits

(***************************************************************************)
(* The read that begins a handler finds what its writes will fit to.       *)
(***************************************************************************)
LEMMA BeginFits ==
    ASSUME Sound, AloneInv, Alone, UNCHANGED width, NEW r \in Requests, Begin(r)
    PROVE  AloneInv'
<1>1. CASE Login(r)
  <2>1. Fits(WritePoint("Login", LoginPayload(row.tfaEnabled)))
    BY DEF Fits, WritePoint, LoginPayload, TokenPayload
  <2> QED
    BY <1>1, <2>1, StartFits DEF Login
<1>2. CASE Logout(r)
  <2>1. Fits([at |-> "Logout"])
    BY DEF Fits
  <2> QED
    BY <1>2, <2>1, StartFits DEF Logout
<1>3. ASSUME NEW n \in Pair, RefreshToken(r, n)
      PROVE  AloneInv'
  <2> DEFINE otp == IF Verified(n) = "True" THEN pairs[n].otp ELSE Null
             payload == TokenPayload(row.tfaEnabled, Verified(n), otp)
  <2>1. row.tokens = n /\ n # Null /\ Start(r, WritePoint("Refresh", payload))
    BY <1>3 DEF RefreshToken, Refreshable, Pair, Null
  <2>2. ASSUME Verified(n) = "True"
        PROVE  row.tfaEnabled /\ otp = row.tfaSecret
    <3>1. row.tfaEnabled /\ pairs[n].tfaVerified = "True"
      BY <2>2 DEF Verified
    <3> QED
      BY <2>1, <2>2, <3>1 DEF AloneInv, PairFits
  <2> HIDE DEF otp
  <2>3. Fits(WritePoint("Refresh", payload))
    BY <2>1, <2>2 DEF Fits, WritePoint, TokenPayload
  <2> HIDE DEF payload
  <2> QED
    BY <2>1, <2>3, StartFits
<1>4. ASSUME NEW show \in {"Mail", "QR"}, EnableTFA(r, show) \/ SendCode(r, show)
      PROVE  AloneInv'
  <2>1. CASE ~row.tfaEnabled /\ Start(r, [at |-> "Secret", show |-> show])
    <3>1. Fits([at |-> "Secret", show |-> show])
      BY <2>1 DEF Fits
    <3> QED
      BY <2>1, <3>1, StartFits
  <2>2. CASE Start(r, [at |-> "ShowQR"])
    <3>1. Fits([at |-> "ShowQR"])
      BY DEF Fits
    <3> QED
      BY <2>2, <3>1, StartFits
  <2>3. CASE UNCHANGED <<row, pairs, req>>
    BY <2>3 DEF AloneInv, Alone, OneRequest, SecretKept, PairFits, RequestsFit, Fits, Accepts
  <2>4. row.tfaEnabled => row.tfaSecret # Null
    BY DEF AloneInv, SecretKept
  <2> QED
    BY <1>4, <2>1, <2>2, <2>3, <2>4 DEF EnableTFA, SendCode, TfaAuthorized
<1>5. CASE TurnOnTFA(r)
  <2>1. row.tokens # Null /\ ~pairs[row.tokens].tfaEnabled /\ ~row.tfaEnabled
    BY <1>5 DEF TurnOnTFA, Authorized, Accepts
  <2>2. pairs[row.tokens].tfaVerified # "True"
    BY <2>1 DEF AloneInv, PairFits
  <2>3. Fits([at |-> "TurnOn", otp |-> row.tfaSecret])
    BY <2>1, <2>2 DEF Fits
  <2> QED
    BY <1>5, <2>3, StartFits DEF TurnOnTFA
<1>6. CASE TurnOffTFA(r)
  <2>1. Fits([at |-> "TurnOff"])
    BY <1>6 DEF TurnOffTFA, Authorized, Fits
  <2> QED
    BY <1>6, <2>1, StartFits DEF TurnOffTFA
<1>7. CASE Verify2FactorAuthentication(r)
  <2>1. Fits(WritePoint("Verify", TokenPayload(TRUE, "True", row.tfaSecret)))
    BY <1>7 DEF Verify2FactorAuthentication, TfaAuthorized, Fits, WritePoint, TokenPayload, Accepts
  <2> QED
    BY <1>7, <2>1, StartFits DEF Verify2FactorAuthentication
<1>8. ASSUME NEW p \in Passwords, ChangePassword(r, p) \/ ResetPassword(r, p)
      PROVE  AloneInv'
  <2>1. Fits([at |-> "Change", password |-> p]) /\ Fits([at |-> "Reset", password |-> p])
    BY DEF Fits
  <2> QED
    BY <1>8, <2>1, StartFits DEF ChangePassword, ResetPassword
<1> QED
  BY <1>1, <1>2, <1>3, <1>4, <1>5, <1>6, <1>7, <1>8 DEF Begin

(***************************************************************************)
(* The writes and later reads of the one request in hand, and its death.   *)
(***************************************************************************)
LEMMA StepFits ==
    ASSUME Sound, AloneInv, Alone, UNCHANGED width, NEW r \in Requests, Step(r) \/ Fail(r)
    PROVE  AloneInv'
<1>1. \A s \in Requests : s # r => req[s] = Idle
  <2>1. Step(r) => req[r].at \in {"Write", "Logout", "Secret", "ShowQR", "TurnOn", "TurnOff", "ReadOn",
                                  "ReadOff", "Change", "Reset", "LoginAgain"}
    <3>1. UpdateUserToken(r) => req[r].at = "Write"
      BY DEF UpdateUserToken
    <3>2. LogoutWrite(r) => req[r].at = "Logout"
      BY DEF LogoutWrite
    <3>3. UpdateUserTFASecret(r) => req[r].at = "Secret"
      BY DEF UpdateUserTFASecret
    <3>4. CreateQRCode(r) => req[r].at = "ShowQR"
      BY DEF CreateQRCode
    <3>5. ChangeUserTFAStatus(r) => req[r].at \in {"TurnOn", "TurnOff"}
      BY DEF ChangeUserTFAStatus
    <3>6. ReadAgain(r) => req[r].at \in {"ReadOn", "ReadOff"}
      BY DEF ReadAgain
    <3>7. PasswordWrite(r) => req[r].at \in {"Change", "Reset"}
      BY DEF PasswordWrite
    <3>8. LoginWithUserId(r) => req[r].at = "LoginAgain"
      BY DEF LoginWithUserId
    <3> QED
      BY <3>1, <3>2, <3>3, <3>4, <3>5, <3>6, <3>7, <3>8 DEF Step
  <2>2. Fail(r) => req[r] # Idle
    BY DEF Fail
  <2>3. Idle.at = "Idle"
    BY DEF Idle
  <2>4. req[r] # Idle
    BY <2>1, <2>2, <2>3
  <2> QED
    BY <2>4 DEF AloneInv, OneRequest
<1>2. row = [password |-> row.password, tfaEnabled |-> row.tfaEnabled,
             tfaSecret |-> row.tfaSecret, tokens |-> row.tokens]
  BY DEF Sound, TypeOK, User
<1>3. Fits(req[r]) /\ SecretKept /\ PairFits
  BY DEF AloneInv, RequestsFit
<1>4. ASSUME OneRequest' /\ RequestsFit', UNCHANGED <<row, pairs>>
      PROVE  AloneInv'
  BY <1>3, <1>4 DEF AloneInv, SecretKept, PairFits
<1>5. CASE UpdateUserToken(r)
  <2>1. /\ req[r].at = "Write" /\ pairs' = Append(pairs, req[r].payload)
        /\ row' = [row EXCEPT !.tokens = Len(pairs) + 1] /\ Reply(r)
    BY <1>5 DEF UpdateUserToken
  <2>2. pairs'[Len(pairs) + 1] = req[r].payload
    <3>1. pairs \in Seq(Payload) /\ req[r].payload \in Payload
      BY <2>1, RequestFields DEF Sound, TypeOK
    <3> QED
      BY <2>1, <3>1
  <2>3. /\ row'.tokens = Len(pairs) + 1 /\ row'.tfaEnabled = row.tfaEnabled
        /\ row'.tfaSecret = row.tfaSecret
    BY <1>2, <2>1
  <2>4. SecretKept' /\ PairFits'
    BY <1>3, <2>1, <2>2, <2>3 DEF SecretKept, PairFits, Fits
  <2> QED
    BY <1>1, <2>1, <2>4, ReplyFits DEF AloneInv
<1>6. CASE LogoutWrite(r)
  <2>1. row' = [row EXCEPT !.tokens = Null] /\ Reply(r)
    BY <1>6 DEF LogoutWrite
  <2>2. /\ row'.tokens = Null /\ row'.tfaEnabled = row.tfaEnabled
        /\ row'.tfaSecret = row.tfaSecret
    BY <1>2, <2>1
  <2>3. SecretKept' /\ PairFits'
    BY <1>3, <2>2 DEF SecretKept, PairFits
  <2> QED
    BY <1>1, <2>1, <2>3, ReplyFits DEF AloneInv
<1>7. CASE UpdateUserTFASecret(r)
  <2>1. /\ row' = [row EXCEPT !.tfaSecret = generated'] /\ UNCHANGED pairs
        /\ Goto(r, [at |-> "ShowQR"]) \/ Reply(r)
    BY <1>7 DEF UpdateUserTFASecret
  <2>2. ~row.tfaEnabled /\ row'.tfaEnabled = row.tfaEnabled /\ row'.tokens = row.tokens
    BY <1>2, <1>3, <1>7, <2>1 DEF UpdateUserTFASecret, Fits
  <2>3. SecretKept' /\ PairFits'
    BY <1>3, <2>1, <2>2 DEF SecretKept, PairFits
  <2>4. Fits([at |-> "ShowQR"])'
    BY DEF Fits
  <2>5. OneRequest' /\ RequestsFit'
    BY <1>1, <2>1, <2>4, ReplyFits, MoveFits
  <2> QED
    BY <2>3, <2>5 DEF AloneInv
<1>8. CASE CreateQRCode(r)
  BY <1>1, <1>4, <1>8, ReplyFits DEF CreateQRCode
<1>9. CASE ChangeUserTFAStatus(r)
  <2>1. UNCHANGED pairs
    BY <1>9 DEF ChangeUserTFAStatus
  <2>2. CASE req[r].at = "TurnOn"
    <3>1. /\ row' = [row EXCEPT !.tfaEnabled = TRUE]
          /\ Goto(r, [at |-> "ReadOn", otp |-> req[r].otp])
      BY <1>9, <2>2 DEF ChangeUserTFAStatus
    <3>2. row'.tfaEnabled = TRUE /\ row'.tokens = row.tokens /\ row'.tfaSecret = row.tfaSecret
      BY <1>2, <3>1
    <3>3. row.tokens # Null /\ req[r].otp = row.tfaSecret /\ pairs[row.tokens].tfaVerified # "True"
      BY <1>3, <2>2 DEF Fits
    <3>4. req[r].otp # Null
      BY <2>2, RequestFields DEF Sound, TypeOK, Secret, Null
    <3>5. SecretKept' /\ PairFits'
      BY <2>1, <3>2, <3>3, <3>4 DEF SecretKept, PairFits
    <3>6. PICK o : o = req[r].otp
      OBVIOUS
    <3>7. Fits([at |-> "ReadOn", otp |-> o])'
      BY <3>2, <3>3, <3>6 DEF Fits
    <3> QED
      BY <1>1, <3>1, <3>5, <3>6, <3>7, MoveFits DEF AloneInv
  <2>3. CASE req[r].at = "TurnOff"
    <3>1. /\ row' = [row EXCEPT !.tfaEnabled = FALSE, !.tfaSecret = Null]
          /\ Goto(r, [at |-> "ReadOff"])
      BY <1>9, <2>3 DEF ChangeUserTFAStatus
    <3>2. row'.tfaEnabled = FALSE /\ row'.tokens = row.tokens /\ row.tokens # Null
      BY <1>2, <1>3, <2>3, <3>1 DEF Fits
    <3>3. SecretKept' /\ PairFits'
      BY <1>3, <2>1, <3>2 DEF SecretKept, PairFits
    <3>4. Fits([at |-> "ReadOff"])'
      BY <3>2 DEF Fits
    <3> QED
      BY <1>1, <3>1, <3>3, <3>4, MoveFits DEF AloneInv
  <2> QED
    BY <1>9, <2>2, <2>3 DEF ChangeUserTFAStatus
<1>10. CASE ReadAgain(r)
  <2>1. UNCHANGED <<row, pairs>>
    BY <1>10 DEF ReadAgain
  <2>2. PICK q : Goto(r, q) /\ Fits(q)
    <3>1. CASE req[r].at = "ReadOn"
      <4>1. Goto(r, WritePoint("TurnOn", TokenPayload(TRUE, "True", req[r].otp)))
        BY <1>3, <1>10, <3>1 DEF ReadAgain, EnabledNow, Fits
      <4>2. Fits(WritePoint("TurnOn", TokenPayload(TRUE, "True", req[r].otp)))
        BY <1>3, <3>1 DEF Fits, WritePoint, TokenPayload, Accepts
      <4> QED
        BY <4>1, <4>2
    <3>2. CASE req[r].at = "ReadOff"
      <4>1. row.tokens # Null /\ row.tfaEnabled = FALSE
        BY <1>3, <3>2, UserFields DEF Fits
      <4>2. Goto(r, WritePoint("TurnOff", TokenPayload(FALSE, "Absent", Null)))
        BY <1>10, <3>2, <4>1 DEF ReadAgain, EnabledNow
      <4>3. Fits(WritePoint("TurnOff", TokenPayload(FALSE, "Absent", Null)))
        BY <4>1 DEF Fits, WritePoint, TokenPayload, Accepts
      <4> QED
        BY <4>2, <4>3
    <3> QED
      BY <1>10, <3>1, <3>2 DEF ReadAgain
  <2>3. Fits(q)'
    BY <2>1, <2>2 DEF Fits, Accepts
  <2> QED
    BY <1>1, <1>4, <2>1, <2>2, <2>3, MoveFits
<1>11. CASE PasswordWrite(r)
  <2>1. /\ row' = [row EXCEPT !.password = req[r].password] /\ UNCHANGED pairs
        /\ Reply(r) \/ Goto(r, [at |-> "LoginAgain", password |-> req[r].password])
    BY <1>11 DEF PasswordWrite
  <2>2. /\ row'.tokens = row.tokens /\ row'.tfaEnabled = row.tfaEnabled
        /\ row'.tfaSecret = row.tfaSecret
    BY <1>2, <2>1
  <2>3. SecretKept' /\ PairFits'
    BY <1>3, <2>1, <2>2 DEF SecretKept, PairFits
  <2>4. PICK p : p = req[r].password
    OBVIOUS
  <2>5. Fits([at |-> "LoginAgain", password |-> p])'
    BY DEF Fits
  <2>6. OneRequest' /\ RequestsFit'
    BY <1>1, <2>1, <2>4, <2>5, ReplyFits, MoveFits
  <2> QED
    BY <2>3, <2>6 DEF AloneInv
<1>12. CASE LoginWithUserId(r)
  <2>1. UNCHANGED <<row, pairs>>
    BY <1>12 DEF LoginWithUserId
  <2>2. PICK q : q = WritePoint("Login", LoginPayload(row.tfaEnabled))
    OBVIOUS
  <2>3. Fits(q)'
    BY <2>2 DEF Fits, WritePoint, LoginPayload, TokenPayload
  <2>4. Reply(r) \/ Goto(r, q)
    BY <1>12, <2>2 DEF LoginWithUserId
  <2> QED
    BY <1>1, <1>4, <2>1, <2>3, <2>4, ReplyFits, MoveFits
<1>13. CASE Fail(r)
  BY <1>1, <1>4, <1>13, ReplyFits DEF Fail
<1> QED
  BY <1>5, <1>6, <1>7, <1>8, <1>9, <1>10, <1>11, <1>12, <1>13 DEF Step

LEMMA AloneNext == Sound /\ AloneInv /\ [Next]_vars => AloneInv'
<1> SUFFICES ASSUME Sound, AloneInv, [Next]_vars, Alone'
             PROVE  AloneInv'
  BY DEF AloneInv
<1>1. Alone /\ UNCHANGED width
  BY DEF Next, vars, Alone
<1>2. CASE UNCHANGED vars
  BY <1>2 DEF vars, AloneInv, Alone, OneRequest, SecretKept, PairFits, RequestsFit, Fits, Accepts
<1> QED
  BY <1>1, <1>2, BeginFits, StepFits DEF Next

(***************************************************************************)
(* One request at a time, of which any may die: while two-factor           *)
(* authentication is on there is a secret, and the code behind the tokens  *)
(* that JwtStrategy accepts was made from it.                              *)
(***************************************************************************)
THEOREM SecretInForceSafe == Spec => []SecretInForceProved
<1>1. Sound /\ AloneInv => SecretInForceProved
  BY DEF AloneInv, SecretKept, PairFits, SecretInForceProved, Authorized, Accepts
<1> QED
  BY <1>1, SoundInit, SoundNext, AloneInit, AloneNext, PTL DEF Spec

(***************************************************************************)
(* One request at a time: after logout only the four logins, and none of   *)
(* refreshToken, turnOnTFA, turnOffTFA and verify2FactorAuthentication,    *)
(* store tokens again.                                                     *)
(***************************************************************************)
THEOREM LogoutSafe == Spec => LoggedOutStaysOut
<1> DEFINE In == \E r \in Requests : UpdateUserToken(r) /\ req[r].by = "Login"
           P  == Alone /\ row.tokens = Null /\ row'.tokens # Null => In
<1>1. Sound /\ AloneInv /\ [Next]_vars => [P]_vars
  <2> SUFFICES ASSUME Sound, AloneInv, Next, Alone, row.tokens = Null, row'.tokens # Null
               PROVE  In
    OBVIOUS
  <2>1. row = [password |-> row.password, tfaEnabled |-> row.tfaEnabled,
               tfaSecret |-> row.tfaSecret, tokens |-> row.tokens]
    BY DEF Sound, TypeOK, User
  <2>2. PICK r \in Requests : Begin(r) \/ Step(r) \/ Fail(r)
    BY DEF Next
  <2>3. ~UNCHANGED row
    OBVIOUS
  <2>4. ~Begin(r) /\ ~Fail(r)
    BY <2>3 DEF Begin, Fail, Login, Logout, RefreshToken, EnableTFA, SendCode, TurnOnTFA, TurnOffTFA,
               Verify2FactorAuthentication, ChangePassword, ResetPassword, Start
  <2>5. ~LogoutWrite(r) /\ ~UpdateUserTFASecret(r) /\ ~PasswordWrite(r) /\ ~ChangeUserTFAStatus(r)
    BY <2>1 DEF LogoutWrite, UpdateUserTFASecret, PasswordWrite, ChangeUserTFAStatus
  <2>6. UpdateUserToken(r)
    BY <2>2, <2>3, <2>4, <2>5 DEF Step, CreateQRCode, ReadAgain, LoginWithUserId
  <2>7. req[r].by = "Login"
    BY <2>6 DEF UpdateUserToken, AloneInv, RequestsFit, Fits
  <2> QED
    BY <2>6, <2>7
<1> QED
  BY <1>1, SoundInit, SoundNext, AloneInit, AloneNext, PTL DEF Spec, LoggedOutStaysOut

(***************************************************************************)
(* One request at a time: JwtStrategy accepts the tokens that turnOnTFA,   *)
(* turnOffTFA and verify2FactorAuthentication answer with.                 *)
(***************************************************************************)
THEOREM AnswersWork == Spec => AnsweredTokensWork
<1> DEFINE P == Alone => \A r \in Requests :
                   UpdateUserToken(r) /\ req[r].by \in {"TurnOn", "TurnOff", "Verify"} => Authorized'
<1>1. Sound /\ AloneInv => P
  <2> SUFFICES ASSUME Sound, AloneInv, Alone, NEW r \in Requests, UpdateUserToken(r),
                      req[r].by \in {"TurnOn", "TurnOff", "Verify"}
               PROVE  Authorized'
    OBVIOUS
  <2>1. /\ req[r].at = "Write" /\ pairs' = Append(pairs, req[r].payload)
        /\ row' = [row EXCEPT !.tokens = Len(pairs) + 1]
    BY DEF UpdateUserToken
  <2>2. pairs \in Seq(Payload) /\ req[r].payload \in Payload
    BY <2>1, RequestFields DEF Sound, TypeOK
  <2>3. pairs'[Len(pairs) + 1] = req[r].payload /\ Len(pairs) \in Nat
    BY <2>1, <2>2
  <2>4. row = [password |-> row.password, tfaEnabled |-> row.tfaEnabled,
               tfaSecret |-> row.tfaSecret, tokens |-> row.tokens]
    BY DEF Sound, TypeOK, User
  <2>5. row'.tokens = Len(pairs) + 1 /\ row'.tfaEnabled = row.tfaEnabled
    BY <2>1, <2>4
  <2>6. Accepts(row, req[r].payload)
    BY <2>1 DEF AloneInv, RequestsFit, Fits
  <2> QED
    BY <2>3, <2>5, <2>6 DEF Authorized, Accepts, Null
<1> QED
  BY <1>1, SoundInit, SoundNext, AloneInit, AloneNext, PTL DEF Spec, AnsweredTokensWork

=============================================================================
