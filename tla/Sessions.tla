------------------------------ MODULE Sessions ------------------------------
(***************************************************************************)
(* One account's sessions and its two-factor authentication:               *)
(* auth.service.ts, tfa/tfa.service.ts, the two passport strategies and    *)
(* the password changes of users.service.ts.                               *)
(*                                                                         *)
(* The user row keeps the hash of one access and one refresh token, which  *)
(* are made and stored together: a pair.  A guard reads the row and the    *)
(* handler goes on with that copy, so a handler is its read, one action,   *)
(* and then each of its writes and later reads.  Token lifetimes and the   *)
(* windows of one-time codes are left to chance: a user may stop using a   *)
(* token or a code at any moment.                                          *)
(***************************************************************************)
EXTENDS Serving, Sequences

CONSTANTS
    Passwords,
    Requests,      \* handlers of requests
    MaxPairs,      \* token pairs stored
    MaxSecrets,    \* secrets generated
    MaxFailures    \* requests that die at an await

ASSUME SessionsAssumption ==
    /\ Passwords # {} /\ IsFiniteSet(Requests)
    /\ {MaxPairs, MaxSecrets, MaxFailures} \subseteq Nat

VARIABLES
    row,        \* the row of table users
    pairs,      \* payloads of the token pairs stored so far, in order
    generated,  \* secrets generated so far: 1..generated
    shown,      \* secrets of which the user got a code or a QR picture
    req,        \* the requests being served
    failures

vars == <<width, row, pairs, generated, shown, req, failures>>

Null == 0
Pair   == 1..MaxPairs
Secret == 1..MaxSecrets

\* tfaVerified is absent from the payload when it is null or undefined.
\* otp is no field of the token: the secret whose code was checked for it.
Payload == [tfaEnabled : BOOLEAN, tfaVerified : {"Absent", "False", "True"}, otp : Secret \cup {Null}]

User == [password : Passwords, tfaEnabled : BOOLEAN, tfaSecret : Secret \cup {Null},
         tokens : Pair \cup {Null}]

Request ==
    {Idle}
    \cup [at : {"Secret"}, show : {"Mail", "QR"}]
    \cup [at : {"ShowQR", "Logout"}]
    \cup [at : {"TurnOn", "ReadOn"}, otp : Secret]
    \cup [at : {"TurnOff", "ReadOff"}]
    \cup [at : {"Change", "LoginAgain", "Reset"}, password : Passwords]
    \cup [at : {"Write"}, by : {"Login", "Refresh", "TurnOn", "TurnOff", "Verify"}, payload : Payload]

TypeOK ==
    /\ width \in 1..MaxWidth
    /\ row \in User
    /\ pairs \in Seq(Payload) /\ Len(pairs) <= MaxPairs
    /\ row.tokens <= Len(pairs)
    /\ generated \in 0..MaxSecrets
    /\ row.tfaSecret <= generated
    /\ shown \subseteq 1..generated
    /\ req \in [Requests -> Request]
    /\ failures \in 0..MaxFailures

Init ==
    /\ ServingInit
    /\ row \in [password : Passwords, tfaEnabled : {FALSE}, tfaSecret : {Null}, tokens : {Null}]
    /\ pairs = <<>>
    /\ generated = 0
    /\ shown = {}
    /\ req = [r \in Requests |-> Idle]
    /\ failures = 0

Reply(r)       == req' = [req EXCEPT ![r] = Idle]
Goto(r, point) == req' = [req EXCEPT ![r] = point]

\* A handler that has read what it needs and goes on to a write.
Start(r, point) ==
    /\ req[r] = Idle /\ MayServe(req)
    /\ Goto(r, point)
    /\ UNCHANGED <<row, pairs, generated, shown, failures>>

-----------------------------------------------------------------------------
(* The guards: which token pair opens which routes *)

\* JwtStrategy: the stored pair, and its payload fits the row.
Accepts(user, payload) ==
    IF user.tfaEnabled THEN payload.tfaVerified = "True" ELSE ~payload.tfaEnabled

Authorized == row.tokens # Null /\ Accepts(row, pairs[row.tokens])

\* TFAStrategy: the stored pair, verified or not.
TfaAuthorized == row.tokens # Null /\ row.tfaEnabled

-----------------------------------------------------------------------------
(* Tokens: login, refreshToken, logout *)

\* _generateToken
TokenPayload(enabled, verified, otp) ==
    [tfaEnabled |-> enabled, tfaVerified |-> verified, otp |-> otp]

LoginPayload(enabled) == TokenPayload(enabled, IF enabled THEN "False" ELSE "Absent", Null)

WritePoint(by, payload) == [at |-> "Write", by |-> by, payload |-> payload]

\* By e-mail, user name, Google or Github; a password must be the row's.
Login(r) == Start(r, WritePoint("Login", LoginPayload(row.tfaEnabled)))

RefreshableOnceIssued(n) == TRUE
Refreshable(n) == row.tokens = n

VerifiedAsBefore(n) == pairs[n].tfaVerified
VerifiedOnce(n) == IF row.tfaEnabled THEN "True" ELSE "Absent"
Verified(n) == IF row.tfaEnabled THEN pairs[n].tfaVerified ELSE "Absent"

RefreshToken(r, n) ==
    /\ n \in 1..Len(pairs)
    /\ Refreshable(n)
    /\ Start(r, WritePoint("Refresh",
             TokenPayload(row.tfaEnabled, Verified(n), IF Verified(n) = "True" THEN pairs[n].otp ELSE Null)))

\* _updateUserToken: argon hashes of both tokens of the pair.
UpdateUserToken(r) ==
    /\ req[r].at = "Write"
    /\ Len(pairs) < MaxPairs               \* bound: token pairs
    /\ pairs' = Append(pairs, req[r].payload)
    /\ row' = [row EXCEPT !.tokens = Len(pairs) + 1]
    /\ Reply(r)
    /\ UNCHANGED <<generated, shown, failures>>

Logout(r) == Authorized /\ Start(r, [at |-> "Logout"])

LogoutWrite(r) ==
    /\ req[r].at = "Logout"
    /\ row' = [row EXCEPT !.tokens = Null]
    /\ Reply(r)
    /\ UNCHANGED <<pairs, generated, shown, failures>>

-----------------------------------------------------------------------------
(* Secrets and the codes made from them *)

EnableTFA(r, show) ==
    Authorized /\ ~row.tfaEnabled /\ Start(r, [at |-> "Secret", show |-> show])

\* sendCodeToEmail, sendQRCode and, for fewer tokens, disableTFAByEmail: a
\* secret is made only if there is none.
SendCode(r, show) ==
    /\ TfaAuthorized
    /\ IF row.tfaSecret = Null
       THEN Start(r, [at |-> "Secret", show |-> show])
       ELSE IF show = "QR"
       THEN Start(r, [at |-> "ShowQR"])
       ELSE /\ req[r] = Idle /\ MayServe(req)
            /\ shown' = shown \cup {row.tfaSecret}
            /\ UNCHANGED <<row, pairs, generated, req, failures>>

\* _updateUserTFASecret; the mailed code is made from the new secret.
UpdateUserTFASecret(r) ==
    /\ req[r].at = "Secret"
    /\ generated < MaxSecrets              \* bound: secrets
    /\ generated' = generated + 1
    /\ row' = [row EXCEPT !.tfaSecret = generated']
    /\ IF req[r].show = "QR"
       THEN Goto(r, [at |-> "ShowQR"]) /\ UNCHANGED shown
       ELSE Reply(r) /\ shown' = shown \cup {generated'}
    /\ UNCHANGED <<pairs, failures>>

\* _createQRCode reads the row again.
CreateQRCode(r) ==
    /\ req[r].at = "ShowQR"
    /\ shown' = IF row.tfaSecret = Null THEN shown ELSE shown \cup {row.tfaSecret}
    /\ Reply(r)
    /\ UNCHANGED <<row, pairs, generated, failures>>

\* _verifyOtpCode: a code of the row's secret, which the user can have.
CodeMatches == row.tfaSecret \in shown

-----------------------------------------------------------------------------
(* turnOnTFA, turnOffTFA, verify2FactorAuthentication *)

TurnOnTFA(r) ==
    /\ Authorized /\ CodeMatches /\ ~row.tfaEnabled
    /\ Start(r, [at |-> "TurnOn", otp |-> row.tfaSecret])

TurnOffTFA(r) ==
    /\ Authorized /\ CodeMatches /\ row.tfaEnabled
    /\ Start(r, [at |-> "TurnOff"])

\* _changeUserTFAStatus
ChangeUserTFAStatus(r) ==
    /\ \/ /\ req[r].at = "TurnOn"
          /\ row' = [row EXCEPT !.tfaEnabled = TRUE]
          /\ Goto(r, [at |-> "ReadOn", otp |-> req[r].otp])
       \/ /\ req[r].at = "TurnOff"
          /\ row' = [row EXCEPT !.tfaEnabled = FALSE, !.tfaSecret = Null]
          /\ Goto(r, [at |-> "ReadOff"])
    /\ UNCHANGED <<pairs, generated, shown, failures>>

EnabledBefore(at) == at = "ReadOff"
EnabledNow(at) == row.tfaEnabled

\* The row is read again for getNewUserToken.
ReadAgain(r) ==
    LET enabled == EnabledNow(req[r].at) IN
    /\ \/ /\ req[r].at = "ReadOn"
          /\ Goto(r, WritePoint("TurnOn", IF enabled THEN TokenPayload(TRUE, "True", req[r].otp)
                                          ELSE TokenPayload(FALSE, "Absent", Null)))
       \/ /\ req[r].at = "ReadOff"
          /\ Goto(r, WritePoint("TurnOff", TokenPayload(enabled, "Absent", Null)))
    /\ UNCHANGED <<row, pairs, generated, shown, failures>>

Verify2FactorAuthentication(r) ==
    /\ TfaAuthorized /\ CodeMatches
    /\ Start(r, WritePoint("Verify", TokenPayload(TRUE, "True", row.tfaSecret)))

-----------------------------------------------------------------------------
(* changePassword, resetPassword *)

ChangePassword(r, p) ==
    Authorized /\ p # row.password /\ Start(r, [at |-> "Change", password |-> p])

\* The token of the mail may be used within ten minutes, as often as one likes.
ResetPassword(r, p) == Start(r, [at |-> "Reset", password |-> p])

PasswordWrite(r) ==
    /\ req[r].at \in {"Change", "Reset"}
    /\ row' = [row EXCEPT !.password = req[r].password]
    /\ IF req[r].at = "Reset" THEN Reply(r)
       ELSE Goto(r, [at |-> "LoginAgain", password |-> req[r].password])
    /\ UNCHANGED <<pairs, generated, shown, failures>>

\* loginWithUserId of changePassword; another change may have come between.
LoginWithUserId(r) ==
    /\ req[r].at = "LoginAgain"
    /\ IF req[r].password = row.password
       THEN Goto(r, WritePoint("Login", LoginPayload(row.tfaEnabled)))
       ELSE Reply(r)
    /\ UNCHANGED <<row, pairs, generated, shown, failures>>

-----------------------------------------------------------------------------
\* A request dies at an await: what it wrote stays written.
Fail(r) ==
    /\ req[r] # Idle
    /\ failures < MaxFailures              \* bound: requests that die
    /\ failures' = failures + 1
    /\ Reply(r)
    /\ UNCHANGED <<row, pairs, generated, shown>>

Begin(r) ==
    \/ Login(r) \/ Logout(r)
    \/ \E n \in Pair : RefreshToken(r, n)
    \/ \E show \in {"Mail", "QR"} : EnableTFA(r, show) \/ SendCode(r, show)
    \/ TurnOnTFA(r) \/ TurnOffTFA(r) \/ Verify2FactorAuthentication(r)
    \/ \E p \in Passwords : ChangePassword(r, p) \/ ResetPassword(r, p)

Step(r) ==
    \/ UpdateUserToken(r) \/ LogoutWrite(r)
    \/ UpdateUserTFASecret(r) \/ CreateQRCode(r)
    \/ ChangeUserTFAStatus(r) \/ ReadAgain(r)
    \/ PasswordWrite(r) \/ LoginWithUserId(r)

Next ==
    /\ \E r \in Requests : Begin(r) \/ Step(r) \/ Fail(r)
    /\ UNCHANGED width

Spec == Init /\ [][Next]_vars

-----------------------------------------------------------------------------
(* What must hold *)

\* While two-factor authentication is on, JwtStrategy lets a request in only
\* if a one-time code was checked on the way to its token, through however
\* many refreshes, and whatever logins, switches and deaths are interleaved.
SecondFactorAsked == Authorized /\ row.tfaEnabled => pairs[row.tokens].otp # Null

\* One request at a time, of which any may die half-way: the code was one of
\* the secret in force, and there is one.
SecretInForceProved ==
    Alone /\ row.tfaEnabled =>
        /\ row.tfaSecret # Null
        /\ Authorized => pairs[row.tokens].otp = row.tfaSecret

\* One request at a time: once logged out, only a login lets the user in
\* again; no refresh token of an earlier session does.
LoggedOutStaysOut ==
    [][Alone /\ row.tokens = Null /\ row'.tokens # Null =>
          \E r \in Requests : UpdateUserToken(r) /\ req[r].by = "Login"]_vars

\* One request at a time: the tokens that turning two-factor authentication on
\* or off and verifying a code answer with are good for the next request.
AnsweredTokensWork ==
    [][Alone => \A r \in Requests :
          UpdateUserToken(r) /\ req[r].by \in {"TurnOn", "TurnOff", "Verify"} => Authorized']_vars
=============================================================================
