------------------------------ MODULE Accounts ------------------------------
(***************************************************************************)
(* How accounts come into being: register and verifyAccount, and the first *)
(* sign-in with Google or Github, of auth.service.ts.                      *)
(*                                                                         *)
(* An account is known by one of the Keys (an e-mail address, a Google or  *)
(* Github id), unique in the table.  A second registration of an address   *)
(* that was not verified deletes the first account and makes another, with *)
(* a new id and a new confirmation link.  There is no transaction: each    *)
(* database call is an action.                                             *)
(***************************************************************************)
EXTENDS Integers, FiniteSets

CONSTANTS
    Mails,      \* e-mail addresses
    Socials,    \* Google and Github ids
    Requests,   \* how many requests the server interleaves
    MaxId       \* accounts ever made

ASSUME AccountsAssumption == Mails \cap Socials = {} /\ MaxId \in Nat

VARIABLES
    user,    \* table users: id -> row
    made,    \* ids given out: 1..made; the database does not reuse them
    links,   \* ids whose confirmation link was mailed
    told,    \* ids whose owner was told that the address is verified
    req      \* the requests being served

vars == <<user, made, links, told, req>>

Keys == Mails \cup Socials
Id   == 1..MaxId
Row  == [key : Keys, verified : BOOLEAN]

Idle == [at |-> "Idle"]
Request ==
    {Idle}
    \cup [at : {"Delete", "Verify"}, id : Id, key : Keys]
    \cup [at : {"Create"}, key : Keys]

TypeOK ==
    /\ made \in 0..MaxId
    /\ DOMAIN user \subseteq 1..made
    /\ user \in [DOMAIN user -> Row]
    /\ \A i, j \in DOMAIN user : user[i].key = user[j].key => i = j
    /\ links \subseteq 1..made
    /\ told \subseteq links
    /\ req \in [Requests -> Request]

Init ==
    /\ user = [i \in {} |-> {}]
    /\ made = 0
    /\ links = {}
    /\ told = {}
    /\ req = [r \in Requests |-> Idle]

Rows == DOMAIN user
Holder(key) == {i \in Rows : user[i].key = key}

Reply(r)       == req' = [req EXCEPT ![r] = Idle]
Goto(r, point) == req' = [req EXCEPT ![r] = point]
Start(r, point) == req[r] = Idle /\ Goto(r, point) /\ UNCHANGED <<user, made, links, told>>

-----------------------------------------------------------------------------
(* register *)

ReplaceableAlways(i) == TRUE
Replaceable(i) == ~user[i].verified

Register(r, mail) ==
    \/ /\ Holder(mail) = {}
       /\ Start(r, [at |-> "Create", key |-> mail])
    \/ \E i \in Holder(mail) :
          /\ Replaceable(i)
          /\ Start(r, [at |-> "Delete", id |-> i, key |-> mail])

\* prisma.user.delete throws for a row that is gone (P2025).
RegisterDelete(r) ==
    /\ req[r].at = "Delete"
    /\ IF req[r].id \in Rows
       THEN /\ user' = [i \in Rows \ {req[r].id} |-> user[i]]
            /\ Goto(r, [at |-> "Create", key |-> req[r].key])
       ELSE Reply(r) /\ UNCHANGED user
    /\ UNCHANGED <<made, links, told>>

KeyUnchecked(key) == TRUE
KeyFree(key) == Holder(key) = {}

\* The second of two rows with one key is refused by the unique index.  The
\* mail with the link is on its way once the row is there.
UserCreate(r) ==
    LET key == req[r].key IN
    /\ req[r].at = "Create"
    /\ IF KeyFree(key)
       THEN /\ made < MaxId                \* bound: accounts ever made
            /\ made' = made + 1
            /\ user' = [i \in Rows \cup {made'} |->
                           IF i = made' THEN [key |-> key, verified |-> key \in Socials] ELSE user[i]]
            /\ links' = IF key \in Mails THEN links \cup {made'} ELSE links
       ELSE UNCHANGED <<user, made, links>>
    /\ Reply(r)
    /\ UNCHANGED told

-----------------------------------------------------------------------------
(* verifyAccount, loginWithGoogle and loginWithGithub *)

VerifyAccount(r, i) ==
    /\ i \in links /\ i \in Rows
    /\ ~user[i].verified
    /\ Start(r, [at |-> "Verify", id |-> i, key |-> user[i].key])

VerifiedByKey(q) == Holder(q.key)
VerifiedRows(q) == {q.id} \cap Rows

VerifyAccountWrite(r) ==
    LET hit == VerifiedRows(req[r]) IN
    /\ req[r].at = "Verify"
    /\ user' = [i \in Rows |-> IF i \in hit THEN [user[i] EXCEPT !.verified = TRUE] ELSE user[i]]
    /\ told' = IF hit = {} THEN told ELSE told \cup {req[r].id}
    /\ Reply(r)
    /\ UNCHANGED <<made, links>>

\* The first sign-in makes the account, later ones only tokens.
SocialLogin(r, id) == Holder(id) = {} /\ Start(r, [at |-> "Create", key |-> id])

-----------------------------------------------------------------------------
Next ==
    \E r \in Requests :
       \/ \E mail \in Mails : Register(r, mail)
       \/ \E id \in Socials : SocialLogin(r, id)
       \/ \E i \in Id : VerifyAccount(r, i)
       \/ RegisterDelete(r) \/ UserCreate(r) \/ VerifyAccountWrite(r)

Spec == Init /\ [][Next]_vars

-----------------------------------------------------------------------------
(* What must hold *)

\* An address counts as verified only through the link of this very account:
\* a link mailed for a registration that was replaced verifies no other, even
\* when its request was under way during the replacement.
OwnLinkVerifies ==
    \A i \in Rows : user[i].verified /\ user[i].key \in Mails => i \in told

\* "Verify email successfully, you can already use this email to login your
\* account": an account its owner was told is verified stays in the table.
VerifiedAccountStays == told \subseteq Rows
=============================================================================
