--------------------------- MODULE AccountsProofs ---------------------------
(***************************************************************************)
(* Accounts for any number of addresses, social ids, requests and accounts *)
(* ever made: keys stay unique without a transaction, and an address is    *)
(* verified by its own link only.                                          *)
(***************************************************************************)
EXTENDS Accounts, TLAPS

\* A request that confirms an address came in through that account's link.
VerifyLinked == \A r \in Requests : req[r].at = "Verify" => req[r].id \in links

Sound == TypeOK /\ VerifyLinked /\ OwnLinkVerifies

Table  == DOMAIN user \subseteq 1..made /\ user \in [DOMAIN user -> Row]
Unique == \A i, j \in DOMAIN user : user[i].key = user[j].key => i = j
Mailed == links \subseteq 1..made /\ told \subseteq links
Served == req \in [Requests -> Request] /\ VerifyLinked

\* The invariant taken apart.
LEMMA SoundParts ==
    /\ Sound <=> made \in 0..MaxId /\ Table /\ Unique /\ Mailed /\ Served /\ OwnLinkVerifies
    /\ Sound' <=> made' \in 0..MaxId /\ Table' /\ Unique' /\ Mailed' /\ Served' /\ OwnLinkVerifies'
  BY DEF Sound, TypeOK, Table, Unique, Mailed, Served

\* What a request under way carries.
LEMMA RequestFields ==
    ASSUME NEW q \in Request
    PROVE  /\ q.at \in {"Delete", "Verify"} => q.id \in Id /\ q.key \in Keys
           /\ q.at = "Create" => q.key \in Keys
  BY DEF Request, Idle

\* A request that goes on, waits or is answered changes its own slot only.
LEMMA GotoServed ==
    ASSUME Served, NEW r \in Requests, NEW q \in Request, req' = [req EXCEPT ![r] = q],
           links \subseteq links', q.at = "Verify" => q.id \in links'
    PROVE  Served'
  BY DEF Served, VerifyLinked

\* The state before any registration.
LEMMA SoundInit == Init => Sound
  <1> SUFFICES ASSUME Init PROVE Sound
    OBVIOUS
  <1> USE AccountsAssumption DEF Init
  <1>1. made \in 0..MaxId /\ Table /\ Unique /\ Mailed /\ OwnLinkVerifies
    BY DEF Table, Unique, Mailed, OwnLinkVerifies, Rows
  <1>2. Served
    BY DEF Served, VerifyLinked, Request, Idle
  <1> QED
    BY <1>1, <1>2, SoundParts

\* A read leaves the tables alone.
LEMMA StartSound ==
    ASSUME Sound, NEW r \in Requests, NEW q \in Request, Start(r, q),
           q.at = "Verify" => q.id \in links
    PROVE  Sound'
  <1>1. Served'
    BY GotoServed, SoundParts DEF Start, Goto
  <1>2. (made \in 0..MaxId /\ Table /\ Unique /\ Mailed /\ OwnLinkVerifies)'
    BY SoundParts DEF Start, Table, Unique, Mailed, OwnLinkVerifies, Rows
  <1> QED
    BY <1>1, <1>2, SoundParts

\* register, verifyAccount and the social sign-ins begin with a read.
LEMMA ReadSound ==
    ASSUME Sound, NEW r \in Requests,
           \/ \E mail \in Mails : Register(r, mail)
           \/ \E id \in Socials : SocialLogin(r, id)
           \/ \E i \in Id : VerifyAccount(r, i)
    PROVE  Sound'
  <1> USE SoundParts
  <1>0. \A i \in Rows : i \in Id /\ user[i].key \in Keys
    BY AccountsAssumption DEF Table, Rows, Id, Row
  <1>1. ASSUME NEW mail \in Mails, Register(r, mail) PROVE Sound'
    <2>1. CASE Start(r, [at |-> "Create", key |-> mail])
      BY <2>1, StartSound DEF Request, Keys
    <2>2. ASSUME NEW i \in Holder(mail), Start(r, [at |-> "Delete", id |-> i, key |-> mail])
          PROVE  Sound'
      <3>1. [at |-> "Delete", id |-> i, key |-> mail] \in Request
        BY <1>0 DEF Request, Keys, Holder
      <3> QED
        BY <2>2, <3>1, StartSound
    <2> QED
      BY <1>1, <2>1, <2>2 DEF Register
  <1>2. ASSUME NEW id \in Socials, SocialLogin(r, id) PROVE Sound'
    BY <1>2, StartSound DEF SocialLogin, Request, Keys
  <1>3. ASSUME NEW i \in Id, VerifyAccount(r, i) PROVE Sound'
    <2>1. [at |-> "Verify", id |-> i, key |-> user[i].key] \in Request
      BY <1>0, <1>3 DEF VerifyAccount, Request
    <2> QED
      BY <1>3, <2>1, StartSound DEF VerifyAccount
  <1> QED
    BY <1>1, <1>2, <1>3

\* A deletion takes one row away.
LEMMA DeleteSound ==
    ASSUME Sound, NEW r \in Requests, RegisterDelete(r)
    PROVE  Sound'
  <1> USE SoundParts DEF RegisterDelete
  <1>1. req[r] \in Request /\ req[r].key \in Keys
    BY RequestFields DEF Served
  <1>2. [at |-> "Create", key |-> req[r].key] \in Request /\ Idle \in Request
    BY <1>1 DEF Request
  <1>3. Served'
    BY <1>2, GotoServed DEF Goto, Reply, Idle
  <1>4. CASE req[r].id \in Rows
    BY <1>3, <1>4 DEF Table, Unique, Mailed, OwnLinkVerifies, Rows
  <1>5. CASE req[r].id \notin Rows
    BY <1>3, <1>5 DEF Table, Unique, Mailed, OwnLinkVerifies, Rows
  <1> QED
    BY <1>4, <1>5

\* A new row has an id and a key of its own; an address starts unverified.
LEMMA CreateSound ==
    ASSUME Sound, NEW r \in Requests, UserCreate(r)
    PROVE  Sound'
  <1> USE SoundParts
  <1> DEFINE key == req[r].key
  <1>1. key \in Keys /\ Idle \in Request /\ (Idle.at = "Verify" => Idle.id \in links')
    BY RequestFields DEF Served, UserCreate, Request, Idle
  <1>2. CASE KeyFree(key)
    <2> DEFINE new == made + 1
    <2>1. /\ made' = new /\ new \in 1..MaxId
          /\ user' = [i \in Rows \cup {new} |->
                         IF i = new THEN [key |-> key, verified |-> key \in Socials] ELSE user[i]]
          /\ links \subseteq links' /\ links' \subseteq links \cup {new}
          /\ told' = told
          /\ req' = [req EXCEPT ![r] = Idle]
      BY <1>2, AccountsAssumption DEF UserCreate, Reply
    <2>2. new \notin Rows /\ \A i \in Rows : user[i].key # key
      BY <1>2 DEF Table, Rows, KeyFree, Holder
    <2>3. Table'
      BY <1>1, <2>1 DEF Table, Rows, Row
    <2>4. Unique'
      BY <2>1, <2>2 DEF Unique, Rows
    <2>5. Mailed'
      BY <2>1 DEF Mailed
    <2>6. OwnLinkVerifies'
      BY <2>1, AccountsAssumption DEF OwnLinkVerifies, Rows
    <2>7. Served'
      BY <1>1, <2>1, GotoServed
    <2> QED
      BY <2>1, <2>3, <2>4, <2>5, <2>6, <2>7
  <1>3. CASE ~KeyFree(key)
    <2>1. UNCHANGED <<user, made, links, told>> /\ req' = [req EXCEPT ![r] = Idle]
      BY <1>3 DEF UserCreate, Reply
    <2>2. Served'
      BY <1>1, <2>1, GotoServed
    <2> QED
      BY <2>1, <2>2 DEF Table, Unique, Mailed, OwnLinkVerifies, Rows
  <1> QED
    BY <1>2, <1>3

\* A confirmation verifies the row of its own link, if that is still there.
LEMMA VerifySound ==
    ASSUME Sound, NEW r \in Requests, VerifyAccountWrite(r)
    PROVE  Sound'
  <1> USE SoundParts
  <1> DEFINE hit == VerifiedRows(req[r])
  <1>1. /\ hit \subseteq Rows
        /\ user' = [i \in Rows |-> IF i \in hit THEN [user[i] EXCEPT !.verified = TRUE] ELSE user[i]]
        /\ told' = IF hit = {} THEN told ELSE told \cup {req[r].id}
        /\ \A i \in hit : i = req[r].id
        /\ req[r].id \in links
        /\ req' = [req EXCEPT ![r] = Idle] /\ UNCHANGED <<made, links>>
    BY DEF VerifyAccountWrite, VerifiedRows, Reply, Served, VerifyLinked
  <1>2. \A i \in Rows : user[i] \in Row
    BY DEF Table, Rows
  <1>3. \A i \in Rows : user'[i] \in Row /\ user'[i].key = user[i].key
    BY <1>1, <1>2 DEF Row
  <1>4. Table'
    BY <1>1, <1>3 DEF Table, Rows
  <1>5. Unique'
    BY <1>1, <1>3 DEF Unique, Rows
  <1>6. Mailed'
    BY <1>1 DEF Mailed
  <1>7. OwnLinkVerifies'
    BY <1>1, <1>3 DEF OwnLinkVerifies, Rows
  <1>8. Served'
    BY <1>1, GotoServed DEF Request, Idle
  <1> QED
    BY <1>1, <1>4, <1>5, <1>6, <1>7, <1>8

\* Every step of the server keeps the invariant.
LEMMA SoundNext == Sound /\ [Next]_vars => Sound'
  <1> SUFFICES ASSUME Sound, [Next]_vars PROVE Sound'
    OBVIOUS
  <1>1. CASE UNCHANGED vars
    BY <1>1, SoundParts DEF vars, Table, Unique, Mailed, Served, VerifyLinked, OwnLinkVerifies, Rows
  <1>2. CASE Next
    BY <1>2, ReadSound, DeleteSound, CreateSound, VerifySound DEF Next
  <1> QED
    BY <1>1, <1>2

LEMMA SoundAlways == Spec => []Sound
  BY SoundInit, SoundNext, PTL DEF Spec

\* The users table of register, verifyAccount and the social sign-ins keeps one
\* row per e-mail address, Google id and Github id, in every interleaving.
THEOREM AccountsTypeCorrect == Spec => []TypeOK
  <1>1. Sound => TypeOK
    BY DEF Sound
  <1> QED
    BY <1>1, SoundAlways, PTL

\* Whatever registrations replace an account while its confirmation is under
\* way, an address counts as verified only through the link of this account.
THEOREM OwnLinkSafe == Spec => []OwnLinkVerifies
  <1>1. Sound => OwnLinkVerifies
    BY DEF Sound
  <1> QED
    BY <1>1, SoundAlways, PTL
=============================================================================
