------------------------------- MODULE SignIn --------------------------------
(***************************************************************************)
(* Signing in makes a user of an identity (identity_provisioning.py): by   *)
(* the mapping it left before, by its subject, by its verified email, or   *)
(* as a new user; an admin's invitation (tenant_members.py) makes a user   *)
(* of an email alone.  An email is looked up in lower case, and is unique  *)
(* only as it was written: an identity's is inserted as its token spells   *)
(* it, an invited one in lower case.                                       *)
(*                                                                         *)
(* Each is one transaction of several statements, each seeing what was     *)
(* committed before it.  Its writes are seen, and its inserts block        *)
(* another insert of the same subject or email, until it commits: they are *)
(* one step.  Subjects are unique to an identity: two issuers that reuse a *)
(* subject are outside this model.                                         *)
(*                                                                         *)
(* Operators marked Mutant are wrong versions of the definition they       *)
(* precede; no specification uses them.                                    *)
(***************************************************************************)
EXTENDS Naturals, FiniteSets

CONSTANTS
    Sessions,    \* requests that present a token or invite somebody
    Identities,  \* identities of the identity providers
    Emails,      \* verified emails, as they are spelled
    Lower,       \* each of them in lower case
    EmailOf,     \* the email of each identity, the empty set for none
    MaxUsers     \* bound on the users made

VARIABLES
    users,    \* platform.users: what each id was made of
    mapped,   \* platform.external_identities: the user of an identity
    signing,  \* where each session's bootstrap or invitation stands
    members   \* users given the default membership

signInVars == <<users, mapped, signing, members>>

Ids == 1..MaxUsers

ASSUME SignInAssumption ==
    /\ EmailOf \in [Identities -> SUBSET Emails] /\ MaxUsers \in Nat
    /\ Lower \in [Emails -> Emails] /\ \A e \in Emails : Lower[Lower[e]] = Lower[e]

\* A user has the identity whose subject it carries, if one, and its email; and,
\* as history, the users there were when its maker looked for one.
UserRows == [subject: SUBSET Identities, email: SUBSET Emails, seen: SUBSET Ids]

\* A session is of an identity or, an invitation, of none.
SigningSteps == [at: {"idle", "resolve", "link", "make", "look", "insert"}, who: SUBSET Identities,
                 email: SUBSET Emails, user: 0..MaxUsers, seen: SUBSET Ids]

SignInTypeOK ==
    /\ DOMAIN users \subseteq Ids
    /\ \A u \in DOMAIN users : users[u] \in UserRows
    /\ mapped \in [Identities -> SUBSET Ids]
    /\ signing \in [Sessions -> SigningSteps]
    /\ members \subseteq Ids

Starts(at, who, email) == [at |-> at, who |-> who, email |-> email, user |-> 0, seen |-> {}]
NotSigning == Starts("idle", {}, {})

SignInInit ==
    /\ users = << >>
    /\ mapped = [i \in Identities |-> {}]
    /\ signing = [s \in Sessions |-> NotSigning]
    /\ members = {}

-----------------------------------------------------------------------------
Lowered(e) == {Lower[x] : x \in e}

\* Mutant: an email is looked up as it is spelled.
WithExactEmail(e) == {u \in DOMAIN users : e # {} /\ users[u].email = e}

\* What a look-up by email finds.
WithEmail(e) == {u \in DOMAIN users : e # {} /\ Lowered(users[u].email) = Lowered(e)}

\* What `users_email_key` refuses.
Taken(e) == e # {} /\ \E u \in DOMAIN users : users[u].email = e

WithSubject(i) == {u \in DOMAIN users : users[u].subject = {i}}

\* The next free id is given a row.
InsertUser(u, row) ==
    /\ u \notin DOMAIN users /\ \A v \in Ids : v < u => v \in DOMAIN users
    /\ users' = [v \in DOMAIN users \cup {u} |-> IF v = u THEN row ELSE users[v]]

GotoStep(s, at, user) ==
    signing' = [signing EXCEPT ![s].at = at, ![s].user = user, ![s].seen = DOMAIN users]

Ends(s) == signing' = [signing EXCEPT ![s] = NotSigning]

\* A token is presented.
Present(s, i) ==
    /\ signing[s].at = "idle"
    /\ signing' = [signing EXCEPT ![s] = Starts("resolve", {i}, EmailOf[i])]
    /\ UNCHANGED <<users, mapped, members>>

\* _resolve_user: the mapping, the subject, then the email.
Resolve(s) ==
    /\ signing[s].at = "resolve"
    /\ \E i \in signing[s].who :
          IF mapped[i] # {} THEN Ends(s)
          ELSE IF WithSubject(i) # {} THEN \E u \in WithSubject(i) : GotoStep(s, "link", u)
          ELSE IF WithEmail(EmailOf[i]) # {}
          THEN \E u \in WithEmail(EmailOf[i]) : GotoStep(s, "link", u)
          ELSE GotoStep(s, "make", 0)
    /\ UNCHANGED <<users, mapped, members>>

\* The mapping is inserted unless a concurrent sign-in inserted it.
MapTo(i, u) == mapped' = [mapped EXCEPT ![i] = IF @ = {} THEN {u} ELSE @]

Link(s) ==
    /\ signing[s].at = "link"
    /\ \E i \in signing[s].who : MapTo(i, signing[s].user)
    /\ Ends(s)
    /\ UNCHANGED <<users, members>>

UserOf(s) == [subject |-> signing[s].who, email |-> signing[s].email, seen |-> signing[s].seen]

\* A new user, with the default membership where the deployment says so.  The
\* subject made meanwhile is read back and mapped; the email made meanwhile in the
\* same spelling breaks the transaction, and the client presents its token again.
Make(s) ==
    /\ signing[s].at = "make" /\ Ends(s)
    /\ \E i \in signing[s].who :
          \/ /\ WithSubject(i) # {}
             /\ \E u \in WithSubject(i) : MapTo(i, u) /\ members' \in {members, members \cup {u}}
             /\ UNCHANGED users
          \/ /\ WithSubject(i) = {} /\ Taken(EmailOf[i])
             /\ UNCHANGED <<users, mapped, members>>
          \/ /\ WithSubject(i) = {} /\ ~Taken(EmailOf[i])
             /\ \E u \in Ids : /\ InsertUser(u, UserOf(s)) /\ MapTo(i, u)
                              /\ members' \in {members, members \cup {u}}

\* `invite`: the person is looked for by email, which was put in lower case.
InviteEmail(s, e) ==
    /\ signing[s].at = "idle"
    /\ signing' = [signing EXCEPT ![s] = Starts("look", {}, Lowered({e}))]
    /\ UNCHANGED <<users, mapped, members>>

LookUp(s) ==
    /\ signing[s].at = "look"
    /\ IF WithEmail(signing[s].email) # {} THEN Ends(s) ELSE GotoStep(s, "insert", 0)
    /\ UNCHANGED <<users, mapped, members>>

\* The person is made, without a subject; one made meanwhile in the same spelling
\* is the conflict.
InsertInvited(s) ==
    /\ signing[s].at = "insert" /\ Ends(s)
    /\ IF Taken(signing[s].email) THEN UNCHANGED users
       ELSE \E u \in Ids : InsertUser(u, UserOf(s))
    /\ UNCHANGED <<mapped, members>>

SignInNext ==
    \/ \E s \in Sessions, i \in Identities : Present(s, i)
    \/ \E s \in Sessions : Resolve(s) \/ Link(s) \/ Make(s) \/ LookUp(s) \/ InsertInvited(s)
    \/ \E s \in Sessions, e \in Emails : InviteEmail(s, e)

SignInSpec == SignInInit /\ [][SignInNext]_signInVars

-----------------------------------------------------------------------------
\* Two users that were made at once: neither maker had seen the other, and their
\* emails are not spelled alike.
MadeAtOnce(u, v) ==
    /\ u \notin users[v].seen /\ v \notin users[u].seen
    /\ users[u].email # users[v].email

\* Two identities with one mailbox are one user, and so is whoever was invited
\* under it, however each of them spells it and whichever of them signed in first
\* or at once; unless two of them overlapped and spelled it differently, which the
\* unique constraint lets pass (`_resolve_user`, `invite`, `users_email_key`).
SamePersonSameUser ==
    \A i \in Identities : \A m \in mapped[i] :
        /\ \A u \in WithEmail(EmailOf[i]) : u = m \/ MadeAtOnce(u, m)
        /\ \A j \in Identities : \A n \in mapped[j] :
              Lowered(EmailOf[i]) = Lowered(EmailOf[j]) /\ EmailOf[i] # {} =>
                 m = n \/ MadeAtOnce(m, n)

-----------------------------------------------------------------------------
(* The inductive invariant.                                                  *)

\* One user per subject, and per email unless they were made at once; who carries
\* a subject has its email.
UsersAreApart ==
    /\ \A u, v \in DOMAIN users :
          \/ u = v
          \/ /\ users[u].email # {} /\ Lowered(users[u].email) = Lowered(users[v].email) =>
                    MadeAtOnce(u, v)
             /\ users[u].subject # {} => users[u].subject # users[v].subject
    /\ \A u \in DOMAIN users : \A i \in users[u].subject : users[u].email = EmailOf[i]

\* Who was seen is there, and a maker saw nobody with its email.
MakersLooked ==
    /\ \A u \in DOMAIN users : users[u].seen \subseteq DOMAIN users
    /\ \A s \in Sessions :
          /\ signing[s].seen \subseteq DOMAIN users
          /\ signing[s].at \in {"make", "insert"} =>
                signing[s].seen \cap WithEmail(signing[s].email) = {}

\* A user that an identity may be mapped to: one that has its email, if it has one.
Fits(i, u) ==
    u \in DOMAIN users /\ (EmailOf[i] # {} => Lowered(users[u].email) = Lowered(EmailOf[i]))

\* An identity is mapped to one user, and it is, or is about to be, one that fits.
MappedFits ==
    /\ \A i \in Identities : mapped[i] # {} => \E u \in DOMAIN users : mapped[i] = {u} /\ Fits(i, u)
    /\ \A s \in Sessions : signing[s].at = "link" =>
          \A i \in signing[s].who : Fits(i, signing[s].user)

\* A token is that of one identity, with its email; an invitation is of none.
OneIdentity ==
    \A s \in Sessions :
        /\ \A i \in signing[s].who : signing[s].who = {i} /\ signing[s].email = EmailOf[i]
        /\ signing[s].at \in {"look", "insert"} => signing[s].who = {}

SignInInv == SignInTypeOK /\ UsersAreApart /\ MakersLooked /\ OneIdentity /\ MappedFits
=============================================================================
