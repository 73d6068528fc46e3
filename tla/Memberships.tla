---------------------------- MODULE Memberships -----------------------------
(***************************************************************************)
(* Invitations to one organisation (organisations/router.py) and the       *)
(* memberships they give.  An invitation is read, checked and written      *)
(* without a lock, so revoking, accepting and expiring one overlap; the    *)
(* unique users.email and (user, organisation) fail the second of two      *)
(* acceptances that both insert.  Nothing here suspends a member.          *)
(***************************************************************************)
EXTENDS Requests

CONSTANTS
    Emails, Roles,
    INVITATION_TTL_DAYS,
    MaxInvitations     \* bound: invitations created

ASSUME MembershipAssumption == INVITATION_TTL_DAYS \in Nat

InvitationStatus == {"PENDING", "ACCEPTED", "REVOKED", "EXPIRED"}
NoRole == "none"

VARIABLES
    invitation,    \* invitations of the organisation, in the order of creation
    role_of,       \* the role of each e-mail's membership here
    account        \* e-mails that have a user

membershipVars == <<invitation, role_of, account>>

MembershipInit ==
    /\ invitation = <<>>
    /\ role_of = [e \in Emails |-> NoRole]
    /\ account = {}

Ids == 1..Len(invitation)
set_invitation(i, status) == [invitation EXCEPT ![i].status = status]

\* Another organisation's owner signs up; an e-mail that has a user is refused.
signup(e) ==
    /\ Once /\ e \notin account
    /\ account' = account \union {e}
    /\ UNCHANGED <<invitation, role_of>>

BeginInvite(c, e, r) ==
    /\ role_of[e] = NoRole
    /\ \A i \in Ids : invitation[i].email = e => invitation[i].status # "PENDING"
    /\ Hold(c, [pc |-> "invite", email |-> e, role |-> r, keys |-> {}])
    /\ UNCHANGED membershipVars

\* Nothing keeps two PENDING invitations of one e-mail apart.
create_invitation(c) ==
    /\ At(c, "invite") /\ Len(invitation) < MaxInvitations
    /\ invitation' = Append(invitation, [email |-> req[c].email, role_id |-> req[c].role,
                                         status |-> "PENDING",
                                         expires_at |-> today + INVITATION_TTL_DAYS])
    /\ End(c) /\ UNCHANGED <<role_of, account>>

BeginRevoke(c, i) ==
    /\ invitation[i].status = "PENDING"
    /\ Hold(c, [pc |-> "revoke", i |-> i, keys |-> {i}])
    /\ UNCHANGED membershipVars

revoke_invitation(c) ==
    /\ At(c, "revoke")
    /\ invitation' = set_invitation(req[c].i, "REVOKED")
    /\ End(c) /\ UNCHANGED <<role_of, account>>

\* Mutant: a revoked invitation is not refused.
refused_accepted(i) == invitation[i].status = "ACCEPTED"
\* The 410s of _resolve_pending_invitation: an EXPIRED one is not among them.
refused(i) == invitation[i].status \in {"ACCEPTED", "REVOKED"}
Overdue(i) == invitation[i].status = "PENDING" /\ invitation[i].expires_at < today

\* Opened or accepted after its time: written EXPIRED, then 410.
BeginExpire(c, i) ==
    /\ Overdue(i)
    /\ Hold(c, [pc |-> "expire", i |-> i, keys |-> {i}])
    /\ UNCHANGED membershipVars

ExpireInvitation(c) ==
    /\ At(c, "expire")
    /\ invitation' = set_invitation(req[c].i, "EXPIRED")
    /\ End(c) /\ UNCHANGED <<role_of, account>>

\* Signed in when the e-mail has a user, otherwise with a name and a password for one.
BeginAccept(c, i) ==
    /\ ~refused(i) /\ ~Overdue(i)
    /\ LET e == invitation[i].email
       IN  Hold(c, [pc |-> "accept", i |-> i, keys |-> {i}, user |-> e \in account,
                    member |-> role_of[e] # NoRole])
    /\ UNCHANGED membershipVars

\* The INSERTs that a unique constraint refuses: a user, or a membership, created meanwhile.
Collides(c) ==
    LET e == invitation[req[c].i].email
    IN  (~req[c].user /\ e \in account) \/ (~req[c].member /\ role_of[e] # NoRole)

accept_invitation(c) ==
    /\ At(c, "accept") /\ ~Collides(c)
    /\ LET i == req[c].i
           e == invitation[i].email
       IN  /\ invitation' = set_invitation(i, "ACCEPTED")
           /\ account' = account \union {e}
           /\ role_of' = IF req[c].member THEN role_of ELSE [role_of EXCEPT ![e] = invitation[i].role_id]
    /\ End(c)

FailAccept(c) == At(c, "accept") /\ Collides(c) /\ End(c) /\ UNCHANGED membershipVars

MembershipNext ==
    \/ \E e \in Emails : signup(e)
    \/ \E c \in Clerks, e \in Emails, r \in Roles : BeginInvite(c, e, r)
    \/ \E c \in Clerks, i \in Ids : BeginRevoke(c, i) \/ BeginExpire(c, i) \/ BeginAccept(c, i)
    \/ \E c \in Clerks : create_invitation(c) \/ revoke_invitation(c) \/ ExpireInvitation(c)
    \/ \E c \in Clerks : accept_invitation(c) \/ FailAccept(c)
    \/ NextDay /\ UNCHANGED membershipVars

MembershipSpec ==
    /\ RequestsInit /\ MembershipInit
    /\ [][MembershipNext]_<<requests, membershipVars>>

\* An invitation accepted or revoked stays so, unless two requests had it in hand at once.
InvitationSettled ==
    [][\A i \in Ids : invitation[i].status \in {"ACCEPTED", "REVOKED"}
                          => invitation'[i].status = invitation[i].status \/ i \in raced]_membershipVars
=============================================================================
