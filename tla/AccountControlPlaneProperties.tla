------------------- MODULE AccountControlPlaneProperties -------------------
(***************************************************************************)
(* What the account registry promises, stated over AccountControlPlane.    *)
(***************************************************************************)
EXTENDS AccountControlPlane

TypeOK ==
  /\ file \in Content /\ torn \in BOOLEAN /\ mixed \subseteq Processes
  /\ pc \in [Processes -> Steps] /\ after \in [Processes -> Steps]
  /\ held \in [Processes -> Content] /\ call \in [Processes -> Call]
  /\ fresh \in Ids /\ calls \in Nat /\ crashes \in Nat /\ raced \in BOOLEAN
  /\ admitted \subseteq Ids /\ redeemed \subseteq Ids \X Ids /\ revoked \subseteq Ids

(* Every content that is on disk or that some operation may save.          *)
Contents == {file} \cup {held[p] : p \in Processes}

-----------------------------------------------------------------------------
(* However many operations overlap, and wherever they crash.               *)

(* A user of the hosted bridge came in by an invite: redeem_invite_code     *)
(* uses one up in the rewrite that makes its user eligible, and             *)
(* register_desktop_device leaves eligibility as it finds it.  Nobody else  *)
(* is ever given a code or a token.                                         *)
HostedByInvite == \A c \in Contents :
  /\ \A u \in c.users : u.eligible =>
       \E i \in c.invites : i.status = "redeemed" /\ i.by = u.id
  /\ \A k \in c.codes \cup c.tokens : k.user \in admitted

(* A token stands for one redeemed code of the same content, with the       *)
(* code's user, profile and device, and no code stands behind two tokens:   *)
(* the exchange marks the code in the rewrite that adds the token, so no    *)
(* lost rewrite parts the two.                                              *)
TokensEarned == \A c \in Contents : \A t \in c.tokens :
  /\ \E k \in c.codes : /\ k.id = t.code /\ k.status = "redeemed"
                        /\ k.client = t.client /\ k.user = t.user
                        /\ k.profile = t.profile /\ k.device = t.device
  /\ \A s \in c.tokens : s.code = t.code => s = t

-----------------------------------------------------------------------------
(* One operation at a time, as long as none has overlapped another.        *)

Quiet == \A p \in Processes : pc[p] = "idle"

(* A link ties a device to a profile of the same user, and an open code or  *)
(* an active token names a device and a profile of its user that are        *)
(* linked: what issue checked still holds when the token is used.           *)
BoundToLink == ~ raced =>
  /\ \A l \in file.links :
       /\ [id |-> l.device, user |-> l.user] \in file.devices
       /\ \E q \in file.profiles : q.id = l.profile /\ q.user = l.user
  /\ \A k \in file.codes \cup file.tokens : k.status \in {"open", "active"} =>
       [user |-> k.user, profile |-> k.profile, device |-> k.device] \in file.links

(* An invite lets one person in.                                           *)
InviteOnce == ~ raced => \A x, y \in redeemed : x[1] = y[1] => x = y

(* A token whose revocation was answered never becomes active again.       *)
RevocationLasts == ~ raced =>
  \A t \in file.tokens : t.id \in revoked => t.status = "revoked"

(* Without a crash nobody who was let in is shut out: every later rewrite   *)
(* keeps the user and its eligibility.                                      *)
AdmittedStay == ~ raced /\ crashes = 0 /\ Quiet =>
  \A u \in admitted : Eligible(file, u)

=============================================================================
