-------------------- MODULE AccountControlPlaneInvariant --------------------
(***************************************************************************)
(* The inductive invariants of the account registry.  AccountInv is behind *)
(* HostedByInvite and TokensEarned: every rewrite saves a change of one    *)
(* content that was read whole, so what one content promises about itself  *)
(* survives any loss of rewrites.  SoloInv is behind what holds as long as *)
(* no operation has overlapped another: then the content a call holds is   *)
(* still the one on file when it is saved.                                 *)
(***************************************************************************)
EXTENDS AccountControlPlaneProperties

-----------------------------------------------------------------------------
(* One content, when the ids below n are taken and the users of A have been *)
(* admitted.                                                                *)

UsersOK(c, A) == \A u \in c.users : u.eligible =>
  u.id \in A /\ \E i \in c.invites : i.status = "redeemed" /\ i.by = u.id

InvitesOK(c, n) ==
  /\ \A i \in c.invites : i.id < n
  /\ \A i, j \in c.invites : i.id = j.id => i = j

CodesOK(c, n, A) ==
  /\ \A k \in c.codes : k.id < n /\ k.user \in A
  /\ \A k, j \in c.codes : k.id = j.id => k = j

(* k is what token t was exchanged for.                                    *)
Grants(k, t) == /\ k.id = t.code /\ k.status = "redeemed"
                /\ k.client = t.client /\ k.user = t.user
                /\ k.profile = t.profile /\ k.device = t.device

TokensOK(c) ==
  /\ \A t \in c.tokens : \E k \in c.codes : Grants(k, t)
  /\ \A s, t \in c.tokens : s.code = t.code => s = t

Sound(c, n, A) == /\ c \in Content
                  /\ UsersOK(c, A) /\ InvitesOK(c, n) /\ CodesOK(c, n, A) /\ TokensOK(c)

-----------------------------------------------------------------------------
(* The calls under way.                                                    *)

(* The step p's call is heading for.                                       *)
Aim(p) == IF pc[p] \in {"truncate", "write"} THEN after[p]
          ELSE IF pc[p] \in {"verify", "verifyLinks"} THEN call[p].next ELSE pc[p]

NeedsUser == {"pairProfile", "pairUser", "pairDevice", "desktopProfile",
              "desktopDevice", "redeemed"}
Issuing   == {"issueUser", "issueProfile", "issue"}

(* A call that needs them has a user, a client, a key; one that issues a    *)
(* code does so for somebody admitted, and one that exchanges a code has    *)
(* read that code open.                                                     *)
CallOK(p) ==
  /\ after[p] \in {"idle", "redeemed", "revoked", "link", "desktopDevice"}
  /\ Aim(p) # "none"
  /\ Aim(p) \in NeedsUser => call[p].user \in Ids
  /\ Aim(p) \in {"redeemed", "revoked"} => call[p].key \in Ids
  /\ Aim(p) \in Issuing => call[p].client \in Ids
  /\ pc[p] \in {"issueUser", "issueProfile"} => call[p].next = "issue"
  /\ Aim(p) \in {"issueProfile", "issue"} => call[p].user \in admitted
  /\ Aim(p) = "issue" => call[p].profile \in Ids
  /\ pc[p] = "issue" => call[p].device \in Ids
  /\ Aim(p) = "exchange" =>
       \E k \in held[p].codes : k.id = call[p].key /\ k.status = "open"

ContentsSound == \A c \in Contents : Sound(c, fresh, admitted)

AccountInv == TypeOK /\ ContentsSound /\ \A p \in Processes : CallOK(p)

-----------------------------------------------------------------------------
(* One operation at a time.                                                *)

(* A dict keyed by x.id, of the ids below n.                               *)
Keyed(S, n) == /\ \A x \in S : x.id < n
               /\ \A x, y \in S : x.id = y.id => x = y

Numbered(c, n) == /\ Keyed(c.users, n) /\ Keyed(c.profiles, n)
                  /\ Keyed(c.devices, n) /\ Keyed(c.tokens, n)

LinksOK(c) == \A l \in c.links :
  /\ [id |-> l.device, user |-> l.user] \in c.devices
  /\ \E q \in c.profiles : q.id = l.profile /\ q.user = l.user

Named(k) == [user |-> k.user, profile |-> k.profile, device |-> k.device]

(* What is in force names a link.                                          *)
GrantsOK(c) == /\ \A k \in c.codes : k.status = "open" => Named(k) \in c.links
               /\ \A t \in c.tokens : t.status = "active" => Named(t) \in c.links

(* The invites of R are used up, the tokens of V revoked.                  *)
SpentIn(c, R, V) == /\ \A i \in c.invites : i.id \in R => i.status = "redeemed"
                    /\ \A t \in c.tokens : t.id \in V => t.status = "revoked"

UsedInvites == {x[1] : x \in redeemed}

Whole(c, n, R, V) ==
  Numbered(c, n) /\ LinksOK(c) /\ GrantsOK(c) /\ SpentIn(c, R, V)

(* The content that p's call leaves on file.                               *)
Saving(p)  == pc[p] \in {"truncate", "write"}
Pending(p) == IF Saving(p) THEN held[p] ELSE file

(* A call that saves what it read earlier still holds what is on file, and  *)
(* what it has looked up is there.                                          *)
ReadsOK(p) ==
  /\ pc[p] = "desktopProfile" => held[p].profiles = Load.profiles
  /\ Aim(p) \in Issuing \cup {"exchange"} => held[p] = Load
  /\ Aim(p) = "issue" =>
       \E q \in Load.profiles : q.id = call[p].profile /\ q.user = call[p].user
  /\ pc[p] = "issue" => Named(call[p]) \in Load.links

(* An answer about to be given is true of the content left on file, and an  *)
(* invite is not answered for twice.                                        *)
AnswerOK(p) ==
  /\ Aim(p) = "redeemed" => /\ call[p].key < fresh /\ call[p].key \notin UsedInvites
                            /\ SpentIn(Pending(p), {call[p].key}, {})
  /\ Aim(p) = "revoked" => /\ call[p].key < fresh
                           /\ SpentIn(Pending(p), {}, {call[p].key})

(* Whoever was admitted is eligible in what is on file or about to be.      *)
Keeps(c) == \A u \in admitted : Eligible(c, u)

Holding == {"truncate", "write", "desktopProfile", "issueUser", "issueProfile", "verify",
            "verifyLinks", "issue", "exchange", "authorized"}

SoloInv == ~ raced =>
  /\ \A p, q \in Processes : pc[p] # "idle" /\ pc[q] # "idle" => p = q
  /\ mixed = {}
  /\ \A p \in Processes : held[p] # Empty => pc[p] \in Holding
  /\ \A x \in redeemed : x[1] < fresh
  /\ \A x, y \in redeemed : x[1] = y[1] => x = y
  /\ \A t \in revoked : t < fresh
  /\ FirstFresh <= fresh
  /\ \A c \in Contents : Whole(c, fresh, UsedInvites, revoked)
  /\ \A p \in Processes : ReadsOK(p) /\ AnswerOK(p)
  /\ crashes = 0 =>
       /\ \A p \in Processes :
            pc[p] \in {"truncate", "write", "desktopProfile"} => Keeps(held[p])
       /\ (\A p \in Processes : ~ Saving(p)) => ~ torn /\ Keeps(file)
=============================================================================
