---------------------- MODULE AccountControlPlaneProofs ----------------------
(***************************************************************************)
(* HostedByInvite and TokensEarned, for every set of people and processes, *)
(* every interleaving of their reads and rewrites, and every crash; then   *)
(* BoundToLink, InviteOnce, RevocationLasts and AdmittedStay, which hold   *)
(* as long as no operation has overlapped another.                         *)
(***************************************************************************)
EXTENDS AccountControlPlaneInvariant, TLAPS

-----------------------------------------------------------------------------
(* What a change does to one sound content.                                *)

(* dict[x.id] = x keeps the type of the dictionary.                        *)
LEMMA PutTyped ==
  ASSUME NEW T, NEW S \in SUBSET T, NEW x \in T
  PROVE  Put(S, x) \in SUBSET T
  BY DEF Put

(* Sound stays sound when more ids are taken and more users admitted.       *)
LEMMA SoundGrows ==
  ASSUME NEW c, NEW n \in Nat, NEW m \in Nat, n <= m, NEW A, NEW B, A \subseteq B,
         Sound(c, n, A)
  PROVE  Sound(c, m, B)
<1>1. /\ \A i \in c.invites : i.id \in Nat
      /\ \A k \in c.codes : k.id \in Nat
  BY DEF Sound, Content, Invites, Codes, Ids
<1>2. InvitesOK(c, m)
  BY <1>1 DEF Sound, InvitesOK
<1>3. CodesOK(c, m, B)
  BY <1>1 DEF Sound, CodesOK
<1>4. UsersOK(c, B)
  BY DEF Sound, UsersOK
<1> QED
  BY <1>2, <1>3, <1>4 DEF Sound

LEMMA SoundEmpty == ASSUME NEW n \in Nat, NEW A PROVE Sound(Empty, n, A)
  BY DEF Sound, Empty, Content, UsersOK, InvitesOK, CodesOK, TokensOK

(* Profiles, devices, links and clients play no part.                      *)
LEMMA SoundElsewhere ==
  ASSUME NEW n \in Nat, NEW A, NEW c, Sound(c, n, A), NEW d \in Content,
         d.users = c.users, d.invites = c.invites, d.codes = c.codes, d.tokens = c.tokens
  PROVE  Sound(d, n, A)
  BY DEF Sound, UsersOK, InvitesOK, CodesOK, TokensOK

(* A fresh open invite.                                                    *)
LEMMA SoundInvite ==
  ASSUME NEW n \in Ids, NEW A, NEW c, Sound(c, n, A)
  PROVE  Sound([c EXCEPT !.invites =
                  Put(@, [id |-> n, status |-> "open", by |-> None])], n + 1, A)
<1> DEFINE i == [id |-> n, status |-> "open", by |-> None]
           d == [c EXCEPT !.invites = Put(@, i)]
<1>1. i \in Invites
  BY DEF Invites, Ids, None
<1>2. c \in Content /\ c.invites \in SUBSET Invites
  BY DEF Sound, Content
<1>3. Put(c.invites, i) \in SUBSET Invites
  BY <1>1, <1>2, PutTyped
<1>4. /\ d \in Content /\ d.invites = Put(c.invites, i)
      /\ d.users = c.users /\ d.codes = c.codes /\ d.tokens = c.tokens
  BY <1>2, <1>3 DEF Content
<1>5. Sound(c, n + 1, A)
  BY SoundGrows DEF Ids
<1>6. c.invites \subseteq Put(c.invites, i)
  BY <1>2 DEF Put, Sound, InvitesOK, Invites, Ids
<1>7. UsersOK(d, A)
  BY <1>4, <1>5, <1>6 DEF Sound, UsersOK
<1>8. InvitesOK(d, n + 1)
  BY <1>2, <1>4, <1>5 DEF Sound, InvitesOK, Put, Invites, Ids
<1>9. CodesOK(d, n + 1, A) /\ TokensOK(d)
  BY <1>4, <1>5 DEF Sound, CodesOK, TokensOK
<1> QED
  BY <1>4, <1>7, <1>8, <1>9 DEF Sound

(* register_desktop_device's user: one of the file, or not eligible.       *)
LEMMA SoundUser ==
  ASSUME NEW n \in Ids, NEW A, NEW c, Sound(c, n, A),
         NEW u \in Users, u \in c.users \/ ~ u.eligible
  PROVE  Sound([c EXCEPT !.users = Put(@, u)], n, A)
<1> DEFINE d == [c EXCEPT !.users = Put(@, u)]
<1>1. c \in Content /\ c.users \in SUBSET Users
  BY DEF Sound, Content
<1>2. Put(c.users, u) \in SUBSET Users
  BY <1>1, PutTyped
<1>3. /\ d \in Content /\ d.users = Put(c.users, u)
      /\ d.invites = c.invites /\ d.codes = c.codes /\ d.tokens = c.tokens
  BY <1>1, <1>2 DEF Content
<1>4. UsersOK(d, A)
  BY <1>3 DEF Sound, UsersOK, Put
<1>5. InvitesOK(d, n) /\ CodesOK(d, n, A) /\ TokensOK(d)
  BY <1>3 DEF Sound, InvitesOK, CodesOK, TokensOK
<1> QED
  BY <1>3, <1>4, <1>5 DEF Sound

(* An open invite is used up for a user, who becomes eligible.             *)
LEMMA SoundRedeemed ==
  ASSUME NEW n \in Ids, NEW A, NEW c, Sound(c, n, A),
         NEW u \in Users, NEW i \in c.invites, i.status = "open",
         NEW P \in SUBSET Profiles
  PROVE  Sound([c EXCEPT !.users = Put(@, u),
                         !.invites = Put(@, [i EXCEPT !.status = "redeemed", !.by = u.id]),
                         !.profiles = P], n, A \cup {u.id})
<1> DEFINE j == [i EXCEPT !.status = "redeemed", !.by = u.id]
           d == [c EXCEPT !.users = Put(@, u), !.invites = Put(@, j), !.profiles = P]
<1>1. /\ c \in Content /\ c.users \in SUBSET Users /\ c.invites \in SUBSET Invites
  BY DEF Sound, Content
<1>2. j \in Invites /\ j.id = i.id /\ j.status = "redeemed" /\ j.by = u.id
  BY <1>1 DEF Invites, Users, Ids
<1>3. Put(c.users, u) \in SUBSET Users /\ Put(c.invites, j) \in SUBSET Invites
  BY <1>1, <1>2, PutTyped
<1>4. /\ d \in Content /\ d.users = Put(c.users, u) /\ d.invites = Put(c.invites, j)
      /\ d.codes = c.codes /\ d.tokens = c.tokens
  BY <1>1, <1>3 DEF Content
<1>5. \A x \in c.invites : x.id = i.id => x = i
  BY DEF Sound, InvitesOK
<1>6. UsersOK(d, A \cup {u.id})
  <2> SUFFICES ASSUME NEW v \in d.users, v.eligible
               PROVE  /\ v.id \in A \cup {u.id}
                      /\ \E x \in d.invites : x.status = "redeemed" /\ x.by = v.id
    BY DEF UsersOK
  <2>1. CASE v = u
    BY <1>2, <1>4, <2>1 DEF Put
  <2>2. CASE v # u
    <3>1. v \in c.users
      BY <1>4, <2>2 DEF Put
    <3>2. PICK x \in c.invites : x.status = "redeemed" /\ x.by = v.id
      BY <3>1 DEF Sound, UsersOK
    <3>3. x.id # i.id
      BY <1>5, <3>2
    <3>4. x \in d.invites
      BY <1>2, <1>4, <3>3 DEF Put
    <3> QED
      BY <3>1, <3>2, <3>4 DEF Sound, UsersOK
  <2> QED
    BY <2>1, <2>2
<1>7. InvitesOK(d, n)
  BY <1>2, <1>4 DEF Sound, InvitesOK, Put
<1>8. CodesOK(d, n, A \cup {u.id}) /\ TokensOK(d)
  BY <1>4 DEF Sound, CodesOK, TokensOK
<1> QED
  BY <1>4, <1>6, <1>7, <1>8 DEF Sound

(* A fresh open code for somebody admitted.                                *)
LEMMA SoundCode ==
  ASSUME NEW n \in Ids, NEW A, NEW c, Sound(c, n, A),
         NEW k \in Codes, k.id = n, k.user \in A
  PROVE  Sound([c EXCEPT !.codes = Put(@, k)], n + 1, A)
<1> DEFINE d == [c EXCEPT !.codes = Put(@, k)]
<1>1. c \in Content /\ c.codes \in SUBSET Codes
  BY DEF Sound, Content
<1>2. Put(c.codes, k) \in SUBSET Codes
  BY <1>1, PutTyped
<1>3. /\ d \in Content /\ d.codes = Put(c.codes, k)
      /\ d.users = c.users /\ d.invites = c.invites /\ d.tokens = c.tokens
  BY <1>1, <1>2 DEF Content
<1>4. Sound(c, n + 1, A)
  BY SoundGrows DEF Ids
<1>5. c.codes \subseteq Put(c.codes, k)
  BY <1>1 DEF Put, Sound, CodesOK, Codes, Ids
<1>6. CodesOK(d, n + 1, A)
  BY <1>1, <1>3, <1>4 DEF Sound, CodesOK, Put, Codes, Ids
<1>7. TokensOK(d)
  BY <1>3, <1>5 DEF Sound, TokensOK
<1>8. UsersOK(d, A) /\ InvitesOK(d, n + 1)
  BY <1>3, <1>4 DEF Sound, UsersOK, InvitesOK
<1> QED
  BY <1>3, <1>6, <1>7, <1>8 DEF Sound

(* An open code is behind no token.                                        *)
LEMMA OpenGrantsNothing ==
  ASSUME NEW n, NEW A, NEW c, Sound(c, n, A), NEW k \in c.codes, k.status = "open"
  PROVE  \A t \in c.tokens : t.code # k.id
  BY DEF Sound, TokensOK, CodesOK, Grants

(* An open code expires, or is redeemed.                                   *)
LEMMA SoundClosed ==
  ASSUME NEW n \in Ids, NEW A, NEW c, Sound(c, n, A), NEW k \in c.codes, k.status = "open",
         NEW s \in {"expired", "redeemed"}
  PROVE  Sound([c EXCEPT !.codes = Put(@, [k EXCEPT !.status = s])], n, A)
<1> DEFINE j == [k EXCEPT !.status = s]
           d == [c EXCEPT !.codes = Put(@, j)]
<1>1. c \in Content /\ c.codes \in SUBSET Codes
  BY DEF Sound, Content
<1>2. j \in Codes /\ j.id = k.id /\ j.user = k.user
  BY <1>1 DEF Codes
<1>3. Put(c.codes, j) \in SUBSET Codes
  BY <1>1, <1>2, PutTyped
<1>4. /\ d \in Content /\ d.codes = Put(c.codes, j)
      /\ d.users = c.users /\ d.invites = c.invites /\ d.tokens = c.tokens
  BY <1>1, <1>3 DEF Content
<1>5. CodesOK(d, n, A)
  BY <1>2, <1>4 DEF Sound, CodesOK, Put
<1>6. TokensOK(d)
  <2>1. ASSUME NEW t \in c.tokens PROVE \E x \in d.codes : Grants(x, t)
    <3>1. PICK x \in c.codes : Grants(x, t)
      BY DEF Sound, TokensOK
    <3>2. x.id # k.id
      BY <3>1, OpenGrantsNothing DEF Grants
    <3> QED
      BY <1>2, <1>4, <3>1, <3>2 DEF Put
  <2> QED
    BY <1>4, <2>1 DEF Sound, TokensOK
<1>7. UsersOK(d, A) /\ InvitesOK(d, n)
  BY <1>4 DEF Sound, UsersOK, InvitesOK
<1> QED
  BY <1>4, <1>5, <1>6, <1>7 DEF Sound

(* The exchange: the code is redeemed and its token added in one rewrite.   *)
LEMMA SoundExchanged ==
  ASSUME NEW n \in Ids, NEW A, NEW c, Sound(c, n, A), NEW k \in c.codes, k.status = "open",
         NEW t \in Tokens, t.code = k.id, t.client = k.client, t.user = k.user,
         t.profile = k.profile, t.device = k.device
  PROVE  Sound([c EXCEPT !.codes = Put(@, [k EXCEPT !.status = "redeemed"]),
                         !.tokens = Put(@, t)], n, A)
<1> DEFINE j == [k EXCEPT !.status = "redeemed"]
           b == [c EXCEPT !.codes = Put(@, j)]
           d == [c EXCEPT !.codes = Put(@, j), !.tokens = Put(@, t)]
<1>1. Sound(b, n, A)
  BY SoundClosed
<1>2. /\ c \in Content /\ c.codes \in SUBSET Codes /\ c.tokens \in SUBSET Tokens
  BY DEF Sound, Content
<1>3. j \in Codes /\ Grants(j, t)
  BY <1>2 DEF Codes, Grants
<1>4. Put(c.codes, j) \in SUBSET Codes /\ Put(c.tokens, t) \in SUBSET Tokens
  BY <1>2, <1>3, PutTyped
<1>5. /\ d \in Content /\ d.codes = Put(c.codes, j) /\ d.tokens = Put(c.tokens, t)
      /\ d.users = b.users /\ d.invites = b.invites /\ d.codes = b.codes
      /\ b.tokens = c.tokens
  BY <1>2, <1>4 DEF Content
<1>6. \A s \in c.tokens : s.code # k.id
  BY OpenGrantsNothing
<1>7. TokensOK(d)
  <2>1. ASSUME NEW s \in d.tokens PROVE \E x \in d.codes : Grants(x, s)
    <3>1. CASE s = t
      BY <1>3, <1>5, <3>1 DEF Put
    <3>2. CASE s # t
      BY <1>1, <1>5, <3>2 DEF Sound, TokensOK, Put
    <3> QED
      BY <3>1, <3>2
  <2>2. ASSUME NEW s \in d.tokens, NEW r \in d.tokens, s.code = r.code PROVE s = r
    BY <1>5, <1>6, <2>2 DEF Sound, TokensOK, Put
  <2> QED
    BY <2>1, <2>2 DEF TokensOK
<1>8. UsersOK(d, A) /\ InvitesOK(d, n) /\ CodesOK(d, n, A)
  BY <1>1, <1>5 DEF Sound, UsersOK, InvitesOK, CodesOK
<1> QED
  BY <1>5, <1>7, <1>8 DEF Sound

(* A token expires or is revoked.                                          *)
LEMMA SoundToken ==
  ASSUME NEW n \in Ids, NEW A, NEW c, Sound(c, n, A), NEW t \in c.tokens,
         NEW s \in {"expired", "revoked"}
  PROVE  Sound([c EXCEPT !.tokens = Put(@, [t EXCEPT !.status = s])], n, A)
<1> DEFINE r == [t EXCEPT !.status = s]
           d == [c EXCEPT !.tokens = Put(@, r)]
<1>1. c \in Content /\ c.tokens \in SUBSET Tokens
  BY DEF Sound, Content
<1>2. /\ r \in Tokens /\ r.id = t.id /\ r.code = t.code
      /\ \A k : Grants(k, t) => Grants(k, r)
  BY <1>1 DEF Tokens, Grants
<1>3. Put(c.tokens, r) \in SUBSET Tokens
  BY <1>1, <1>2, PutTyped
<1>4. /\ d \in Content /\ d.tokens = Put(c.tokens, r)
      /\ d.users = c.users /\ d.invites = c.invites /\ d.codes = c.codes
  BY <1>1, <1>3 DEF Content
<1>5. TokensOK(d)
  BY <1>2, <1>4 DEF Sound, TokensOK, Put
<1>6. UsersOK(d, A) /\ InvitesOK(d, n) /\ CodesOK(d, n, A)
  BY <1>4 DEF Sound, UsersOK, InvitesOK, CodesOK
<1> QED
  BY <1>4, <1>5, <1>6 DEF Sound

-----------------------------------------------------------------------------
(* Steps.                                                                  *)

(* What _load returns is sound.                                            *)
LEMMA LoadSound == AccountInv => Sound(Load, fresh, admitted) /\ Load \in Content
<1> SUFFICES ASSUME AccountInv PROVE Sound(Load, fresh, admitted)
  BY DEF Sound
<1>1. Sound(file, fresh, admitted) /\ fresh \in Nat
  BY DEF AccountInv, ContentsSound, Contents, TypeOK, Ids
<1>2. Sound(Empty, fresh, admitted)
  BY <1>1, SoundEmpty
<1> QED
  BY <1>1, <1>2 DEF Load

(* A step of p keeps the invariant when its types are right, what p holds   *)
(* is sound, and p's call is in order: the others hold what they held.      *)
LEMMA StepKeeps ==
  ASSUME AccountInv, NEW p \in Processes, TypeOK',
         \A q \in Processes : q # p => /\ pc'[q] = pc[q] /\ after'[q] = after[q]
                                       /\ held'[q] = held[q] /\ call'[q] = call[q],
         file' \in {file, held[p]}, fresh <= fresh', admitted \subseteq admitted',
         Sound(held'[p], fresh', admitted'), CallOK(p)'
  PROVE  AccountInv'
<1>1. /\ fresh \in Nat /\ fresh' \in Nat
      /\ \A c \in Contents : Sound(c, fresh, admitted)
  BY DEF AccountInv, TypeOK, ContentsSound, Ids
<1>2. \A c \in Contents : Sound(c, fresh', admitted')
  BY <1>1, SoundGrows
<1>3. Sound(file', fresh', admitted')
  BY <1>2 DEF Contents
<1>4. ASSUME NEW q \in Processes PROVE Sound(held'[q], fresh', admitted')
  BY <1>2 DEF Contents
<1>5. ContentsSound'
  BY <1>3, <1>4 DEF ContentsSound, Contents
<1>6. ASSUME NEW q \in Processes PROVE CallOK(q)'
  <2>1. CASE q = p
    BY <2>1
  <2>2. CASE q # p
    BY <2>2 DEF AccountInv, CallOK, Aim
  <2> QED
    BY <2>1, <2>2
<1> QED
  BY <1>5, <1>6 DEF AccountInv

(* The counters and histories keep their types.                            *)
Counted == /\ fresh' \in Ids /\ fresh <= fresh'
           /\ calls' \in Nat /\ crashes' \in Nat /\ raced' \in BOOLEAN
           /\ admitted \subseteq admitted' /\ admitted' \subseteq Ids
           /\ redeemed' \subseteq Ids \X Ids /\ revoked' \subseteq Ids

LEMMA Counts ==
  ASSUME AccountInv, fresh' \in {fresh, fresh + 1, fresh + 2},
         UNCHANGED bounds \/ \E p \in Processes : Begin(p),
         UNCHANGED <<redeemed, revoked>>,
         admitted \subseteq admitted', admitted' \subseteq Ids
  PROVE  Counted
<1>1. raced' \in BOOLEAN
  <2>1. CASE UNCHANGED bounds
    BY <2>1 DEF AccountInv, TypeOK, bounds
  <2>2. CASE \E p \in Processes : Begin(p)
    BY <2>2, Zenon DEF Begin
  <2> QED
    BY <2>1, <2>2
<1>2. calls' \in Nat /\ crashes' \in Nat
  BY DEF AccountInv, TypeOK, bounds, Begin
<1>3. fresh' \in Ids /\ fresh <= fresh'
  BY DEF AccountInv, TypeOK, Ids
<1> QED
  BY <1>1, <1>2, <1>3 DEF AccountInv, TypeOK, Counted

(* A save that is in order keeps the invariant.                            *)
LEMMA SaveKeeps ==
  ASSUME AccountInv, NEW p \in Processes, NEW from, NEW content,
         NEW to \in {"idle", "redeemed", "revoked", "link", "desktopDevice"},
         Save(p, from, content, to), UNCHANGED disk, Counted,
         Sound(content, fresh', admitted'),
         call' \in [Processes -> Call],
         \A q \in Processes : q # p => call'[q] = call[q],
         to \in NeedsUser => call'[p].user \in Ids,
         to \in {"redeemed", "revoked"} => call'[p].key \in Ids
  PROVE  AccountInv'
<1>1. /\ pc' = [pc EXCEPT ![p] = "truncate"] /\ after' = [after EXCEPT ![p] = to]
      /\ held' = [held EXCEPT ![p] = content] /\ content \in Content
  BY DEF Save, Goto, Sound
<1>2. TypeOK'
  BY <1>1 DEF AccountInv, TypeOK, Counted, disk, Steps
<1>3. \A q \in Processes : q # p => /\ pc'[q] = pc[q] /\ after'[q] = after[q]
                                    /\ held'[q] = held[q] /\ call'[q] = call[q]
  BY <1>1 DEF AccountInv, TypeOK
<1>4. held'[p] = content /\ pc'[p] = "truncate" /\ after'[p] = to
  BY <1>1 DEF AccountInv, TypeOK
<1>5. CallOK(p)'
  BY <1>4 DEF CallOK, Aim, NeedsUser, Issuing
<1> QED
  BY <1>2, <1>3, <1>4, <1>5, StepKeeps DEF disk, Counted

(* So does a move to another read, holding a sound content.                 *)
LEMMA MoveKeeps ==
  ASSUME AccountInv, NEW p \in Processes, NEW to \in Steps \ {"truncate", "write"},
         pc' = [pc EXCEPT ![p] = to], UNCHANGED <<disk, after>>, Counted,
         held' \in [Processes -> Content], call' \in [Processes -> Call],
         \A q \in Processes : q # p => held'[q] = held[q] /\ call'[q] = call[q],
         held'[p] = held[p] \/ Sound(held'[p], fresh', admitted'),
         CallOK(p)'
  PROVE  AccountInv'
<1>1. TypeOK'
  BY DEF AccountInv, TypeOK, Counted, disk
<1>2. \A q \in Processes : q # p => /\ pc'[q] = pc[q] /\ after'[q] = after[q]
                                    /\ held'[q] = held[q] /\ call'[q] = call[q]
  BY DEF AccountInv, TypeOK
<1>3. Sound(held'[p], fresh', admitted')
  <2>1. Sound(held[p], fresh, admitted) /\ fresh \in Nat /\ fresh' \in Nat
    BY DEF AccountInv, ContentsSound, Contents, TypeOK, Counted, Ids
  <2>2. Sound(held[p], fresh', admitted')
    BY <2>1, SoundGrows DEF Counted
  <2> QED
    BY <2>2
<1> QED
  BY <1>1, <1>2, <1>3, StepKeeps DEF disk, Counted

(* So does leaving a call.                                                 *)
LEMMA NoCallTyped == NoCall \in Call
  BY EmailsAssumption DEF NoCall, Call, Someone, None, Ids

LEMMA LeaveKeeps ==
  ASSUME AccountInv, NEW p \in Processes, Leave(p),
         after' \in {after, [after EXCEPT ![p] = "idle"]},
         UNCHANGED <<file, torn>>, mixed' \in SUBSET Processes, Counted
  PROVE  AccountInv'
<1>1. TypeOK'
  BY NoCallTyped DEF AccountInv, TypeOK, Counted, Leave, Steps, Empty, Content
<1>2. \A q \in Processes : q # p => /\ pc'[q] = pc[q] /\ after'[q] = after[q]
                                    /\ held'[q] = held[q] /\ call'[q] = call[q]
  BY DEF AccountInv, TypeOK, Leave
<1>3. held'[p] = Empty /\ pc'[p] = "idle" /\ after'[p] \in {after[p], "idle"}
  BY DEF AccountInv, TypeOK, Leave
<1>4. Sound(held'[p], fresh', admitted')
  BY <1>3, SoundEmpty DEF Counted, Ids
<1>5. CallOK(p)'
  BY <1>3 DEF AccountInv, CallOK, Aim, NeedsUser, Issuing
<1> QED
  BY <1>1, <1>2, <1>4, <1>5, StepKeeps DEF Counted

LEMMA RefuseKeeps ==
  ASSUME AccountInv, NEW p \in Processes, NEW from, Refuse(p, from)
  PROVE  AccountInv'
<1>1. Counted
  BY Counts DEF Refuse, history, AccountInv, TypeOK
<1>2. mixed' \in SUBSET Processes
  BY DEF Refuse, disk, AccountInv, TypeOK
<1> QED
  BY <1>1, <1>2, LeaveKeeps DEF Refuse, disk

(* The facts every step starts from.                                       *)
LEMMA Given ==
  ASSUME AccountInv, NEW p \in Processes
  PROVE  /\ fresh \in Ids /\ fresh + 1 \in Ids /\ fresh + 2 \in Ids
         /\ admitted \subseteq Ids
         /\ Sound(Load, fresh, admitted) /\ Load \in Content
         /\ Sound(held[p], fresh, admitted) /\ held[p] \in Content
         /\ call \in [Processes -> Call] /\ call[p] \in Call
         /\ CallOK(p)
  BY LoadSound DEF AccountInv, TypeOK, ContentsSound, Contents, Ids, Sound

(* A call that is replaced as a whole.                                     *)
LEMMA CallReplaced ==
  ASSUME AccountInv, NEW p \in Processes, NEW k \in Call, call' = [call EXCEPT ![p] = k]
  PROVE  /\ call' \in [Processes -> Call] /\ call'[p] = k
         /\ \A r \in Processes : r # p => call'[r] = call[r]
  BY DEF AccountInv, TypeOK

-----------------------------------------------------------------------------
(* One lemma per operation.                                                *)

LEMMA TruncateKeeps == ASSUME AccountInv, NEW p \in Processes, Truncate(p) PROVE AccountInv'
<1>1. Counted
  BY Counts DEF Truncate, history, AccountInv, TypeOK
<1>2. TypeOK'
  BY <1>1 DEF AccountInv, TypeOK, Truncate, Goto, Counted, Steps
<1>3. \A q \in Processes : q # p => pc'[q] = pc[q]
  BY DEF AccountInv, TypeOK, Truncate, Goto
<1>4. pc[p] = "truncate" /\ pc'[p] = "write"
  BY DEF AccountInv, TypeOK, Truncate, Goto
<1>5. CallOK(p)'
  BY <1>4, Given DEF CallOK, Aim, Truncate, history, NeedsUser, Issuing
<1>6. Sound(held'[p], fresh', admitted')
  BY Given DEF Truncate, history
<1> QED
  BY <1>1, <1>2, <1>3, <1>5, <1>6, StepKeeps DEF Truncate, Counted

LEMMA WriteKeeps == ASSUME AccountInv, NEW p \in Processes, Write(p) PROVE AccountInv'
<1>1. Counted
  BY Counts DEF Write, history, AccountInv, TypeOK
<1>2. /\ pc[p] = "write" /\ pc'[p] = after[p] /\ after'[p] = "idle" /\ held'[p] = Empty
      /\ after[p] # "idle" => call'[p] = call[p]
      /\ \A q \in Processes : q # p => /\ pc'[q] = pc[q] /\ after'[q] = after[q]
                                       /\ held'[q] = held[q] /\ call'[q] = call[q]
  BY DEF AccountInv, TypeOK, Write, Goto
<1>3. TypeOK'
  <2>1. held[p] \in Content /\ Empty \in Content /\ after[p] \in Steps
    BY DEF AccountInv, TypeOK, Empty, Content
  <2>2. pc' \in [Processes -> Steps] /\ after' \in [Processes -> Steps]
    BY <2>1 DEF AccountInv, TypeOK, Write, Goto, Steps
  <2>3. held' \in [Processes -> Content] /\ call' \in [Processes -> Call]
    BY <2>1, NoCallTyped DEF AccountInv, TypeOK, Write
  <2>4. file' \in Content /\ torn' \in BOOLEAN /\ mixed' \subseteq Processes
    BY <2>1 DEF AccountInv, TypeOK, Write
  <2> QED
    BY <1>1, <2>2, <2>3, <2>4 DEF TypeOK, Counted
<1>4. CallOK(p)'
  BY <1>2, Given DEF CallOK, Aim, NeedsUser, Issuing
<1>5. Sound(held'[p], fresh', admitted')
  BY <1>1, <1>2, SoundEmpty DEF Counted, Ids
<1>6. file' = held[p]
  BY DEF Write
<1> QED
  BY <1>1, <1>2, <1>3, <1>4, <1>5, <1>6, StepKeeps DEF Counted

LEMMA IssueInviteKeeps ==
  ASSUME AccountInv, NEW p \in Processes, IssueInvite(p) PROVE AccountInv'
<1> DEFINE content == [Load EXCEPT !.invites =
                         Put(@, [id |-> fresh, status |-> "open", by |-> None])]
<1>1. Sound(content, fresh', admitted')
  BY Given, SoundInvite DEF IssueInvite, history
<1>2. Counted
  BY Counts DEF IssueInvite, history, AccountInv, TypeOK
<1>3. Save(p, "idle", content, "idle")
  BY DEF IssueInvite
<1>4. UNCHANGED <<disk, call>>
  BY DEF IssueInvite
<1> HIDE DEF content
<1> QED
  BY <1>1, <1>2, <1>3, <1>4, Given, SaveKeeps DEF NeedsUser

(* UserOf is a user, one of the file's or one not eligible.                *)
LEMMA UserOfTyped ==
  ASSUME AccountInv, NEW e \in Emails
  PROVE  /\ UserOf(Load, e) \in Users
         /\ UserOf(Load, e) \in Load.users \/ ~ UserOf(Load, e).eligible
<1>1. Load.users \subseteq Users /\ fresh \in Ids
  BY LoadSound DEF Content, AccountInv, TypeOK
<1>2. CASE \E u \in Load.users : u.email = e
  BY <1>1, <1>2 DEF UserOf
<1>3. CASE ~ \E u \in Load.users : u.email = e
  BY <1>1, <1>3 DEF UserOf, Users
<1> QED
  BY <1>2, <1>3

LEMMA EligibleTyped ==
  ASSUME NEW u \in Users
  PROVE  [u EXCEPT !.eligible = TRUE] \in Users /\ [u EXCEPT !.eligible = TRUE].id \in Ids
BY DEF Users

LEMMA RedeemInviteKeeps ==
  ASSUME AccountInv, NEW p \in Processes, NEW e \in Emails, RedeemInvite(p, e)
  PROVE  AccountInv'
<1> DEFINE user == [UserOf(Load, e) EXCEPT !.eligible = TRUE]
           default == [id |-> fresh + 1, user |-> user.id, device |-> None]
           profiles == IF Owned(Load, user.id) = {} THEN Put(Load.profiles, default)
                       ELSE Load.profiles
<1>1. user \in Users /\ user.id \in Ids
  <2>1. UserOf(Load, e) \in Users
    BY UserOfTyped
  <2> QED
    BY <2>1, EligibleTyped
<1>2. profiles \in SUBSET Profiles
  <2>1. default \in Profiles
    BY <1>1, Given DEF Profiles, None
  <2>2. Load.profiles \in SUBSET Profiles
    BY Given DEF Content
  <2> QED
    BY <2>1, <2>2, PutTyped
<1> HIDE DEF user, profiles
<1>3. PICK i \in OpenInvites(Load) :
        /\ Save(p, "idle",
             [Load EXCEPT !.users = Put(@, user),
                          !.invites = Put(@, [i EXCEPT !.status = "redeemed", !.by = user.id]),
                          !.profiles = profiles], "redeemed")
        /\ call' = [call EXCEPT ![p].user = user.id, ![p].key = i.id]
        /\ admitted' = admitted \cup {user.id}
  BY DEF RedeemInvite, user, profiles
<1> DEFINE content == [Load EXCEPT !.users = Put(@, user),
                         !.invites = Put(@, [i EXCEPT !.status = "redeemed", !.by = user.id]),
                         !.profiles = profiles]
<1>4. i \in Load.invites /\ i.status = "open" /\ i.id \in Ids
  BY Given DEF OpenInvites, Content, Invites
<1>5. Sound(content, fresh, admitted')
  BY <1>1, <1>2, <1>3, <1>4, Given, SoundRedeemed
<1>6. Counted
  BY <1>1, <1>3, Given, Counts DEF RedeemInvite
<1>7. Sound(content, fresh', admitted')
  <2> HIDE DEF content
  <2>1. fresh \in Nat /\ fresh' \in Nat /\ fresh <= fresh'
    BY <1>6, Given DEF Counted, Ids
  <2> QED
    BY <1>5, <2>1, SoundGrows
<1>8. /\ call' \in [Processes -> Call] /\ call'[p].user \in Ids /\ call'[p].key \in Ids
      /\ \A q \in Processes : q # p => call'[q] = call[q]
  BY <1>1, <1>3, <1>4, Given DEF Call, Ids
<1>9. Save(p, "idle", content, "redeemed")
  BY <1>3
<1>10. UNCHANGED disk
  BY DEF RedeemInvite
<1> HIDE DEF content
<1> QED
  BY <1>6, <1>7, <1>8, <1>9, <1>10, SaveKeeps

LEMMA RedemptionAnsweredKeeps ==
  ASSUME AccountInv, NEW p \in Processes, RedemptionAnswered(p) PROVE AccountInv'
<1>1. call[p].key \in Ids /\ call[p].user \in Ids
  BY Given DEF RedemptionAnswered, CallOK, Aim, NeedsUser
<1>2. Counted /\ mixed' \in SUBSET Processes
  BY <1>1 DEF RedemptionAnswered, AccountInv, TypeOK, Counted, bounds, disk, Ids
<1> QED
  BY <1>2, LeaveKeeps DEF RedemptionAnswered, disk

LEMMA PairKeeps ==
  ASSUME AccountInv, NEW p \in Processes, NEW e \in Emails, Pair(p, e) PROVE AccountInv'
<1>1. Counted
  BY Counts DEF Pair, history, AccountInv, TypeOK
<1>2. PICK u \in Load.users : call' = [call EXCEPT ![p].user = u.id]
  BY DEF Pair
<1>3. u.id \in Ids
  BY Given DEF Content, Users
<1>4. /\ call' \in [Processes -> Call] /\ call'[p].user \in Ids
      /\ \A q \in Processes : q # p => call'[q] = call[q]
  BY <1>2, <1>3, Given DEF Call, Ids
<1>5. /\ pc' = [pc EXCEPT ![p] = "pairProfile"] /\ pc'[p] = "pairProfile"
      /\ UNCHANGED <<disk, after>> /\ held' = held
  BY DEF Pair, Goto, AccountInv, TypeOK
<1>6. CallOK(p)'
  BY <1>4, <1>5, Given DEF CallOK, Aim, NeedsUser, Issuing
<1> QED
  BY <1>1, <1>4, <1>5, <1>6, MoveKeeps DEF Steps, AccountInv, TypeOK

LEMMA PairProfileKeeps ==
  ASSUME AccountInv, NEW p \in Processes, PairProfile(p) PROVE AccountInv'
<1>1. CASE Refuse(p, "pairProfile")
  BY <1>1, RefuseKeeps
<1>2. CASE ~ Refuse(p, "pairProfile")
  <2>1. Counted
    BY <1>2, Counts DEF PairProfile, history, AccountInv, TypeOK
  <2>2. PICK q \in Owned(Load, call[p].user) : call' = [call EXCEPT ![p].profile = q.id]
    BY <1>2 DEF PairProfile
  <2>3. q.id \in Ids
    BY Given DEF Content, Profiles, Owned
  <2>4. /\ call' \in [Processes -> Call] /\ call'[p].user = call[p].user
        /\ \A r \in Processes : r # p => call'[r] = call[r]
    BY <2>2, <2>3, Given DEF Call, Ids
  <2>5. /\ pc[p] = "pairProfile" /\ pc' = [pc EXCEPT ![p] = "pairUser"]
        /\ pc'[p] = "pairUser" /\ UNCHANGED <<disk, after>> /\ held' = held
    BY <1>2 DEF PairProfile, Goto, AccountInv, TypeOK
  <2>6. CallOK(p)'
    BY <2>4, <2>5, Given DEF CallOK, Aim, NeedsUser, Issuing
  <2> QED
    BY <2>1, <2>4, <2>5, <2>6, MoveKeeps DEF Steps, AccountInv, TypeOK
<1> QED
  BY <1>1, <1>2

LEMMA PairUserKeeps ==
  ASSUME AccountInv, NEW p \in Processes, PairUser(p) PROVE AccountInv'
<1>1. CASE Refuse(p, "pairUser")
  BY <1>1, RefuseKeeps
<1>2. CASE ~ Refuse(p, "pairUser")
  <2>1. Counted
    BY <1>2, Counts DEF PairUser, history, AccountInv, TypeOK
  <2>2. /\ pc[p] = "pairUser" /\ pc' = [pc EXCEPT ![p] = "pairDevice"]
        /\ pc'[p] = "pairDevice" /\ UNCHANGED <<disk, after>> /\ held' = held /\ call' = call
    BY <1>2 DEF PairUser, Goto, AccountInv, TypeOK
  <2>3. CallOK(p)'
    BY <2>2, Given DEF CallOK, Aim, NeedsUser, Issuing
  <2> QED
    BY <2>1, <2>2, <2>3, MoveKeeps DEF Steps, AccountInv, TypeOK
<1> QED
  BY <1>1, <1>2

LEMMA RegisterDeviceKeeps ==
  ASSUME AccountInv, NEW p \in Processes, NEW from \in {"pairDevice", "desktopDevice"},
         RegisterDevice(p, from)
  PROVE  AccountInv'
<1> DEFINE device == [id |-> fresh, user |-> call[p].user]
           content == [Load EXCEPT !.devices = Put(@, device)]
<1>1. call[p].user \in Ids
  BY Given DEF RegisterDevice, Save, Goto, CallOK, Aim, NeedsUser
<1>2. device \in Devices
  BY <1>1, Given DEF Devices
<1>3. Put(Load.devices, device) \in SUBSET Devices
  <2> HIDE DEF device
  <2> QED
    BY <1>2, Given, PutTyped DEF Content
<1>4. /\ content \in Content /\ content.users = Load.users
      /\ content.invites = Load.invites /\ content.codes = Load.codes
      /\ content.tokens = Load.tokens
  BY <1>3, Given DEF Content
<1>5. Counted
  BY Counts DEF RegisterDevice, history, AccountInv, TypeOK
<1>6. Save(p, from, content, "link") /\ UNCHANGED disk
  BY DEF RegisterDevice
<1> HIDE DEF content
<1>7. Sound(content, fresh', admitted')
  <2>1. Sound(content, fresh, admitted) /\ fresh \in Nat /\ fresh' \in Nat /\ fresh <= fresh'
    BY <1>4, <1>5, Given, SoundElsewhere DEF Counted, Ids
  <2> QED
    BY <2>1, <1>5, SoundGrows DEF Counted
<1>8. /\ call' \in [Processes -> Call]
      /\ \A q \in Processes : q # p => call'[q] = call[q]
  BY Given DEF RegisterDevice, Call, Ids
<1> QED
  BY <1>5, <1>6, <1>7, <1>8, SaveKeeps DEF NeedsUser

LEMMA LinkDeviceKeeps ==
  ASSUME AccountInv, NEW p \in Processes, LinkDevice(p) PROVE AccountInv'
<1>1. CASE Refuse(p, "link")
  BY <1>1, RefuseKeeps
<1>2. CASE ~ Refuse(p, "link")
  <2>1. PICK l \in OwnedLink(p), q \in Load.profiles :
          /\ q.id = l.profile
          /\ Save(p, "link",
               [Load EXCEPT !.links = @ \cup {l},
                            !.profiles = Put(@, [q EXCEPT !.device = l.device])], "idle")
          /\ UNCHANGED <<disk, call, fresh, bounds, history>>
    BY <1>2 DEF LinkDevice
  <2> DEFINE owner == [q EXCEPT !.device = l.device]
             content == [Load EXCEPT !.links = @ \cup {l}, !.profiles = Put(@, owner)]
  <2>2. l \in Links
    BY <2>1, Given DEF OwnedLink, Content, Devices, Profiles, Owned, Links
  <2>3. owner \in Profiles
    BY <2>2, Given DEF Links, Content, Profiles, Ids
  <2>4. Put(Load.profiles, owner) \in SUBSET Profiles
    <3> HIDE DEF owner
    <3> QED
      BY <2>3, Given, PutTyped DEF Content
  <2>5. /\ content \in Content /\ content.users = Load.users
        /\ content.invites = Load.invites /\ content.codes = Load.codes
        /\ content.tokens = Load.tokens
    BY <2>2, <2>4, Given DEF Content
  <2>6. Counted
    BY <2>1, Counts DEF history, AccountInv, TypeOK
  <2>7. Save(p, "link", content, "idle")
    BY <2>1
  <2> HIDE DEF content
  <2>8. Sound(content, fresh', admitted')
    BY <2>1, <2>5, Given, SoundElsewhere DEF history, Ids
  <2> QED
    BY <2>1, <2>6, <2>7, <2>8, Given, SaveKeeps DEF NeedsUser
<1> QED
  BY <1>1, <1>2

LEMMA SetRemoteHostBashKeeps ==
  ASSUME AccountInv, NEW p \in Processes, SetRemoteHostBash(p) PROVE AccountInv'
<1>1. Counted
  BY Counts DEF SetRemoteHostBash, history, AccountInv, TypeOK
<1>2. Sound(Load, fresh', admitted')
  BY Given DEF SetRemoteHostBash, history
<1> QED
  BY <1>1, <1>2, Given, SaveKeeps DEF SetRemoteHostBash, NeedsUser

LEMMA RegisterClientKeeps ==
  ASSUME AccountInv, NEW p \in Processes, RegisterClient(p) PROVE AccountInv'
<1> DEFINE content == [Load EXCEPT !.clients = @ \cup {fresh}]
<1>1. Counted
  BY Counts DEF RegisterClient, history, AccountInv, TypeOK
<1>2. /\ content \in Content /\ content.users = Load.users
      /\ content.invites = Load.invites /\ content.codes = Load.codes
      /\ content.tokens = Load.tokens
  BY Given DEF Content
<1>3. Save(p, "idle", content, "idle") /\ UNCHANGED <<disk, call>>
  BY DEF RegisterClient
<1> HIDE DEF content
<1>4. Sound(content, fresh', admitted')
  <2>1. Sound(content, fresh, admitted) /\ fresh \in Nat /\ fresh' \in Nat /\ fresh <= fresh'
    BY <1>1, <1>2, Given, SoundElsewhere DEF Counted, Ids
  <2> QED
    BY <2>1, <1>1, SoundGrows DEF Counted
<1> QED
  BY <1>1, <1>3, <1>4, Given, SaveKeeps DEF NeedsUser

LEMMA RegisterDesktopKeeps ==
  ASSUME AccountInv, NEW p \in Processes, NEW e \in Emails, RegisterDesktop(p, e)
  PROVE  AccountInv'
<1> DEFINE user == UserOf(Load, e)
           known == [Load EXCEPT !.users = Put(@, user)]
           named(q) == IF \E x \in known.profiles : x.id = q THEN known
                       ELSE [known EXCEPT !.profiles =
                               Put(@, [id |-> q, user |-> user.id, device |-> None])]
           arrived(q) == call' = [call EXCEPT ![p].user = user.id, ![p].profile = q]
<1>1. user \in Users /\ user.id \in Ids /\ (user \in Load.users \/ ~ user.eligible)
  BY UserOfTyped DEF Users
<1>2. Counted
  BY Counts DEF RegisterDesktop, history, AccountInv, TypeOK
<1>3. \/ \E q \in ProfileNames : Save(p, "idle", named(q), "desktopDevice") /\ arrived(q)
      \/ /\ Goto(p, "idle", "desktopProfile") /\ held' = [held EXCEPT ![p] = known]
         /\ arrived(None) /\ UNCHANGED after
  BY DEF RegisterDesktop
<1>4. UNCHANGED disk
  BY DEF RegisterDesktop
<1> HIDE DEF user
<1>5. Sound(known, fresh, admitted) /\ known \in Content
  BY <1>1, Given, SoundUser DEF Sound
<1>6. Sound(known, fresh', admitted')
  <2> HIDE DEF known
  <2>1. fresh \in Nat /\ fresh' \in Nat /\ fresh <= fresh'
    BY <1>2, Given DEF Counted, Ids
  <2> QED
    BY <1>2, <1>5, <2>1, SoundGrows DEF Counted
<1> HIDE DEF known
<1>7. ASSUME NEW q \in Nat, arrived(q)
      PROVE  /\ call' \in [Processes -> Call] /\ call'[p].user \in Ids
             /\ \A r \in Processes : r # p => call'[r] = call[r]
  BY <1>1, <1>7, Given DEF Call, Ids
<1>8. ASSUME NEW q \in ProfileNames, Save(p, "idle", named(q), "desktopDevice"), arrived(q)
      PROVE  AccountInv'
  <2>1. q \in Ids
    BY ProfileNamesAssumption DEF Ids, FirstFresh
  <2>2. [id |-> q, user |-> user.id, device |-> None] \in Profiles
    BY <1>1, <2>1 DEF Profiles, None
  <2>3. Put(known.profiles, [id |-> q, user |-> user.id, device |-> None]) \in SUBSET Profiles
    BY <1>5, <2>2, PutTyped DEF Content
  <2>4. /\ named(q) \in Content /\ named(q).users = known.users
        /\ named(q).invites = known.invites /\ named(q).codes = known.codes
        /\ named(q).tokens = known.tokens
    BY <1>5, <2>3 DEF Content
  <2> HIDE DEF named
  <2>5. Sound(named(q), fresh', admitted')
    BY <1>2, <1>6, <2>4, SoundElsewhere DEF Counted, Ids
  <2>6. /\ call' \in [Processes -> Call] /\ call'[p].user \in Ids
        /\ \A r \in Processes : r # p => call'[r] = call[r]
    BY <1>7, <1>8, <2>1 DEF Ids
  <2> QED
    BY <1>2, <1>4, <1>8, <2>5, <2>6, SaveKeeps
<1>9. ASSUME Goto(p, "idle", "desktopProfile"), held' = [held EXCEPT ![p] = known],
             arrived(None), UNCHANGED after
      PROVE  AccountInv'
  <2>1. /\ call' \in [Processes -> Call] /\ call'[p].user \in Ids
        /\ \A r \in Processes : r # p => call'[r] = call[r]
    BY <1>7, <1>9 DEF None
  <2>2. /\ pc' = [pc EXCEPT ![p] = "desktopProfile"] /\ pc'[p] = "desktopProfile"
        /\ held' \in [Processes -> Content] /\ held'[p] = known
        /\ \A r \in Processes : r # p => held'[r] = held[r]
    BY <1>5, <1>9 DEF Goto, AccountInv, TypeOK
  <2>3. CallOK(p)'
    BY <1>9, <2>1, <2>2, Given DEF CallOK, Aim, NeedsUser, Issuing
  <2> QED
    BY <1>2, <1>4, <1>6, <1>9, <2>1, <2>2, <2>3, MoveKeeps DEF Steps
<1> QED
  BY <1>3, <1>8, <1>9

LEMMA DesktopProfileKeeps ==
  ASSUME AccountInv, NEW p \in Processes, DesktopProfile(p) PROVE AccountInv'
<1>1. PICK q \in IF Owned(Load, call[p].user) # {} THEN Owned(Load, call[p].user)
                 ELSE {[id |-> fresh, user |-> call[p].user, device |-> None]} :
        /\ Save(p, "desktopProfile", [held[p] EXCEPT !.profiles = Put(@, q)], "desktopDevice")
        /\ call' = [call EXCEPT ![p].profile = q.id]
  BY DEF DesktopProfile
<1>2. call[p].user \in Ids
  BY <1>1, Given DEF Save, Goto, CallOK, Aim, NeedsUser
<1>3. q \in Profiles
  <2>1. Owned(Load, call[p].user) \subseteq Profiles
    BY Given DEF Owned, Content
  <2>2. [id |-> fresh, user |-> call[p].user, device |-> None] \in Profiles
    BY <1>2, Given DEF Profiles, None
  <2> QED
    BY <1>1, <2>1, <2>2
<1> DEFINE content == [held[p] EXCEPT !.profiles = Put(@, q)]
<1>4. Put(held[p].profiles, q) \in SUBSET Profiles
  BY <1>3, Given, PutTyped DEF Content
<1>5. /\ content \in Content /\ content.users = held[p].users
      /\ content.invites = held[p].invites /\ content.codes = held[p].codes
      /\ content.tokens = held[p].tokens
  BY <1>4, Given DEF Content
<1>6. Counted
  BY Counts DEF DesktopProfile, history, AccountInv, TypeOK
<1>7. Save(p, "desktopProfile", content, "desktopDevice") /\ UNCHANGED disk
  BY <1>1 DEF DesktopProfile
<1> HIDE DEF content
<1>8. Sound(content, fresh', admitted')
  <2>1. Sound(content, fresh, admitted) /\ fresh \in Nat /\ fresh' \in Nat /\ fresh <= fresh'
    BY <1>5, <1>6, Given, SoundElsewhere DEF Counted, Ids
  <2> QED
    BY <2>1, <1>6, SoundGrows DEF Counted
<1>9. /\ call' \in [Processes -> Call] /\ call'[p].user \in Ids
      /\ \A r \in Processes : r # p => call'[r] = call[r]
  BY <1>1, <1>2, <1>3, Given DEF Call, Profiles, Ids
<1> QED
  BY <1>6, <1>7, <1>8, <1>9, SaveKeeps

LEMMA VerifyKeeps == ASSUME AccountInv, NEW p \in Processes, Verify(p) PROVE AccountInv'
<1>1. CASE Refuse(p, "verify")
  BY <1>1, RefuseKeeps
<1>2. CASE ~ Refuse(p, "verify")
  <2>1. Counted
    BY <1>2, Counts DEF Verify, history, AccountInv, TypeOK
  <2>2. PICK q \in Load.profiles :
          call' = [call EXCEPT ![p].owned =
                     {d.id : d \in {x \in Load.devices : x.user = q.user}}]
    BY <1>2 DEF Verify
  <2>3. {d.id : d \in {x \in Load.devices : x.user = q.user}} \in SUBSET Ids
    BY Given DEF Content, Devices
  <2>4. /\ call' \in [Processes -> Call]
        /\ call'[p].user = call[p].user /\ call'[p].profile = call[p].profile
        /\ call'[p].client = call[p].client /\ call'[p].key = call[p].key
        /\ call'[p].next = call[p].next
        /\ \A r \in Processes : r # p => call'[r] = call[r]
    BY <2>2, <2>3, Given DEF Call
  <2>5. /\ pc[p] = "verify" /\ pc' = [pc EXCEPT ![p] = "verifyLinks"]
        /\ pc'[p] = "verifyLinks" /\ UNCHANGED <<disk, after>> /\ held' = held
        /\ admitted' = admitted
    BY <1>2 DEF Verify, Goto, AccountInv, TypeOK, history
  <2>6. CallOK(p)'
    BY <2>4, <2>5, Given DEF CallOK, Aim, NeedsUser, Issuing
  <2> QED
    BY <2>1, <2>4, <2>5, <2>6, MoveKeeps DEF Steps, AccountInv, TypeOK
<1> QED
  BY <1>1, <1>2

LEMMA VerifyLinksKeeps ==
  ASSUME AccountInv, NEW p \in Processes, VerifyLinks(p) PROVE AccountInv'
<1>1. CASE Refuse(p, "verifyLinks")
  BY <1>1, RefuseKeeps
<1>2. CASE ~ Refuse(p, "verifyLinks")
  <2>1. Counted
    BY <1>2, Counts DEF VerifyLinks, history, AccountInv, TypeOK
  <2>2. PICK l \in Authorising(p) :
          call' = [call EXCEPT ![p].device = l.device, ![p].owned = {}, ![p].next = "none"]
    BY <1>2 DEF VerifyLinks
  <2>3. l.device \in Ids
    BY Given DEF Authorising, Content, Links
  <2>4. /\ call' \in [Processes -> Call] /\ call'[p].device \in Ids
        /\ call'[p].user = call[p].user /\ call'[p].profile = call[p].profile
        /\ call'[p].client = call[p].client /\ call'[p].key = call[p].key
        /\ \A r \in Processes : r # p => call'[r] = call[r]
    BY <2>2, <2>3, Given DEF Call, Ids
  <2>5. /\ pc[p] = "verifyLinks" /\ pc' = [pc EXCEPT ![p] = call[p].next]
        /\ pc'[p] = call[p].next /\ UNCHANGED <<disk, after>> /\ held' = held
        /\ admitted' = admitted
    BY <1>2 DEF VerifyLinks, Goto, AccountInv, TypeOK, history
  <2>6. call[p].next \in {"issue", "exchange", "authorized"}
    BY <2>5, Given DEF CallOK, Aim, Call
  <2>7. CallOK(p)'
    BY <2>4, <2>5, <2>6, Given DEF CallOK, Aim, NeedsUser, Issuing
  <2> QED
    BY <2>1, <2>4, <2>5, <2>6, <2>7, MoveKeeps DEF Steps, AccountInv, TypeOK
<1> QED
  BY <1>1, <1>2

LEMMA IssueCodeKeeps ==
  ASSUME AccountInv, NEW p \in Processes, NEW e \in Emails, IssueCode(p, e)
  PROVE  AccountInv'
<1>1. Counted
  BY Counts DEF IssueCode, history, AccountInv, TypeOK
<1>2. PICK c \in Load.clients,
           q \in {None} \cup {x.id : x \in Load.profiles},
           d \in {None} \cup {x.id : x \in Load.devices} :
        call' = [call EXCEPT ![p] = [@ EXCEPT !.email = e, !.client = c, !.profile = q,
                                              !.device = d, !.next = "issue"]]
  BY DEF IssueCode
<1>3. c \in Ids /\ q \in Nat /\ d \in Nat
  BY Given DEF Content, Profiles, Devices, Ids, None
<1>4. /\ call' \in [Processes -> Call] /\ call'[p].client \in Ids /\ call'[p].next = "issue"
      /\ \A r \in Processes : r # p => call'[r] = call[r]
  <2> DEFINE issuing == [call[p] EXCEPT !.email = e, !.client = c, !.profile = q,
                                        !.device = d, !.next = "issue"]
  <2>1. issuing \in Call /\ issuing.client = c /\ issuing.next = "issue"
    BY <1>3, Given DEF Call, Ids
  <2>2. call' = [call EXCEPT ![p] = issuing]
    BY <1>2
  <2> HIDE DEF issuing
  <2> QED
    BY <1>3, <2>1, <2>2, CallReplaced
<1>5. /\ pc' = [pc EXCEPT ![p] = "issueUser"] /\ pc'[p] = "issueUser"
      /\ UNCHANGED <<disk, after>> /\ held' \in [Processes -> Content] /\ held'[p] = Load
      /\ \A r \in Processes : r # p => held'[r] = held[r]
  BY Given DEF IssueCode, Goto, AccountInv, TypeOK
<1>6. Sound(held'[p], fresh', admitted')
  BY <1>5, Given DEF IssueCode, history
<1>7. CallOK(p)'
  BY <1>4, <1>5, Given DEF CallOK, Aim, NeedsUser, Issuing
<1> QED
  BY <1>1, <1>4, <1>5, <1>6, <1>7, MoveKeeps DEF Steps

LEMMA IssueUserKeeps == ASSUME AccountInv, NEW p \in Processes, IssueUser(p) PROVE AccountInv'
<1>1. CASE Refuse(p, "issueUser")
  BY <1>1, RefuseKeeps
<1>2. CASE ~ Refuse(p, "issueUser")
  <2>1. Counted
    BY <1>2, Counts DEF IssueUser, history, AccountInv, TypeOK
  <2>2. PICK u \in Grantees(p) : call' = [call EXCEPT ![p].user = u.id]
    BY <1>2 DEF IssueUser
  <2>3. u.id \in admitted /\ u.id \in Nat
    BY Given DEF Grantees, Sound, UsersOK, Content, Users, Ids
  <2>4. /\ call' \in [Processes -> Call] /\ call'[p].user \in admitted
        /\ call'[p].client = call[p].client /\ call'[p].next = call[p].next
        /\ \A r \in Processes : r # p => call'[r] = call[r]
    BY <2>2, <2>3, Given DEF Call
  <2>5. /\ pc[p] = "issueUser" /\ pc' = [pc EXCEPT ![p] = "issueProfile"]
        /\ pc'[p] = "issueProfile" /\ UNCHANGED <<disk, after>> /\ held' = held
        /\ admitted' = admitted
    BY <1>2 DEF IssueUser, Goto, AccountInv, TypeOK, history
  <2>6. CallOK(p)'
    BY <2>4, <2>5, Given DEF CallOK, Aim, NeedsUser, Issuing
  <2> QED
    BY <2>1, <2>4, <2>5, <2>6, MoveKeeps DEF Steps, AccountInv, TypeOK
<1> QED
  BY <1>1, <1>2

LEMMA IssueProfileKeeps ==
  ASSUME AccountInv, NEW p \in Processes, IssueProfile(p) PROVE AccountInv'
<1>1. CASE Refuse(p, "issueProfile")
  BY <1>1, RefuseKeeps
<1>2. CASE ~ Refuse(p, "issueProfile")
  <2>1. Counted
    BY <1>2, Counts DEF IssueProfile, history, AccountInv, TypeOK
  <2>2. PICK q \in OwnProfiles(p) :
          call' = [call EXCEPT ![p].profile = q.id,
                               ![p].device = IF @ = None THEN q.device ELSE @]
    BY <1>2 DEF IssueProfile
  <2>3. q.id \in Ids /\ q.device \in Nat
    BY Given DEF OwnProfiles, Owned, Content, Profiles
  <2>4. /\ call' \in [Processes -> Call] /\ call'[p].profile \in Ids
        /\ call'[p].user = call[p].user
        /\ call'[p].client = call[p].client /\ call'[p].next = call[p].next
        /\ \A r \in Processes : r # p => call'[r] = call[r]
    BY <2>2, <2>3, Given DEF Call, Ids
  <2>5. /\ pc[p] = "issueProfile" /\ pc' = [pc EXCEPT ![p] = "verify"]
        /\ pc'[p] = "verify" /\ UNCHANGED <<disk, after>> /\ held' = held
        /\ admitted' = admitted
    BY <1>2 DEF IssueProfile, Goto, AccountInv, TypeOK, history
  <2>6. CallOK(p)'
    BY <2>4, <2>5, Given DEF CallOK, Aim, NeedsUser, Issuing
  <2> QED
    BY <2>1, <2>4, <2>5, <2>6, MoveKeeps DEF Steps, AccountInv, TypeOK
<1> QED
  BY <1>1, <1>2

LEMMA IssueSaveKeeps == ASSUME AccountInv, NEW p \in Processes, IssueSave(p) PROVE AccountInv'
<1> DEFINE code == [id |-> fresh, client |-> call[p].client, user |-> call[p].user,
                    profile |-> call[p].profile, device |-> call[p].device,
                    status |-> "open"]
           content == [held[p] EXCEPT !.codes = Put(@, code)]
<1>1. /\ call[p].client \in Ids /\ call[p].user \in admitted
      /\ call[p].profile \in Ids /\ call[p].device \in Ids
  BY Given DEF IssueSave, Save, Goto, CallOK, Aim, Issuing
<1>2. code \in Codes /\ code.id = fresh /\ code.user \in admitted
  BY <1>1, Given DEF Codes
<1>3. Counted
  BY Counts DEF IssueSave, history, AccountInv, TypeOK
<1>4. /\ Save(p, "issue", content, "idle") /\ UNCHANGED <<disk, call>>
      /\ fresh' = fresh + 1 /\ admitted' = admitted
  BY DEF IssueSave, history
<1> HIDE DEF code
<1>5. Sound(content, fresh', admitted')
  BY <1>2, <1>4, Given, SoundCode
<1> HIDE DEF content
<1> QED
  BY <1>3, <1>4, <1>5, Given, SaveKeeps DEF NeedsUser

LEMMA ExchangeCodeKeeps ==
  ASSUME AccountInv, NEW p \in Processes, ExchangeCode(p) PROVE AccountInv'
<1>1. Counted /\ UNCHANGED disk /\ fresh' = fresh /\ admitted' = admitted
  BY Counts DEF ExchangeCode, history, AccountInv, TypeOK
<1>2. PICK k \in OpenCodes(Load) :
        \/ /\ Save(p, "idle", [Load EXCEPT !.codes =
                                 Put(@, [k EXCEPT !.status = "expired"])], "idle")
           /\ UNCHANGED call
        \/ /\ Goto(p, "idle", "verify")
           /\ held' = [held EXCEPT ![p] = Load]
           /\ call' = [call EXCEPT ![p] =
                [@ EXCEPT !.key = k.id, !.profile = k.profile, !.device = k.device,
                          !.next = "exchange"]]
           /\ UNCHANGED after
  BY DEF ExchangeCode
<1>3. k \in Load.codes /\ k.status = "open" /\ k \in Codes
  BY Given DEF OpenCodes, Content
<1>4. CASE /\ Save(p, "idle", [Load EXCEPT !.codes =
                                 Put(@, [k EXCEPT !.status = "expired"])], "idle")
           /\ UNCHANGED call
  <2> DEFINE content == [Load EXCEPT !.codes = Put(@, [k EXCEPT !.status = "expired"])]
  <2>1. Sound(content, fresh', admitted')
    BY <1>1, <1>3, Given, SoundClosed
  <2>2. Save(p, "idle", content, "idle")
    BY <1>4
  <2> HIDE DEF content
  <2> QED
    BY <1>1, <1>4, <2>1, <2>2, Given, SaveKeeps DEF NeedsUser
<1>5. CASE /\ Goto(p, "idle", "verify")
           /\ held' = [held EXCEPT ![p] = Load]
           /\ call' = [call EXCEPT ![p] =
                [@ EXCEPT !.key = k.id, !.profile = k.profile, !.device = k.device,
                          !.next = "exchange"]]
           /\ UNCHANGED after
  <2>1. /\ call' \in [Processes -> Call] /\ call'[p].key = k.id
        /\ call'[p].next = "exchange"
        /\ \A r \in Processes : r # p => call'[r] = call[r]
    <3> DEFINE exchanging == [call[p] EXCEPT !.key = k.id, !.profile = k.profile,
                                             !.device = k.device, !.next = "exchange"]
    <3>1. /\ exchanging \in Call
          /\ exchanging.key = k.id /\ exchanging.next = "exchange"
      BY <1>3, Given DEF Call, Codes, Ids
    <3>2. call' = [call EXCEPT ![p] = exchanging]
      BY <1>5
    <3> HIDE DEF exchanging
    <3> QED
      BY <3>1, <3>2, CallReplaced
  <2>2. /\ pc' = [pc EXCEPT ![p] = "verify"] /\ pc'[p] = "verify"
        /\ held' \in [Processes -> Content] /\ held'[p] = Load
        /\ \A r \in Processes : r # p => held'[r] = held[r]
    BY <1>5, Given DEF Goto, AccountInv, TypeOK
  <2>3. CallOK(p)'
    BY <1>3, <1>5, <2>1, <2>2, Given DEF CallOK, Aim, NeedsUser, Issuing
  <2> QED
    BY <1>1, <1>5, <2>1, <2>2, <2>3, Given, MoveKeeps DEF Steps
<1> QED
  BY <1>2, <1>4, <1>5

LEMMA ExchangeSaveKeeps ==
  ASSUME AccountInv, NEW p \in Processes, ExchangeSave(p) PROVE AccountInv'
<1>1. PICK k \in held[p].codes :
        /\ k.id = call[p].key
        /\ LET token == [id |-> fresh, client |-> k.client, user |-> k.user,
                         profile |-> k.profile, device |-> k.device,
                         status |-> "active", code |-> k.id]
           IN Save(p, "exchange",
                [held[p] EXCEPT !.codes = Put(@, [k EXCEPT !.status = "redeemed"]),
                                !.tokens = Put(@, token)], "idle")
  BY DEF ExchangeSave
<1>2. k.status = "open"
  <2>1. PICK j \in held[p].codes : j.id = call[p].key /\ j.status = "open"
    BY <1>1, Given DEF Save, Goto, CallOK, Aim
  <2> QED
    BY <1>1, <2>1, Given DEF Sound, CodesOK
<1> DEFINE token == [id |-> fresh, client |-> k.client, user |-> k.user,
                     profile |-> k.profile, device |-> k.device,
                     status |-> "active", code |-> k.id]
           content == [held[p] EXCEPT !.codes = Put(@, [k EXCEPT !.status = "redeemed"]),
                                      !.tokens = Put(@, token)]
<1>3. /\ token \in Tokens /\ token.code = k.id /\ token.client = k.client
      /\ token.user = k.user /\ token.profile = k.profile /\ token.device = k.device
  BY Given DEF Content, Codes, Tokens
<1>4. Counted /\ fresh' = fresh + 1 /\ admitted' = admitted
  BY Counts DEF ExchangeSave, history, AccountInv, TypeOK
<1>5. Save(p, "exchange", content, "idle") /\ UNCHANGED <<disk, call>>
  BY <1>1 DEF ExchangeSave
<1> HIDE DEF token
<1>6. Sound(content, fresh, admitted)
  BY <1>2, <1>3, Given, SoundExchanged
<1> HIDE DEF content
<1>7. Sound(content, fresh', admitted')
  <2>1. fresh \in Nat /\ fresh' \in Nat /\ fresh <= fresh'
    BY <1>4, Given DEF Ids
  <2> QED
    BY <1>4, <1>6, <2>1, SoundGrows
<1> QED
  BY <1>4, <1>5, <1>7, Given, SaveKeeps DEF NeedsUser

LEMMA ResolveTokenKeeps ==
  ASSUME AccountInv, NEW p \in Processes, ResolveToken(p) PROVE AccountInv'
<1>1. Counted /\ UNCHANGED disk /\ fresh' = fresh /\ admitted' = admitted
  BY Counts DEF ResolveToken, history, AccountInv, TypeOK
<1>2. PICK t \in ActiveTokens(Load) :
        \/ /\ Save(p, "idle", [Load EXCEPT !.tokens =
                                 Put(@, [t EXCEPT !.status = "expired"])], "idle")
           /\ UNCHANGED call
        \/ /\ Goto(p, "idle", "verify")
           /\ call' = [call EXCEPT ![p] =
                [@ EXCEPT !.key = t.id, !.profile = t.profile, !.device = t.device,
                          !.next = "authorized"]]
           /\ UNCHANGED <<after, held>>
  BY DEF ResolveToken
<1>3. t \in Load.tokens /\ t \in Tokens
  BY Given DEF ActiveTokens, Content
<1>4. CASE /\ Save(p, "idle", [Load EXCEPT !.tokens =
                                 Put(@, [t EXCEPT !.status = "expired"])], "idle")
           /\ UNCHANGED call
  <2> DEFINE content == [Load EXCEPT !.tokens = Put(@, [t EXCEPT !.status = "expired"])]
  <2>1. Sound(content, fresh', admitted')
    BY <1>1, <1>3, Given, SoundToken
  <2>2. Save(p, "idle", content, "idle")
    BY <1>4
  <2> HIDE DEF content
  <2> QED
    BY <1>1, <1>4, <2>1, <2>2, Given, SaveKeeps DEF NeedsUser
<1>5. CASE /\ Goto(p, "idle", "verify")
           /\ call' = [call EXCEPT ![p] =
                [@ EXCEPT !.key = t.id, !.profile = t.profile, !.device = t.device,
                          !.next = "authorized"]]
           /\ UNCHANGED <<after, held>>
  <2>1. /\ call' \in [Processes -> Call] /\ call'[p].next = "authorized"
        /\ \A r \in Processes : r # p => call'[r] = call[r]
    <3> DEFINE resolving == [call[p] EXCEPT !.key = t.id, !.profile = t.profile,
                                            !.device = t.device, !.next = "authorized"]
    <3>1. resolving \in Call /\ resolving.next = "authorized"
      BY <1>3, Given DEF Call, Tokens, Ids
    <3>2. call' = [call EXCEPT ![p] = resolving]
      BY <1>5
    <3> HIDE DEF resolving
    <3> QED
      BY <3>1, <3>2, CallReplaced
  <2>2. pc' = [pc EXCEPT ![p] = "verify"] /\ pc'[p] = "verify"
    BY <1>5 DEF Goto, AccountInv, TypeOK
  <2>3. CallOK(p)'
    BY <1>5, <2>1, <2>2, Given DEF CallOK, Aim, NeedsUser, Issuing
  <2> QED
    BY <1>1, <1>5, <2>1, <2>2, <2>3, MoveKeeps DEF Steps, AccountInv, TypeOK
<1> QED
  BY <1>2, <1>4, <1>5

LEMMA TokenAuthorisedKeeps ==
  ASSUME AccountInv, NEW p \in Processes, TokenAuthorised(p) PROVE AccountInv'
<1>1. Counted
  BY Counts DEF TokenAuthorised, history, AccountInv, TypeOK
<1>2. mixed' \in SUBSET Processes
  BY DEF TokenAuthorised, disk, AccountInv, TypeOK
<1> QED
  BY <1>1, <1>2, LeaveKeeps DEF TokenAuthorised, disk

LEMMA RevokeTokenKeeps ==
  ASSUME AccountInv, NEW p \in Processes, RevokeToken(p) PROVE AccountInv'
<1>1. Counted /\ UNCHANGED disk /\ fresh' = fresh /\ admitted' = admitted
  BY Counts DEF RevokeToken, history, AccountInv, TypeOK
<1>2. PICK t \in Load.tokens :
        /\ Save(p, "idle", [Load EXCEPT !.tokens =
                             Put(@, [t EXCEPT !.status = "revoked"])], "revoked")
        /\ call' = [call EXCEPT ![p].key = t.id]
  BY DEF RevokeToken
<1> DEFINE content == [Load EXCEPT !.tokens = Put(@, [t EXCEPT !.status = "revoked"])]
<1>3. t.id \in Ids
  BY Given DEF Content, Tokens
<1>4. Sound(content, fresh', admitted')
  BY <1>1, Given, SoundToken
<1>5. Save(p, "idle", content, "revoked")
  BY <1>2
<1>6. /\ call' \in [Processes -> Call] /\ call'[p].key \in Ids
      /\ \A r \in Processes : r # p => call'[r] = call[r]
  BY <1>2, <1>3, Given DEF Call, Ids
<1> HIDE DEF content
<1> QED
  BY <1>1, <1>4, <1>5, <1>6, SaveKeeps DEF NeedsUser

LEMMA RevocationAnsweredKeeps ==
  ASSUME AccountInv, NEW p \in Processes, RevocationAnswered(p) PROVE AccountInv'
<1>1. call[p].key \in Ids
  BY Given DEF RevocationAnswered, CallOK, Aim
<1>2. revoked' \subseteq Ids /\ redeemed' \subseteq Ids \X Ids
  BY <1>1 DEF RevocationAnswered, AccountInv, TypeOK
<1>3. /\ fresh' \in Ids /\ fresh <= fresh' /\ calls' \in Nat /\ crashes' \in Nat
      /\ admitted \subseteq admitted' /\ admitted' \subseteq Ids
  BY DEF RevocationAnswered, AccountInv, TypeOK, bounds, Ids
<1>4. raced' \in BOOLEAN /\ mixed' \in SUBSET Processes
  BY DEF RevocationAnswered, AccountInv, TypeOK, bounds, disk
<1>5. Counted
  BY <1>2, <1>3, <1>4 DEF Counted
<1> QED
  BY <1>4, <1>5, LeaveKeeps DEF RevocationAnswered, disk

LEMMA CrashKeeps == ASSUME AccountInv, NEW p \in Processes, Crash(p) PROVE AccountInv'
<1>1. Counted /\ mixed' \in SUBSET Processes
  BY DEF Crash, AccountInv, TypeOK, Counted, history, Ids
<1> QED
  BY <1>1, LeaveKeeps DEF Crash

-----------------------------------------------------------------------------
(* The specification.                                                      *)

(* What earlier operations leave is sound.                                 *)
LEMMA SoundEnrolled ==
  ASSUME NEW e \in Emails PROVE Sound(Enrolled(e), FirstFresh, {1})
<1> DEFINE c == Enrolled(e)
           code(i, s) == [id |-> i, client |-> 6, user |-> 1, profile |-> 4, device |-> 5,
                          status |-> s]
           token == [id |-> 9, client |-> 6, user |-> 1, profile |-> 4, device |-> 5,
                     status |-> "active", code |-> 7]
<1>1. /\ c.users = {[id |-> 1, email |-> e, eligible |-> TRUE]}
      /\ c.invites = {[id |-> 2, status |-> "redeemed", by |-> 1],
                      [id |-> 3, status |-> "open", by |-> None]}
      /\ c.codes = {code(7, "redeemed"), code(8, "open")}
      /\ c.tokens = {token}
  BY DEF Enrolled
<1>2. c \in Content
  BY DEF Enrolled, Content, Users, Invites, Profiles, Devices, Links, Codes, Tokens, Ids, None
<1> HIDE DEF c
<1>3. UsersOK(c, {1})
  BY <1>1 DEF UsersOK
<1>4. InvitesOK(c, FirstFresh)
  BY <1>1 DEF InvitesOK, FirstFresh
<1>5. CodesOK(c, FirstFresh, {1})
  BY <1>1 DEF CodesOK, FirstFresh
<1>6. TokensOK(c)
  <2>1. Grants(code(7, "redeemed"), token)
    BY DEF Grants
  <2> QED
    BY <1>1, <2>1 DEF TokensOK
<1>7. Sound(c, FirstFresh, {1})
  BY <1>2, <1>3, <1>4, <1>5, <1>6 DEF Sound
<1> QED
  BY <1>7 DEF c

LEMMA InitKeeps == Init => AccountInv
<1> SUFFICES ASSUME Init PROVE AccountInv
  OBVIOUS
<1>1. FirstFresh \in Ids /\ FirstFresh \in Nat
  BY DEF FirstFresh, Ids
<1>2. Sound(file, fresh, admitted) /\ admitted \subseteq Ids
  BY <1>1, SoundEmpty, SoundEnrolled DEF Init, Ids
<1>3. Sound(Empty, fresh, admitted)
  BY <1>1, SoundEmpty DEF Init
<1>4. TypeOK
  BY <1>1, <1>2, <1>3, NoCallTyped DEF Init, TypeOK, Sound, Steps
<1>5. ContentsSound
  BY <1>2, <1>3 DEF Init, ContentsSound, Contents
<1>6. ASSUME NEW p \in Processes PROVE CallOK(p)
  BY DEF Init, CallOK, Aim, NeedsUser, Issuing
<1> QED
  BY <1>4, <1>5, <1>6 DEF AccountInv

LEMMA NextKeeps == AccountInv /\ [Next]_vars => AccountInv'
<1> SUFFICES ASSUME AccountInv, [Next]_vars PROVE AccountInv'
  OBVIOUS
<1>1. CASE UNCHANGED vars
  BY <1>1 DEF vars, disk, private, bounds, history, AccountInv, TypeOK, ContentsSound,
              Contents, CallOK, Aim
<1>2. ASSUME NEW p \in Processes, Called(p) PROVE AccountInv'
  BY <1>2, IssueInviteKeeps, RegisterClientKeeps, SetRemoteHostBashKeeps, ExchangeCodeKeeps,
     ResolveTokenKeeps, RevokeTokenKeeps, RedeemInviteKeeps, PairKeeps, RegisterDesktopKeeps,
     IssueCodeKeeps DEF Called
<1>3. ASSUME NEW p \in Processes, Proceed(p) PROVE AccountInv'
  BY <1>3, TruncateKeeps, WriteKeeps, RedemptionAnsweredKeeps, RevocationAnsweredKeeps,
     TokenAuthorisedKeeps, PairProfileKeeps, PairUserKeeps, RegisterDeviceKeeps,
     DesktopProfileKeeps, LinkDeviceKeeps, VerifyKeeps, VerifyLinksKeeps, IssueUserKeeps,
     IssueProfileKeeps, IssueSaveKeeps, ExchangeSaveKeeps DEF Proceed
<1>4. ASSUME NEW p \in Processes, Crash(p) PROVE AccountInv'
  BY <1>4, CrashKeeps
<1> QED
  BY <1>1, <1>2, <1>3, <1>4 DEF Next

(* In every behaviour each content on disk or about to be saved is sound,   *)
(* and each call under way carries what its remaining steps need.          *)
THEOREM AccountInvariant == Spec => []AccountInv
  BY InitKeeps, NextKeeps, PTL DEF Spec

(* The file, the contents held and the calls keep their types.             *)
THEOREM AccountTypeCorrect == Spec => []TypeOK
<1>1. AccountInv => TypeOK
  BY DEF AccountInv
<1> QED
  BY <1>1, AccountInvariant, PTL

(* Whatever rewrites are lost and wherever the processes crash, an eligible *)
(* user came in by a redeemed invite, and codes and tokens are only ever    *)
(* given to somebody who was admitted.                                     *)
THEOREM InvitedOnly == Spec => []HostedByInvite
<1>1. AccountInv => HostedByInvite
  <2> SUFFICES ASSUME AccountInv, NEW c \in Contents
               PROVE  /\ \A u \in c.users : u.eligible =>
                           \E i \in c.invites : i.status = "redeemed" /\ i.by = u.id
                      /\ \A k \in c.codes \cup c.tokens : k.user \in admitted
    BY DEF HostedByInvite
  <2>1. Sound(c, fresh, admitted)
    BY DEF AccountInv, ContentsSound
  <2>2. \A k \in c.codes : k.user \in admitted
    BY <2>1 DEF Sound, CodesOK
  <2>3. \A t \in c.tokens : t.user \in admitted
    BY <2>1, <2>2 DEF Sound, TokensOK, Grants
  <2> QED
    BY <2>1, <2>2, <2>3 DEF Sound, UsersOK
<1> QED
  BY <1>1, AccountInvariant, PTL

(* A token stands for exactly one redeemed code of the same content: an     *)
(* exchange can be lost, but not by half.                                   *)
THEOREM TokensAreEarned == Spec => []TokensEarned
<1>1. AccountInv => TokensEarned
  BY DEF AccountInv, ContentsSound, Sound, TokensOK, Grants, TokensEarned
<1> QED
  BY <1>1, AccountInvariant, PTL

-----------------------------------------------------------------------------
(* One operation at a time: what a change does to one whole content.        *)

LEMMA KeyedGrows ==
  ASSUME NEW n \in Nat, NEW m \in Nat, n <= m, NEW S, Keyed(S, n),
         \A x \in S : x.id \in Nat
  PROVE  Keyed(S, m)
  BY DEF Keyed

(* dict[x.id] = x of a known id or a fresh one.                            *)
LEMMA KeyedPut ==
  ASSUME NEW n \in Nat, NEW S, Keyed(S, n), NEW x, x.id < n
  PROVE  /\ Keyed(Put(S, x), n)
         /\ x \in Put(S, x)
         /\ \A y \in S : y \in Put(S, x) \/ y.id = x.id
         /\ \A y \in Put(S, x) : y = x \/ y \in S
  BY DEF Keyed, Put

(* One that has it already.                                                *)
LEMMA PutKnown ==
  ASSUME NEW n, NEW S, Keyed(S, n), NEW x \in S
  PROVE  Put(S, x) = S
  BY DEF Keyed, Put

(* One with a fresh id is added to the rest.                               *)
LEMMA PutFresh ==
  ASSUME NEW n \in Nat, NEW S, Keyed(S, n), NEW x, x.id \in Nat, x.id >= n
  PROVE  Put(S, x) = S \cup {x}
<1>1. \A y \in S : y.id # x.id
  BY DEF Keyed
<1> QED
  BY <1>1 DEF Put

LEMMA WholeGrows ==
  ASSUME NEW n \in Nat, NEW m \in Nat, n <= m, NEW R, NEW V,
         NEW c \in Content, Whole(c, n, R, V)
  PROVE  Whole(c, m, R, V)
<1>1. /\ \A x \in c.users : x.id \in Nat
      /\ \A x \in c.profiles : x.id \in Nat
      /\ \A x \in c.devices : x.id \in Nat
      /\ \A x \in c.tokens : x.id \in Nat
  BY DEF Content, Users, Profiles, Devices, Tokens, Ids
<1>2. Numbered(c, m)
  BY <1>1, KeyedGrows DEF Whole, Numbered
<1> QED
  BY <1>2 DEF Whole

LEMMA WholeEmpty == ASSUME NEW n, NEW R, NEW V PROVE Whole(Empty, n, R, V)
  BY DEF Empty, Whole, Numbered, Keyed, LinksOK, GrantsOK, SpentIn

(* Links stay bound when no device is lost and each profile keeps its user. *)
LEMMA LinksStay ==
  ASSUME NEW c, NEW d, LinksOK(c), d.links = c.links, c.devices \subseteq d.devices,
         \A q \in c.profiles : \E r \in d.profiles : r.id = q.id /\ r.user = q.user
  PROVE  LinksOK(d)
<1> SUFFICES ASSUME NEW l \in d.links
             PROVE  /\ [id |-> l.device, user |-> l.user] \in d.devices
                    /\ \E r \in d.profiles : r.id = l.profile /\ r.user = l.user
  BY DEF LinksOK
<1>1. PICK q \in c.profiles : q.id = l.profile /\ q.user = l.user
  BY DEF LinksOK
<1> QED
  BY <1>1 DEF LinksOK

(* A change of the users, the invites, and the profiles.                   *)
LEMMA WholeAdmission ==
  ASSUME NEW n \in Nat, NEW m \in Nat, n <= m, NEW R, NEW V,
         NEW c \in Content, Whole(c, n, R, V), NEW d \in Content,
         Keyed(d.users, m), Keyed(d.profiles, m),
         \A q \in c.profiles : \E r \in d.profiles : r.id = q.id /\ r.user = q.user,
         \A i \in d.invites : i.id \in R => i \in c.invites \/ i.status = "redeemed",
         d.devices = c.devices, d.links = c.links, d.codes = c.codes, d.tokens = c.tokens
  PROVE  Whole(d, m, R, V)
<1>1. Whole(c, m, R, V)
  BY WholeGrows
<1>2. Numbered(d, m)
  BY <1>1 DEF Whole, Numbered
<1>3. LinksOK(d)
  BY LinksStay DEF Whole
<1>4. GrantsOK(d)
  BY DEF Whole, GrantsOK
<1>5. SpentIn(d, R, V)
  BY DEF Whole, SpentIn
<1> QED
  BY <1>2, <1>3, <1>4, <1>5 DEF Whole

(* Clients play no part.                                                   *)
LEMMA WholeClient ==
  ASSUME NEW n, NEW R, NEW V, NEW c \in Content, Whole(c, n, R, V), NEW S
  PROVE  Whole([c EXCEPT !.clients = S], n, R, V)
<1> DEFINE d == [c EXCEPT !.clients = S]
<1>1. /\ d.users = c.users /\ d.invites = c.invites /\ d.profiles = c.profiles
      /\ d.devices = c.devices /\ d.links = c.links /\ d.codes = c.codes /\ d.tokens = c.tokens
  BY DEF Content
<1> QED
  BY <1>1 DEF Whole, Numbered, LinksOK, GrantsOK, SpentIn

(* A fresh device.                                                         *)
LEMMA WholeDevice ==
  ASSUME NEW n \in Nat, NEW R, NEW V, NEW c \in Content, Whole(c, n, R, V),
         NEW x, x.id = n
  PROVE  Whole([c EXCEPT !.devices = Put(@, x)], n + 1, R, V)
<1> DEFINE d == [c EXCEPT !.devices = Put(@, x)]
<1>1. /\ d.users = c.users /\ d.invites = c.invites /\ d.profiles = c.profiles
      /\ d.devices = Put(c.devices, x) /\ d.links = c.links /\ d.codes = c.codes
      /\ d.tokens = c.tokens
  BY DEF Content
<1>2. Whole(c, n + 1, R, V)
  BY WholeGrows
<1>3. Put(c.devices, x) = c.devices \cup {x}
  BY PutFresh DEF Whole, Numbered
<1> HIDE DEF d
<1>4. Keyed(d.devices, n + 1)
  <2>1. n + 1 \in Nat /\ x.id < n + 1 /\ Keyed(c.devices, n + 1)
    BY <1>2 DEF Whole, Numbered
  <2> QED
    BY <1>1, <2>1, KeyedPut
<1>5. LinksOK(d)
  BY <1>1, <1>3, LinksStay DEF Whole
<1>6. Whole(d, n + 1, R, V)
  BY <1>1, <1>2, <1>4, <1>5 DEF Whole, Numbered, GrantsOK, SpentIn
<1> QED
  BY <1>6 DEF d

(* A link between a device and a profile of one user.                      *)
LEMMA WholeLink ==
  ASSUME NEW n \in Nat, NEW R, NEW V, NEW c \in Content, Whole(c, n, R, V),
         NEW l, [id |-> l.device, user |-> l.user] \in c.devices,
         NEW q \in c.profiles, q.id = l.profile, q.user = l.user
  PROVE  Whole([c EXCEPT !.links = @ \cup {l},
                         !.profiles = Put(@, [q EXCEPT !.device = l.device])], n, R, V)
<1> DEFINE r == [q EXCEPT !.device = l.device]
           d == [c EXCEPT !.links = @ \cup {l}, !.profiles = Put(@, r)]
<1>1. /\ d.users = c.users /\ d.invites = c.invites /\ d.profiles = Put(c.profiles, r)
      /\ d.devices = c.devices /\ d.links = c.links \cup {l} /\ d.codes = c.codes
      /\ d.tokens = c.tokens
  BY DEF Content
<1>2. r.id = q.id /\ r.user = q.user
  BY DEF Content, Profiles
<1>3. /\ Keyed(d.profiles, n) /\ r \in d.profiles
      /\ \A y \in c.profiles : y \in d.profiles \/ y.id = q.id
  <2>1. q.id < n /\ Keyed(c.profiles, n)
    BY DEF Whole, Numbered, Keyed
  <2> HIDE DEF r
  <2> QED
    BY <1>1, <1>2, <2>1, KeyedPut
<1>4. \A y \in c.profiles : y.id = q.id => y = q
  BY DEF Whole, Numbered, Keyed
<1> HIDE DEF r, d
<1>5. \A k \in d.links : \E y \in d.profiles : y.id = k.profile /\ y.user = k.user
  <2> SUFFICES ASSUME NEW k \in d.links
               PROVE  \E y \in d.profiles : y.id = k.profile /\ y.user = k.user
    OBVIOUS
  <2>1. CASE k = l
    BY <1>2, <1>3, <2>1
  <2>2. CASE k \in c.links
    <3>1. PICK y \in c.profiles : y.id = k.profile /\ y.user = k.user
      BY <2>2 DEF Whole, LinksOK
    <3> QED
      BY <1>2, <1>3, <1>4, <3>1
  <2> QED
    BY <1>1, <2>1, <2>2
<1>6. LinksOK(d)
  BY <1>1, <1>5 DEF Whole, LinksOK
<1>7. GrantsOK(d)
  BY <1>1 DEF Whole, GrantsOK
<1>8. Numbered(d, n) /\ SpentIn(d, R, V)
  BY <1>1, <1>3 DEF Whole, Numbered, SpentIn
<1>9. Whole(d, n, R, V)
  BY <1>6, <1>7, <1>8 DEF Whole
<1> QED
  BY <1>9 DEF d, r

(* A code that is not open, or names a link.                               *)
LEMMA WholeCode ==
  ASSUME NEW n, NEW R, NEW V, NEW c \in Content, Whole(c, n, R, V),
         NEW k, k.status = "open" => Named(k) \in c.links
  PROVE  Whole([c EXCEPT !.codes = Put(@, k)], n, R, V)
<1> DEFINE d == [c EXCEPT !.codes = Put(@, k)]
<1>1. /\ d.users = c.users /\ d.invites = c.invites /\ d.profiles = c.profiles
      /\ d.devices = c.devices /\ d.links = c.links /\ d.codes = Put(c.codes, k)
      /\ d.tokens = c.tokens
  BY DEF Content
<1>2. \A j \in d.codes : j = k \/ j \in c.codes
  BY <1>1 DEF Put
<1> HIDE DEF d
<1>3. GrantsOK(d)
  BY <1>1, <1>2 DEF Whole, GrantsOK
<1>4. Whole(d, n, R, V)
  BY <1>1, <1>3 DEF Whole, Numbered, LinksOK, SpentIn
<1> QED
  BY <1>4 DEF d

(* A token that is not active, or names a link; it is not one revoked.      *)
LEMMA WholeToken ==
  ASSUME NEW n \in Nat, NEW R, NEW V, NEW c \in Content, Whole(c, n, R, V),
         NEW t, t.id < n, t.status = "active" => Named(t) \in c.links,
         t.id \in V => t.status = "revoked"
  PROVE  Whole([c EXCEPT !.tokens = Put(@, t)], n, R, V)
<1> DEFINE d == [c EXCEPT !.tokens = Put(@, t)]
<1>1. /\ d.users = c.users /\ d.invites = c.invites /\ d.profiles = c.profiles
      /\ d.devices = c.devices /\ d.links = c.links /\ d.codes = c.codes
      /\ d.tokens = Put(c.tokens, t)
  BY DEF Content
<1>2. Keyed(d.tokens, n) /\ \A s \in d.tokens : s = t \/ s \in c.tokens
  BY <1>1, KeyedPut DEF Whole, Numbered
<1> HIDE DEF d
<1>3. GrantsOK(d)
  BY <1>1, <1>2 DEF Whole, GrantsOK
<1>4. SpentIn(d, R, V)
  BY <1>1, <1>2 DEF Whole, SpentIn
<1>5. Whole(d, n, R, V)
  BY <1>1, <1>2, <1>3, <1>4 DEF Whole, Numbered, LinksOK
<1> QED
  BY <1>5 DEF d

-----------------------------------------------------------------------------
(* One operation at a time: steps.                                         *)

(* Nobody but p has a call under way.                                      *)
Lone(p) == /\ ~ raced
           /\ \A q \in Processes : q # p => pc[q] = "idle" /\ held[q] = Empty

LEMMA LoneBegins ==
  ASSUME AccountInv, SoloInv, NEW p \in Processes, Begin(p), ~ raced'
  PROVE  Lone(p)
<1>1. raced \in BOOLEAN
  BY DEF AccountInv, TypeOK
<1>2. ~ raced /\ \A q \in Processes \ {p} : pc[q] = "idle"
  BY <1>1 DEF Begin
<1> QED
  BY <1>2 DEF Lone, SoloInv, Holding

LEMMA LoneGoesOn ==
  ASSUME SoloInv, NEW p \in Processes, pc[p] # "idle", ~ raced
  PROVE  Lone(p)
  BY DEF Lone, SoloInv, Holding

(* The facts every lone step starts from.                                  *)
LEMMA LoneGiven ==
  ASSUME AccountInv, SoloInv, NEW p \in Processes, Lone(p)
  PROVE  /\ mixed = {} /\ FirstFresh <= fresh
         /\ fresh \in Nat /\ fresh + 1 \in Nat /\ fresh + 2 \in Nat
         /\ Load \in Content /\ Whole(Load, fresh, UsedInvites, revoked)
         /\ held[p] \in Content /\ Whole(held[p], fresh, UsedInvites, revoked)
         /\ Whole(file, fresh, UsedInvites, revoked)
         /\ ReadsOK(p) /\ AnswerOK(p)
         /\ held[p] # Empty => pc[p] \in Holding
         /\ \A i \in UsedInvites : i < fresh
         /\ \A t \in revoked : t < fresh
         /\ crashes = 0 /\ ~ Saving(p) => ~ torn /\ Keeps(file) /\ Keeps(Load)
         /\ crashes = 0 /\ pc[p] \in {"truncate", "write", "desktopProfile"} => Keeps(held[p])
<1>1. /\ ~ raced /\ fresh \in Nat /\ fresh + 1 \in Nat /\ fresh + 2 \in Nat
      /\ Load \in Content /\ held[p] \in Content
  BY Given DEF Lone, Ids
<1>2. /\ Whole(held[p], fresh, UsedInvites, revoked)
      /\ Whole(file, fresh, UsedInvites, revoked)
  BY <1>1 DEF SoloInv, Contents
<1>3. Whole(Load, fresh, UsedInvites, revoked)
  BY <1>2, WholeEmpty DEF Load
<1>4. \A i \in UsedInvites : i < fresh
  BY <1>1 DEF SoloInv, UsedInvites
<1>5. ASSUME crashes = 0, ~ Saving(p) PROVE ~ torn /\ Keeps(file) /\ Keeps(Load)
  <2>1. \A q \in Processes : ~ Saving(q)
    BY <1>5 DEF Lone, Saving
  <2> QED
    BY <1>1, <1>5, <2>1 DEF SoloInv, Load
<1> QED
  BY <1>1, <1>2, <1>3, <1>4, <1>5 DEF SoloInv

(* What a lone step of p has to show.                                      *)
LEMMA LoneStep ==
  ASSUME AccountInv, SoloInv, NEW p \in Processes, Lone(p), TypeOK',
         \A q \in Processes : q # p => pc'[q] = pc[q] /\ held'[q] = held[q],
         mixed' = {}, fresh <= fresh',
         held'[p] # Empty => pc'[p] \in Holding,
         UNCHANGED <<redeemed, revoked>>,
         Whole(file', fresh', UsedInvites, revoked),
         Whole(held'[p], fresh', UsedInvites, revoked),
         ReadsOK(p)', AnswerOK(p)',
         crashes' = 0 => \/ /\ Saving(p)' /\ Keeps(held[p])'
                         \/ /\ ~ Saving(p)' /\ ~ torn' /\ Keeps(file)'
                            /\ pc'[p] = "desktopProfile" => Keeps(held[p])'
  PROVE  SoloInv'
<1>1. /\ fresh \in Nat /\ fresh' \in Nat /\ FirstFresh <= fresh /\ FirstFresh \in Nat
      /\ ~ raced
  BY LoneGiven DEF TypeOK, Ids, Lone, FirstFresh
<1>2. ASSUME NEW q \in Processes, q # p
      PROVE  /\ pc'[q] = "idle" /\ held'[q] = Empty
  BY <1>2 DEF Lone
<1>3. \A q, r \in Processes : pc'[q] # "idle" /\ pc'[r] # "idle" => q = r
  BY <1>2
<1>4. \A q \in Processes : held'[q] # Empty => pc'[q] \in Holding
  BY <1>2
<1>5. /\ \A x \in redeemed' : x[1] < fresh'
      /\ \A x, y \in redeemed' : x[1] = y[1] => x = y
      /\ \A t \in revoked' : t < fresh'
  <2>1. /\ \A x \in redeemed : x[1] < fresh /\ x[1] \in Nat
        /\ \A t \in revoked : t < fresh /\ t \in Nat
    BY <1>1 DEF SoloInv, AccountInv, TypeOK, Ids
  <2> QED
    BY <1>1, <2>1 DEF SoloInv
<1>6. \A c \in Contents' : Whole(c, fresh', UsedInvites', revoked')
  <2>1. UsedInvites' = UsedInvites /\ revoked' = revoked
    BY DEF UsedInvites
  <2>2. \A q \in Processes : Whole(held'[q], fresh', UsedInvites, revoked)
    BY <1>2, WholeEmpty
  <2> QED
    BY <2>1, <2>2 DEF Contents
<1>7. \A q \in Processes : (ReadsOK(q) /\ AnswerOK(q))'
  <2> SUFFICES ASSUME NEW q \in Processes, q # p PROVE (ReadsOK(q) /\ AnswerOK(q))'
    OBVIOUS
  <2>1. Aim(q)' = "idle" /\ pc'[q] = "idle"
    BY <1>2 DEF Aim
  <2> QED
    BY <2>1 DEF ReadsOK, AnswerOK, Issuing
<1>8. ASSUME crashes' = 0
      PROVE  /\ \A q \in Processes :
                  pc'[q] \in {"truncate", "write", "desktopProfile"} => Keeps(held[q])'
             /\ (\A q \in Processes : ~ Saving(q)') => ~ torn' /\ Keeps(file)'
  <2>1. pc'[p] \in {"truncate", "write"} <=> Saving(p)'
    BY DEF Saving
  <2>2. pc'[p] \in {"truncate", "write", "desktopProfile"} => Keeps(held[p])'
    BY <1>8, <2>1
  <2>3. \A q \in Processes : q # p => pc'[q] \notin {"truncate", "write", "desktopProfile"}
    BY <1>2
  <2> QED
    BY <1>8, <2>2, <2>3
<1>9. FirstFresh <= fresh'
  BY <1>1
<1> QED
  BY <1>3, <1>4, <1>5, <1>6, <1>7, <1>8, <1>9 DEF SoloInv

(* A content is settled that is whole and true of the answer it is for.     *)
LEMMA LoneSave ==
  ASSUME AccountInv, AccountInv', SoloInv, NEW p \in Processes, Lone(p),
         NEW from \in Steps \ {"truncate", "write"}, NEW content,
         NEW to \in {"idle", "redeemed", "revoked", "link", "desktopDevice"},
         Save(p, from, content, to), UNCHANGED disk, fresh <= fresh',
         crashes' = crashes, UNCHANGED <<redeemed, revoked>>,
         Whole(content, fresh', UsedInvites, revoked),
         to = "redeemed" => /\ call'[p].key < fresh' /\ call'[p].key \notin UsedInvites
                            /\ SpentIn(content, {call'[p].key}, {}),
         to = "revoked" => call'[p].key < fresh' /\ SpentIn(content, {}, {call'[p].key}),
         crashes = 0 => \A u \in admitted' : Eligible(content, u)
  PROVE  SoloInv'
<1>1. /\ pc'[p] = "truncate" /\ after'[p] = to /\ held'[p] = content
      /\ \A q \in Processes : q # p => pc'[q] = pc[q] /\ held'[q] = held[q]
  BY DEF Save, Goto, AccountInv, TypeOK
<1>2. Aim(p)' = to /\ Saving(p)' /\ Pending(p)' = content
  BY <1>1 DEF Aim, Saving, Pending
<1>3. UsedInvites' = UsedInvites
  BY DEF UsedInvites
<1>4. ReadsOK(p)'
  BY <1>1, <1>2 DEF ReadsOK, Issuing
<1>5. AnswerOK(p)'
  BY <1>2, <1>3 DEF AnswerOK
<1>6. file' = file /\ mixed' = {}
  BY LoneGiven DEF disk
<1>7. Whole(file', fresh', UsedInvites, revoked)
  <2>1. file \in Content /\ fresh \in Nat /\ fresh' \in Nat
    BY DEF AccountInv, TypeOK, Ids
  <2> QED
    BY <1>6, <2>1, LoneGiven, WholeGrows
<1>8. crashes' = 0 => Keeps(held[p])'
  BY <1>1 DEF Keeps
<1>9. TypeOK'
  BY DEF AccountInv
<1> QED
  BY <1>1, <1>2, <1>4, <1>5, <1>6, <1>7, <1>8, <1>9, LoneStep DEF Holding

(* A move from read to read.                                               *)
LEMMA LoneMove ==
  ASSUME AccountInv, AccountInv', SoloInv, NEW p \in Processes, Lone(p),
         NEW from \in Steps \ {"truncate", "write"}, NEW to \in Steps \ {"truncate", "write"},
         Goto(p, from, to), UNCHANGED disk, fresh <= fresh',
         crashes' = crashes, UNCHANGED history,
         \A q \in Processes : q # p => held'[q] = held[q],
         held'[p] # Empty => to \in Holding,
         Whole(held'[p], fresh', UsedInvites, revoked),
         ReadsOK(p)', to \notin {"redeemed", "revoked"}, Aim(p)' \notin {"redeemed", "revoked"},
         crashes = 0 /\ to = "desktopProfile" => Keeps(held'[p])
  PROVE  SoloInv'
<1>1. /\ pc[p] = from /\ pc'[p] = to
      /\ \A q \in Processes : q # p => pc'[q] = pc[q]
  BY DEF Goto, AccountInv, TypeOK
<1>2. AnswerOK(p)'
  BY DEF AnswerOK
<1>3. file' = file /\ torn' = torn /\ mixed' = {} /\ UNCHANGED <<redeemed, revoked>>
      /\ admitted' = admitted
  BY LoneGiven DEF disk, history
<1>4. Whole(file', fresh', UsedInvites, revoked)
  <2>1. file \in Content /\ fresh \in Nat /\ fresh' \in Nat
    BY DEF AccountInv, TypeOK, Ids
  <2> QED
    BY <1>3, <2>1, LoneGiven, WholeGrows
<1>5. ~ Saving(p) /\ ~ Saving(p)'
  BY <1>1 DEF Saving
<1>6. ASSUME crashes' = 0
      PROVE  /\ ~ torn' /\ Keeps(file)'
             /\ pc'[p] = "desktopProfile" => Keeps(held[p])'
  <2>1. ~ torn /\ Keeps(file)
    BY <1>5, <1>6, LoneGiven
  <2>2. Keeps(file)'
    BY <1>3, <2>1 DEF Keeps
  <2>3. pc'[p] = "desktopProfile" => Keeps(held[p])'
    BY <1>1, <1>3, <1>6 DEF Keeps
  <2> QED
    BY <1>3, <2>1, <2>2, <2>3
<1>7. TypeOK'
  BY DEF AccountInv
<1>8. held'[p] # Empty => pc'[p] \in Holding
  BY <1>1
<1> QED
  BY <1>1, <1>2, <1>3, <1>4, <1>5, <1>6, <1>7, <1>8, LoneStep

(* A call that is left in peace; what has been answered by then stays true. *)
LEMMA LoneLeave ==
  ASSUME AccountInv, AccountInv', SoloInv, NEW p \in Processes, Lone(p), Leave(p),
         UNCHANGED <<file, torn, fresh, raced, admitted>>, mixed' \subseteq mixed,
         (~ Saving(p) /\ crashes' = crashes) \/ crashes' = crashes + 1,
         \A x \in redeemed' : x[1] < fresh,
         \A x, y \in redeemed' : x[1] = y[1] => x = y,
         \A t \in revoked' : t < fresh,
         SpentIn(file, UsedInvites', revoked')
  PROVE  SoloInv'
<1>1. /\ pc'[p] = "idle" /\ held'[p] = Empty
      /\ \A q \in Processes : q # p => pc'[q] = "idle" /\ held'[q] = Empty
  BY DEF Leave, Lone, AccountInv, TypeOK
<1>2. \A q \in Processes : pc'[q] = "idle" /\ held'[q] = Empty
  BY <1>1
<1>3. mixed' = {} /\ FirstFresh <= fresh'
  BY LoneGiven
<1>4. \A c \in Contents' : Whole(c, fresh', UsedInvites', revoked')
  <2>1. Whole(file, fresh, UsedInvites, revoked)
    BY LoneGiven
  <2>2. Whole(file', fresh', UsedInvites', revoked')
    BY <2>1 DEF Whole
  <2>3. \A q \in Processes : Whole(held'[q], fresh', UsedInvites', revoked')
    BY <1>2, WholeEmpty
  <2> QED
    BY <2>2, <2>3 DEF Contents
<1>5. \A q \in Processes : (ReadsOK(q) /\ AnswerOK(q))'
  <2> SUFFICES ASSUME NEW q \in Processes PROVE (ReadsOK(q) /\ AnswerOK(q))'
    OBVIOUS
  <2>1. Aim(q)' = "idle" /\ pc'[q] = "idle"
    BY <1>2 DEF Aim
  <2> QED
    BY <2>1 DEF ReadsOK, AnswerOK, Issuing
<1>6. ASSUME crashes' = 0 PROVE ~ torn' /\ Keeps(file)'
  <2>1. crashes \in Nat
    BY DEF AccountInv, TypeOK
  <2>2. crashes = 0 /\ ~ Saving(p)
    BY <1>6, <2>1
  <2>3. ~ torn /\ Keeps(file)
    BY <2>2, LoneGiven
  <2> QED
    BY <2>3 DEF Keeps
<1>7. \A q \in Processes : pc'[q] \notin {"truncate", "write", "desktopProfile"}
  BY <1>2
<1>8. \A q, r \in Processes : pc'[q] # "idle" /\ pc'[r] # "idle" => q = r
  BY <1>2
<1>9. /\ \A q \in Processes : held'[q] # Empty => pc'[q] \in Holding
      /\ \A x \in redeemed' : x[1] < fresh'
      /\ \A t \in revoked' : t < fresh'
  BY <1>2
<1> QED
  BY <1>3, <1>4, <1>5, <1>6, <1>7, <1>8, <1>9 DEF SoloInv

LEMMA LoneRefuse ==
  ASSUME AccountInv, AccountInv', SoloInv, NEW p \in Processes,
         NEW from \in Steps \ {"idle", "truncate", "write"}, Refuse(p, from), ~ raced'
  PROVE  SoloInv'
<1>1. pc[p] = from /\ Leave(p) /\ UNCHANGED <<disk, after, fresh, bounds, history>>
  BY DEF Refuse
<1>2. ~ raced
  BY <1>1 DEF bounds
<1>3. Lone(p)
  BY <1>1, <1>2, LoneGoesOn
<1>4. SpentIn(file, UsedInvites', revoked')
  BY <1>1, <1>3, LoneGiven DEF Whole, history, UsedInvites
<1>5. /\ \A x \in redeemed' : x[1] < fresh
      /\ \A x, y \in redeemed' : x[1] = y[1] => x = y
      /\ \A t \in revoked' : t < fresh
  BY <1>1, <1>2 DEF SoloInv, history
<1>6. ~ Saving(p)
  BY <1>1 DEF Saving
<1>7. UNCHANGED <<file, torn, fresh, raced, admitted>> /\ mixed' \subseteq mixed
      /\ crashes' = crashes
  BY <1>1 DEF disk, bounds, history
<1> QED
  BY <1>1, <1>3, <1>4, <1>5, <1>6, <1>7, LoneLeave

LEMMA LoneTruncate ==
  ASSUME AccountInv, AccountInv', SoloInv, NEW p \in Processes, Truncate(p), ~ raced'
  PROVE  SoloInv'
<1>1. /\ pc[p] = "truncate" /\ pc'[p] = "write" /\ file' = file /\ mixed' = mixed
      /\ held' = held /\ call' = call /\ after' = after /\ fresh' = fresh
      /\ crashes' = crashes /\ raced' = raced /\ admitted' = admitted
      /\ redeemed' = redeemed /\ revoked' = revoked
      /\ \A q \in Processes : q # p => pc'[q] = pc[q]
  BY DEF Truncate, Goto, bounds, history, AccountInv, TypeOK
<1>2. Lone(p)
  BY <1>1, LoneGoesOn
<1>3. Aim(p)' = Aim(p) /\ Pending(p)' = Pending(p) /\ UsedInvites' = UsedInvites
      /\ Saving(p) /\ Saving(p)'
  BY <1>1 DEF Aim, Pending, Saving, UsedInvites
<1>4. Aim(p) = after[p] /\ after[p] \in {"idle", "redeemed", "revoked", "link", "desktopDevice"}
  BY <1>1, Given DEF Aim, CallOK
<1>5. ReadsOK(p)'
  BY <1>1, <1>3, <1>4 DEF ReadsOK, Issuing
<1>6. AnswerOK(p)'
  BY <1>1, <1>2, <1>3, LoneGiven DEF AnswerOK
<1>7. crashes' = 0 => Keeps(held[p])'
  BY <1>1, <1>2, LoneGiven DEF Keeps
<1>8. TypeOK' /\ fresh <= fresh'
  BY <1>1, Given DEF AccountInv, Ids
<1>9. mixed' = {} /\ Whole(file', fresh', UsedInvites, revoked)
      /\ Whole(held'[p], fresh', UsedInvites, revoked)
  BY <1>1, <1>2, LoneGiven
<1> QED
  BY <1>1, <1>2, <1>3, <1>5, <1>6, <1>7, <1>8, <1>9, LoneStep DEF Holding

LEMMA LoneWrite ==
  ASSUME AccountInv, AccountInv', SoloInv, NEW p \in Processes, Write(p), ~ raced'
  PROVE  SoloInv'
<1>1. /\ pc[p] = "write" /\ pc'[p] = after[p] /\ file' = held[p] /\ held'[p] = Empty
      /\ fresh' = fresh
      /\ crashes' = crashes /\ raced' = raced /\ admitted' = admitted
      /\ redeemed' = redeemed /\ revoked' = revoked
      /\ after[p] # "idle" => call'[p] = call[p]
      /\ \A q \in Processes : q # p => pc'[q] = pc[q] /\ held'[q] = held[q]
  BY DEF Write, Goto, bounds, history, AccountInv, TypeOK
<1>2. Lone(p)
  BY <1>1, LoneGoesOn
<1>3. mixed' = {} /\ torn' = FALSE
  <2>1. mixed = {} /\ \A q \in Processes : pc[q] = "write" => q = p
    BY <1>2, LoneGiven DEF Lone
  <2> QED
    BY <2>1 DEF Write
<1>4. Aim(p) = after[p] /\ after[p] \in {"idle", "redeemed", "revoked", "link", "desktopDevice"}
  BY <1>1, Given DEF Aim, CallOK
<1>5. Aim(p)' = Aim(p) /\ Pending(p)' = Pending(p) /\ UsedInvites' = UsedInvites
      /\ ~ Saving(p)'
  BY <1>1, <1>4 DEF Aim, Pending, Saving, UsedInvites
<1>6. ReadsOK(p)'
  BY <1>1, <1>4, <1>5 DEF ReadsOK, Issuing
<1>7. AnswerOK(p)'
  BY <1>1, <1>2, <1>4, <1>5, LoneGiven DEF AnswerOK
<1>8. crashes' = 0 => ~ torn' /\ Keeps(file)' /\ pc'[p] # "desktopProfile"
  BY <1>1, <1>2, <1>3, <1>4, LoneGiven DEF Keeps
<1>9. TypeOK' /\ fresh <= fresh'
  BY <1>1, Given DEF AccountInv, Ids
<1>10. /\ Whole(file', fresh', UsedInvites, revoked)
       /\ Whole(held'[p], fresh', UsedInvites, revoked)
  BY <1>1, <1>2, LoneGiven, WholeEmpty
<1> QED
  BY <1>1, <1>2, <1>3, <1>5, <1>6, <1>7, <1>8, <1>9, <1>10, LoneStep

-----------------------------------------------------------------------------
(* One operation at a time: the answers, and a crash.                      *)

LEMMA LoneAnswered ==
  ASSUME AccountInv, AccountInv', SoloInv, NEW p \in Processes, RedemptionAnswered(p),
         ~ raced'
  PROVE  SoloInv'
<1>1. /\ pc[p] = "redeemed" /\ Leave(p) /\ raced' = raced /\ crashes' = crashes
      /\ UNCHANGED <<file, torn, fresh, raced, admitted>> /\ mixed' \subseteq mixed
      /\ redeemed' = redeemed \cup {<<call[p].key, call[p].user>>} /\ revoked' = revoked
  BY DEF RedemptionAnswered, disk, bounds
<1>2. ~ raced /\ Lone(p)
  BY <1>1, LoneGoesOn
<1>3. /\ call[p].key < fresh /\ call[p].key \notin UsedInvites
      /\ SpentIn(file, {call[p].key}, {})
  <2>1. Aim(p) = "redeemed" /\ Pending(p) = file
    BY <1>1 DEF Aim, Pending, Saving
  <2> QED
    BY <1>2, <2>1, LoneGiven DEF AnswerOK
<1>4. \A x \in redeemed : x[1] \in UsedInvites
  BY DEF UsedInvites
<1>5. UsedInvites' = UsedInvites \cup {call[p].key}
  <2> DEFINE z == <<call[p].key, call[p].user>>
  <2>1. z[1] = call[p].key /\ redeemed' = redeemed \cup {z}
    BY <1>1
  <2> HIDE DEF z
  <2> QED
    BY <2>1 DEF UsedInvites
<1>6. SpentIn(file, UsedInvites', revoked')
  BY <1>1, <1>2, <1>3, <1>5, LoneGiven DEF Whole, SpentIn
<1>7. /\ \A x \in redeemed' : x[1] < fresh
      /\ \A t \in revoked' : t < fresh
  BY <1>1, <1>2, <1>3 DEF SoloInv
<1>8. \A x, y \in redeemed' : x[1] = y[1] => x = y
  <2> DEFINE z == <<call[p].key, call[p].user>>
  <2>1. \A x \in redeemed : x[1] # z[1]
    BY <1>3, <1>4
  <2>2. \A x, y \in redeemed : x[1] = y[1] => x = y
    BY <1>2 DEF SoloInv
  <2>3. redeemed' = redeemed \cup {z}
    BY <1>1
  <2> HIDE DEF z
  <2> QED
    BY <2>1, <2>2, <2>3
<1>9. ~ Saving(p)
  BY <1>1 DEF Saving
<1> QED
  BY <1>1, <1>2, <1>6, <1>7, <1>8, <1>9, LoneLeave

LEMMA LoneRevoked ==
  ASSUME AccountInv, AccountInv', SoloInv, NEW p \in Processes, RevocationAnswered(p),
         ~ raced'
  PROVE  SoloInv'
<1>1. /\ pc[p] = "revoked" /\ Leave(p) /\ raced' = raced /\ crashes' = crashes
      /\ UNCHANGED <<file, torn, fresh, raced, admitted>> /\ mixed' \subseteq mixed
      /\ revoked' = revoked \cup {call[p].key} /\ redeemed' = redeemed
  BY DEF RevocationAnswered, disk, bounds
<1>2. ~ raced /\ Lone(p)
  BY <1>1, LoneGoesOn
<1>3. call[p].key < fresh /\ SpentIn(file, {}, {call[p].key})
  <2>1. Aim(p) = "revoked" /\ Pending(p) = file
    BY <1>1 DEF Aim, Pending, Saving
  <2> QED
    BY <1>2, <2>1, LoneGiven DEF AnswerOK
<1>4. UsedInvites' = UsedInvites
  BY <1>1 DEF UsedInvites
<1>5. SpentIn(file, UsedInvites', revoked')
  BY <1>1, <1>2, <1>3, <1>4, LoneGiven DEF Whole, SpentIn
<1>6. /\ \A x \in redeemed' : x[1] < fresh
      /\ \A x, y \in redeemed' : x[1] = y[1] => x = y
      /\ \A t \in revoked' : t < fresh
  BY <1>1, <1>2, <1>3 DEF SoloInv
<1>7. ~ Saving(p)
  BY <1>1 DEF Saving
<1> QED
  BY <1>1, <1>2, <1>5, <1>6, <1>7, LoneLeave

LEMMA LoneAuthorised ==
  ASSUME AccountInv, AccountInv', SoloInv, NEW p \in Processes, TokenAuthorised(p),
         ~ raced'
  PROVE  SoloInv'
<1>1. Refuse(p, "authorized")
  BY DEF TokenAuthorised, Refuse
<1> QED
  BY <1>1, LoneRefuse DEF Steps

LEMMA LoneCrash ==
  ASSUME AccountInv, AccountInv', SoloInv, NEW p \in Processes, Crash(p), ~ raced'
  PROVE  SoloInv'
<1>1. /\ pc[p] # "idle" /\ Leave(p) /\ crashes' = crashes + 1
      /\ UNCHANGED <<file, torn, fresh, raced, history>> /\ mixed' \subseteq mixed
  BY DEF Crash
<1>2. ~ raced /\ Lone(p)
  BY <1>1, LoneGoesOn
<1>3. SpentIn(file, UsedInvites', revoked')
  BY <1>1, <1>2, LoneGiven DEF Whole, history, UsedInvites
<1>4. /\ \A x \in redeemed' : x[1] < fresh
      /\ \A x, y \in redeemed' : x[1] = y[1] => x = y
      /\ \A t \in revoked' : t < fresh
  BY <1>1, <1>2 DEF SoloInv, history
<1>5. admitted' = admitted
  BY <1>1 DEF history
<1> QED
  BY <1>1, <1>2, <1>3, <1>4, <1>5, LoneLeave

-----------------------------------------------------------------------------
(* One operation at a time: invites, users, and the devices of a pairing.   *)

(* More ids make no two records of a content share one.                    *)
LEMMA KeyedOf ==
  ASSUME NEW n \in Nat, NEW m \in Nat, n <= m, NEW R, NEW V,
         NEW c \in Content, Whole(c, n, R, V)
  PROVE  /\ Keyed(c.users, m) /\ Keyed(c.profiles, m)
         /\ Keyed(c.devices, m) /\ Keyed(c.tokens, m)
  BY WholeGrows DEF Whole, Numbered

(* A user that is put back as it was, that is new, or that is eligible,     *)
(* shuts nobody out.                                                       *)
LEMMA EligiblePut ==
  ASSUME NEW n \in Nat, NEW c \in Content, Keyed(c.users, n), NEW v, Eligible(c, v),
         NEW u \in Users, u \in c.users \/ u.id >= n \/ u.eligible
  PROVE  \E x \in Put(c.users, u) : x.id = v /\ x.eligible
<1>1. PICK x \in c.users : x.id = v /\ x.eligible
  BY DEF Eligible
<1>2. CASE x.id # u.id
  BY <1>1, <1>2 DEF Put
<1>3. CASE x.id = u.id
  <2>1. u.id \in Nat /\ x.id < n /\ u \in Put(c.users, u)
    BY DEF Users, Ids, Keyed, Put
  <2>2. u \in c.users \/ u.eligible
    BY <1>3, <2>1
  <2> QED
    BY <1>1, <1>3, <2>1, <2>2 DEF Keyed
<1> QED
  BY <1>2, <1>3

LEMMA LoneIssueInvite ==
  ASSUME AccountInv, AccountInv', SoloInv, NEW p \in Processes, IssueInvite(p), ~ raced'
  PROVE  SoloInv'
<1> DEFINE i == [id |-> fresh, status |-> "open", by |-> None]
           content == [Load EXCEPT !.invites = Put(@, i)]
<1>1. /\ Begin(p) /\ Save(p, "idle", content, "idle") /\ UNCHANGED <<disk, call, history>>
      /\ fresh' = fresh + 1 /\ crashes' = crashes
  BY DEF IssueInvite, Begin
<1>2. Lone(p)
  BY <1>1, LoneBegins
<1>3. content \in Content
  BY Given, SoundInvite DEF Sound
<1>4. /\ content.users = Load.users /\ content.profiles = Load.profiles
      /\ content.invites = Put(Load.invites, i) /\ content.devices = Load.devices
      /\ content.links = Load.links /\ content.codes = Load.codes
      /\ content.tokens = Load.tokens
  BY Given DEF Content
<1>5. \A j \in content.invites : j.id \in UsedInvites => j \in Load.invites
  <2>1. fresh \notin UsedInvites
    BY <1>2, LoneGiven
  <2> QED
    BY <1>4, <2>1 DEF Put
<1> HIDE DEF content
<1>6. Keyed(content.users, fresh + 1) /\ Keyed(content.profiles, fresh + 1)
  BY <1>2, <1>4, LoneGiven, KeyedOf
<1>7. Whole(content, fresh + 1, UsedInvites, revoked)
  BY <1>2, <1>3, <1>4, <1>5, <1>6, LoneGiven, WholeAdmission
<1>8. crashes = 0 => \A u \in admitted' : Eligible(content, u)
  <2>1. ~ Saving(p)
    BY <1>1 DEF Saving, Save, Goto
  <2> QED
    BY <1>1, <1>2, <1>4, <2>1, LoneGiven DEF Keeps, Eligible, history
<1>9. fresh <= fresh' /\ UNCHANGED <<redeemed, revoked>>
  BY <1>1, <1>2, LoneGiven DEF history
<1> QED
  BY <1>1, <1>2, <1>7, <1>8, <1>9, LoneSave DEF Steps

LEMMA LoneRedeemInvite ==
  ASSUME AccountInv, AccountInv', SoloInv, NEW p \in Processes, NEW e \in Emails,
         RedeemInvite(p, e), ~ raced'
  PROVE  SoloInv'
<1> DEFINE known == UserOf(Load, e)
           user == [known EXCEPT !.eligible = TRUE]
           default == [id |-> fresh + 1, user |-> user.id, device |-> None]
           profiles == IF Owned(Load, user.id) = {} THEN Put(Load.profiles, default)
                       ELSE Load.profiles
<1>1. /\ Begin(p) /\ UNCHANGED <<disk, redeemed, revoked>>
      /\ fresh' = fresh + 2 /\ crashes' = crashes
  BY DEF RedeemInvite, Begin
<1>2. PICK i \in OpenInvites(Load) :
        /\ Save(p, "idle",
             [Load EXCEPT !.users = Put(@, user),
                          !.invites = Put(@, [i EXCEPT !.status = "redeemed", !.by = user.id]),
                          !.profiles = profiles], "redeemed")
        /\ call' = [call EXCEPT ![p].user = user.id, ![p].key = i.id]
        /\ admitted' = admitted \cup {user.id}
  BY DEF RedeemInvite
<1> DEFINE j == [i EXCEPT !.status = "redeemed", !.by = user.id]
           content == [Load EXCEPT !.users = Put(@, user), !.invites = Put(@, j),
                                   !.profiles = profiles]
<1>3. Lone(p)
  BY <1>1, LoneBegins
<1>4. /\ i \in Load.invites /\ i.status = "open" /\ i \in Invites
      /\ j.id = i.id /\ j.status = "redeemed"
  BY Given DEF OpenInvites, Content, Invites
<1>5. /\ known \in Users /\ (known \in Load.users \/ known.id = fresh)
  <2>1. known \in Users
    BY UserOfTyped
  <2>2. known \in Load.users \/ known.id = fresh
    BY DEF UserOf
  <2> QED
    BY <2>1, <2>2
<1> HIDE DEF known
<1>6. user \in Users /\ user.eligible /\ user.id = known.id
  BY <1>5 DEF Users
<1> HIDE DEF user
<1>7. default.id = fresh + 1 /\ default \in Profiles
  BY <1>6, Given DEF Profiles, Users, None
<1>8. held'[p] = content /\ call'[p].key = i.id
  BY <1>2, Given DEF Save, Call, AccountInv, TypeOK
<1>9. content \in Content
  BY <1>8 DEF AccountInv, TypeOK
<1>10. /\ content.users = Put(Load.users, user) /\ content.profiles = profiles
       /\ content.invites = Put(Load.invites, j) /\ content.devices = Load.devices
       /\ content.links = Load.links /\ content.codes = Load.codes
       /\ content.tokens = Load.tokens
  BY Given DEF Content
<1>11. Save(p, "idle", content, "redeemed")
  BY <1>2
<1> HIDE DEF content
<1>12. Keyed(content.users, fresh + 2)
  <2>1. Keyed(Load.users, fresh + 2) /\ user.id < fresh + 2
    <3>1. Keyed(Load.users, fresh) /\ Keyed(Load.users, fresh + 2)
      BY <1>3, LoneGiven, KeyedOf
    <3> QED
      BY <1>3, <1>5, <1>6, <3>1, LoneGiven DEF Keyed, Users, Ids
  <2> QED
    BY <1>3, <1>10, <2>1, LoneGiven, KeyedPut
<1>13. /\ Keyed(content.profiles, fresh + 2)
       /\ Load.profiles \subseteq content.profiles
  <2>1. Keyed(Load.profiles, fresh) /\ Keyed(Load.profiles, fresh + 2)
    BY <1>3, LoneGiven, KeyedOf
  <2>2. default.id < fresh + 2 /\ default.id \in Nat /\ default.id >= fresh
    BY <1>3, <1>7, LoneGiven
  <2> HIDE DEF default
  <2>3. Keyed(Put(Load.profiles, default), fresh + 2)
    BY <1>3, <2>1, <2>2, LoneGiven, KeyedPut
  <2>4. Put(Load.profiles, default) = Load.profiles \cup {default}
    BY <1>3, <2>1, <2>2, LoneGiven, PutFresh
  <2> QED
    BY <1>10, <2>1, <2>3, <2>4
<1>14. \A k \in content.invites : k.id \in UsedInvites => k \in Load.invites \/ k.status = "redeemed"
  BY <1>4, <1>10 DEF Put
<1> HIDE DEF profiles, default, j
<1>15. Whole(content, fresh + 2, UsedInvites, revoked)
  <2>1. \A q \in Load.profiles : \E r \in content.profiles : r.id = q.id /\ r.user = q.user
    BY <1>13
  <2> QED
    BY <1>3, <1>9, <1>10, <1>12, <1>13, <1>14, <2>1, LoneGiven, WholeAdmission
<1>16. /\ i.id < fresh + 2 /\ i.id \notin UsedInvites /\ SpentIn(content, {i.id}, {})
  <2>1. i.id < fresh /\ i.id \in Nat /\ fresh \in Nat
    BY <1>4, Given DEF Sound, InvitesOK, Ids, Invites
  <2>2. i.id \notin UsedInvites
    BY <1>3, <1>4, LoneGiven DEF Whole, SpentIn
  <2>3. \A k \in content.invites : k.id = i.id => k = j
    BY <1>4, <1>10 DEF Put
  <2>4. SpentIn(content, {i.id}, {})
    BY <1>4, <2>3 DEF SpentIn
  <2> QED
    BY <2>1, <2>2, <2>4
<1>17. ASSUME crashes = 0, NEW v \in admitted' PROVE Eligible(content, v)
  <2>1. CASE v = user.id
    BY <1>6, <1>10, <2>1 DEF Eligible, Put
  <2>2. CASE v \in admitted
    <3>1. Eligible(Load, v)
      <4>1. ~ Saving(p)
        BY <1>2 DEF Saving, Save, Goto
      <4> QED
        BY <1>3, <1>17, <2>2, <4>1, LoneGiven DEF Keeps
    <3>2. Keyed(Load.users, fresh)
      BY <1>3, LoneGiven DEF Whole, Numbered
    <3>3. fresh \in Nat /\ Load \in Content
      BY <1>3, LoneGiven
    <3>4. \E x \in Put(Load.users, user) : x.id = v /\ x.eligible
      BY <1>6, <3>1, <3>2, <3>3, EligiblePut
    <3> QED
      BY <1>10, <3>4 DEF Eligible
  <2> QED
    BY <1>2, <2>1, <2>2
<1>18. fresh <= fresh'
  BY <1>1, <1>3, LoneGiven
<1> QED
  BY <1>1, <1>3, <1>8, <1>11, <1>15, <1>16, <1>17, <1>18, LoneSave DEF Steps

LEMMA LonePair ==
  ASSUME AccountInv, AccountInv', SoloInv, NEW p \in Processes, NEW e \in Emails,
         Pair(p, e), ~ raced'
  PROVE  SoloInv'
<1>1. /\ Begin(p) /\ Goto(p, "idle", "pairProfile") /\ UNCHANGED <<disk, held, history>>
      /\ fresh' = fresh /\ crashes' = crashes
  BY DEF Pair, Begin
<1>2. Lone(p)
  BY <1>1, LoneBegins
<1>3. pc[p] = "idle" /\ pc'[p] = "pairProfile" /\ Aim(p)' = "pairProfile"
  BY <1>1 DEF Goto, Aim, AccountInv, TypeOK
<1>4. ReadsOK(p)'
  BY <1>3 DEF ReadsOK, Issuing
<1>5. held'[p] = Empty
  BY <1>1, <1>2, <1>3, LoneGiven DEF Holding
<1> QED
  BY <1>1, <1>2, <1>3, <1>4, <1>5, LoneGiven, LoneMove, WholeEmpty DEF Steps

LEMMA LonePairProfile ==
  ASSUME AccountInv, AccountInv', SoloInv, NEW p \in Processes, PairProfile(p), ~ raced'
  PROVE  SoloInv'
<1>1. CASE Refuse(p, "pairProfile")
  BY <1>1, LoneRefuse DEF Steps
<1>2. CASE ~ Refuse(p, "pairProfile")
  <2>1. /\ Goto(p, "pairProfile", "pairUser")
        /\ UNCHANGED <<disk, after, held, fresh, bounds, history>>
    BY <1>2 DEF PairProfile
  <2>2. /\ pc[p] = "pairProfile" /\ pc'[p] = "pairUser" /\ Aim(p)' = "pairUser"
        /\ crashes' = crashes /\ raced' = raced
    BY <2>1 DEF Goto, Aim, AccountInv, TypeOK, bounds
  <2>3. Lone(p)
    BY <2>2, LoneGoesOn
  <2>4. ReadsOK(p)'
    BY <2>2 DEF ReadsOK, Issuing
  <2>5. held'[p] = Empty
    BY <2>1, <2>2, <2>3, LoneGiven DEF Holding
  <2> QED
    BY <2>1, <2>2, <2>3, <2>4, <2>5, LoneGiven, LoneMove, WholeEmpty DEF Steps
<1> QED
  BY <1>1, <1>2

LEMMA LonePairUser ==
  ASSUME AccountInv, AccountInv', SoloInv, NEW p \in Processes, PairUser(p), ~ raced'
  PROVE  SoloInv'
<1>1. CASE Refuse(p, "pairUser")
  BY <1>1, LoneRefuse DEF Steps
<1>2. CASE ~ Refuse(p, "pairUser")
  <2>1. /\ Goto(p, "pairUser", "pairDevice")
        /\ UNCHANGED <<disk, after, held, call, fresh, bounds, history>>
    BY <1>2 DEF PairUser
  <2>2. /\ pc[p] = "pairUser" /\ pc'[p] = "pairDevice" /\ Aim(p)' = "pairDevice"
        /\ crashes' = crashes /\ raced' = raced
    BY <2>1 DEF Goto, Aim, AccountInv, TypeOK, bounds
  <2>3. Lone(p)
    BY <2>2, LoneGoesOn
  <2>4. ReadsOK(p)'
    BY <2>2 DEF ReadsOK, Issuing
  <2>5. held'[p] = Empty
    BY <2>1, <2>2, <2>3, LoneGiven DEF Holding
  <2> QED
    BY <2>1, <2>2, <2>3, <2>4, <2>5, LoneGiven, LoneMove, WholeEmpty DEF Steps
<1> QED
  BY <1>1, <1>2

LEMMA LoneRegisterDevice ==
  ASSUME AccountInv, AccountInv', SoloInv, NEW p \in Processes,
         NEW from \in {"pairDevice", "desktopDevice"}, RegisterDevice(p, from), ~ raced'
  PROVE  SoloInv'
<1> DEFINE device == [id |-> fresh, user |-> call[p].user]
           content == [Load EXCEPT !.devices = Put(@, device)]
<1>1. /\ Save(p, from, content, "link") /\ UNCHANGED <<disk, history>>
      /\ fresh' = fresh + 1 /\ crashes' = crashes /\ raced' = raced /\ pc[p] = from
  BY DEF RegisterDevice, bounds, Save, Goto
<1>2. Lone(p)
  BY <1>1, LoneGoesOn
<1>3. content.users = Load.users
  BY Given DEF Content
<1>4. Whole(content, fresh + 1, UsedInvites, revoked)
  <2>1. device.id = fresh
    OBVIOUS
  <2> HIDE DEF device
  <2> QED
    BY <1>2, <2>1, LoneGiven, WholeDevice
<1> HIDE DEF content
<1>5. crashes = 0 => \A u \in admitted' : Eligible(content, u)
  <2>1. ~ Saving(p)
    BY <1>1 DEF Saving
  <2> QED
    BY <1>1, <1>2, <1>3, <2>1, LoneGiven DEF Keeps, Eligible, history
<1>6. fresh <= fresh' /\ UNCHANGED <<redeemed, revoked>>
  BY <1>1, <1>2, LoneGiven DEF history
<1> QED
  BY <1>1, <1>2, <1>4, <1>5, <1>6, LoneSave DEF Steps

LEMMA LoneLinkDevice ==
  ASSUME AccountInv, AccountInv', SoloInv, NEW p \in Processes, LinkDevice(p), ~ raced'
  PROVE  SoloInv'
<1>1. CASE Refuse(p, "link")
  BY <1>1, LoneRefuse DEF Steps
<1>2. CASE ~ Refuse(p, "link")
  <2>1. PICK l \in OwnedLink(p), q \in Load.profiles :
          /\ q.id = l.profile
          /\ Save(p, "link",
               [Load EXCEPT !.links = @ \cup {l},
                            !.profiles = Put(@, [q EXCEPT !.device = l.device])], "idle")
          /\ UNCHANGED <<disk, call, fresh, bounds, history>>
    BY <1>2 DEF LinkDevice
  <2> DEFINE content == [Load EXCEPT !.links = @ \cup {l},
                                     !.profiles = Put(@, [q EXCEPT !.device = l.device])]
  <2>2. crashes' = crashes /\ raced' = raced /\ pc[p] = "link" /\ fresh' = fresh
        /\ UNCHANGED history /\ UNCHANGED disk
    BY <2>1 DEF bounds, Save, Goto
  <2>3. Lone(p)
    BY <2>2, LoneGoesOn
  <2>4. /\ [id |-> l.device, user |-> l.user] \in Load.devices
        /\ \E r \in Load.profiles : r.id = l.profile /\ r.user = l.user
    BY <2>1, Given DEF OwnedLink, Owned, Content, Devices
  <2>5. q.user = l.user
    BY <2>1, <2>3, <2>4, LoneGiven DEF Whole, Numbered, Keyed
  <2>6. Whole(content, fresh, UsedInvites, revoked)
    BY <2>1, <2>3, <2>4, <2>5, LoneGiven, WholeLink
  <2>7. content.users = Load.users
    BY Given DEF Content
  <2>8. Save(p, "link", content, "idle")
    BY <2>1
  <2> HIDE DEF content
  <2>9. crashes = 0 => \A u \in admitted' : Eligible(content, u)
    <3>1. ~ Saving(p)
      BY <2>2 DEF Saving
    <3> QED
      BY <2>2, <2>3, <2>7, <3>1, LoneGiven DEF Keeps, Eligible, history
  <2>10. fresh <= fresh' /\ UNCHANGED <<redeemed, revoked>>
    BY <2>2, <2>3, LoneGiven DEF history
  <2> QED
    BY <2>2, <2>3, <2>6, <2>8, <2>9, <2>10, LoneSave DEF Steps
<1> QED
  BY <1>1, <1>2

-----------------------------------------------------------------------------
(* One operation at a time: the desktop, clients, and the whole rewrite.    *)

LEMMA LoneSetRemoteHostBash ==
  ASSUME AccountInv, AccountInv', SoloInv, NEW p \in Processes, SetRemoteHostBash(p),
         ~ raced'
  PROVE  SoloInv'
<1>1. /\ Begin(p) /\ Save(p, "idle", Load, "idle") /\ UNCHANGED <<disk, history>>
      /\ fresh' = fresh /\ crashes' = crashes /\ pc[p] = "idle"
  BY DEF SetRemoteHostBash, Begin, Save, Goto
<1>2. Lone(p)
  BY <1>1, LoneBegins
<1>3. crashes = 0 => \A u \in admitted' : Eligible(Load, u)
  BY <1>1, <1>2, LoneGiven DEF Keeps, history, Saving
<1>4. /\ fresh <= fresh' /\ UNCHANGED <<redeemed, revoked>>
      /\ Whole(Load, fresh', UsedInvites, revoked)
  BY <1>1, <1>2, LoneGiven DEF history
<1> QED
  BY <1>1, <1>2, <1>3, <1>4, LoneSave DEF Steps

LEMMA LoneRegisterClient ==
  ASSUME AccountInv, AccountInv', SoloInv, NEW p \in Processes, RegisterClient(p),
         ~ raced'
  PROVE  SoloInv'
<1> DEFINE content == [Load EXCEPT !.clients = @ \cup {fresh}]
<1>1. /\ Begin(p) /\ Save(p, "idle", content, "idle") /\ UNCHANGED <<disk, history>>
      /\ fresh' = fresh + 1 /\ crashes' = crashes /\ pc[p] = "idle"
  BY DEF RegisterClient, Begin, Save, Goto
<1>2. Lone(p)
  BY <1>1, LoneBegins
<1>3. content.users = Load.users /\ content \in Content
  BY Given DEF Content
<1>4. Whole(content, fresh, UsedInvites, revoked)
  BY <1>2, LoneGiven, WholeClient
<1> HIDE DEF content
<1>5. Whole(content, fresh + 1, UsedInvites, revoked)
  BY <1>2, <1>3, <1>4, LoneGiven, WholeGrows
<1>6. crashes = 0 => \A u \in admitted' : Eligible(content, u)
  BY <1>1, <1>2, <1>3, LoneGiven DEF Keeps, Eligible, history, Saving
<1>7. fresh <= fresh' /\ UNCHANGED <<redeemed, revoked>>
  BY <1>1, <1>2, LoneGiven DEF history
<1> QED
  BY <1>1, <1>2, <1>5, <1>6, <1>7, LoneSave DEF Steps

LEMMA LoneRegisterDesktop ==
  ASSUME AccountInv, AccountInv', SoloInv, NEW p \in Processes, NEW e \in Emails,
         RegisterDesktop(p, e), ~ raced'
  PROVE  SoloInv'
<1> DEFINE user == UserOf(Load, e)
           known == [Load EXCEPT !.users = Put(@, user)]
           default(q) == [id |-> q, user |-> user.id, device |-> None]
           named(q) == IF \E x \in known.profiles : x.id = q THEN known
                       ELSE [known EXCEPT !.profiles = Put(@, default(q))]
<1>1. /\ Begin(p) /\ UNCHANGED disk /\ UNCHANGED history /\ fresh' = fresh + 1
      /\ crashes' = crashes
  BY DEF RegisterDesktop, Begin
<1>2. \/ \E q \in ProfileNames : Save(p, "idle", named(q), "desktopDevice")
      \/ /\ Goto(p, "idle", "desktopProfile") /\ held' = [held EXCEPT ![p] = known]
  BY DEF RegisterDesktop
<1>3. Lone(p)
  BY <1>1, LoneBegins
<1>4. user \in Users /\ (user \in Load.users \/ user.id = fresh)
  <2>1. user \in Users
    BY UserOfTyped
  <2>2. user \in Load.users \/ user.id = fresh
    BY DEF UserOf
  <2> QED
    BY <2>1, <2>2
<1> HIDE DEF user
<1>5. known \in Content
  <2>1. Put(Load.users, user) \in SUBSET Users
    BY <1>4, Given, PutTyped DEF Content
  <2> QED
    BY <2>1, Given DEF Content
<1>6. /\ known.users = Put(Load.users, user) /\ known.profiles = Load.profiles
      /\ known.invites = Load.invites /\ known.devices = Load.devices
      /\ known.links = Load.links /\ known.codes = Load.codes /\ known.tokens = Load.tokens
  BY Given DEF Content
<1> HIDE DEF known
<1>7. fresh \in Nat /\ fresh + 1 \in Nat /\ fresh <= fresh + 1
  BY <1>3, LoneGiven
<1>8. Keyed(known.users, fresh + 1) /\ Keyed(known.profiles, fresh + 1)
  <2>1. Keyed(Load.users, fresh) /\ Keyed(Load.users, fresh + 1)
        /\ Keyed(Load.profiles, fresh + 1)
    BY <1>3, <1>7, LoneGiven, KeyedOf
  <2>2. user.id < fresh + 1
    BY <1>4, <1>7, <2>1 DEF Keyed, Users, Ids
  <2> QED
    BY <1>6, <1>7, <2>1, <2>2, KeyedPut
<1>9. Whole(known, fresh + 1, UsedInvites, revoked)
  BY <1>3, <1>5, <1>6, <1>7, <1>8, LoneGiven, WholeAdmission
<1>10. ASSUME crashes = 0, ~ Saving(p), NEW v \in admitted PROVE Eligible(known, v)
  <2>1. Eligible(Load, v) /\ Keyed(Load.users, fresh) /\ Load \in Content
    BY <1>3, <1>10, LoneGiven DEF Keeps, Whole, Numbered
  <2>2. user \in Load.users \/ user.id >= fresh
    BY <1>4, <1>7
  <2>3. \E x \in Put(Load.users, user) : x.id = v /\ x.eligible
    BY <1>4, <1>7, <2>1, <2>2, EligiblePut
  <2> QED
    BY <1>6, <2>3 DEF Eligible
<1>11. UNCHANGED <<redeemed, revoked>> /\ admitted' = admitted
  BY <1>1 DEF history
<1>12. ASSUME NEW q \in ProfileNames, Save(p, "idle", named(q), "desktopDevice")
       PROVE  SoloInv'
  <2>1. q < FirstFresh /\ q \in Nat /\ q < fresh + 1
    BY <1>3, <1>7, ProfileNamesAssumption, LoneGiven DEF FirstFresh
  <2>2. held'[p] = named(q) /\ ~ Saving(p)
    BY <1>12 DEF Save, Goto, Saving, AccountInv, TypeOK
  <2>3. named(q) \in Content
    BY <2>2 DEF AccountInv, TypeOK
  <2>4. Whole(named(q), fresh + 1, UsedInvites, revoked) /\ named(q).users = known.users
    <3>1. CASE \E x \in known.profiles : x.id = q
      BY <1>9, <3>1
    <3>2. CASE ~ \E x \in known.profiles : x.id = q
      <4> DEFINE x == default(q)
                 d == [known EXCEPT !.profiles = Put(@, x)]
      <4>1. named(q) = d
        BY <3>2
      <4>2. x.id = q
        OBVIOUS
      <4>3. /\ d.users = known.users /\ d.profiles = Put(known.profiles, x)
            /\ d.invites = known.invites /\ d.devices = known.devices
            /\ d.links = known.links /\ d.codes = known.codes /\ d.tokens = known.tokens
        BY <1>5 DEF Content
      <4> HIDE DEF x, d
      <4>4. Keyed(d.profiles, fresh + 1)
        BY <1>7, <1>8, <2>1, <4>2, <4>3, KeyedPut
      <4>5. \A y \in known.profiles : y \in d.profiles
        BY <3>2, <4>2, <4>3 DEF Put
      <4>6. d \in Content
        BY <2>3, <4>1
      <4>7. Whole(d, fresh + 1, UsedInvites, revoked)
        BY <1>5, <1>7, <1>8, <1>9, <4>3, <4>4, <4>5, <4>6, WholeAdmission
      <4> QED
        BY <4>1, <4>3, <4>7
    <3> QED
      BY <3>1, <3>2
  <2> HIDE DEF named
  <2>5. crashes = 0 => \A u \in admitted' : Eligible(named(q), u)
    BY <1>10, <1>11, <2>2, <2>4 DEF Eligible
  <2> QED
    BY <1>1, <1>3, <1>7, <1>11, <1>12, <2>4, <2>5, LoneSave DEF Steps
<1>13. ASSUME Goto(p, "idle", "desktopProfile"), held' = [held EXCEPT ![p] = known]
       PROVE  SoloInv'
  <2>1. /\ pc[p] = "idle" /\ pc'[p] = "desktopProfile" /\ held'[p] = known
        /\ \A q \in Processes : q # p => held'[q] = held[q]
    BY <1>13 DEF Goto, AccountInv, TypeOK
  <2>2. Aim(p)' = "desktopProfile" /\ ~ Saving(p)
    BY <2>1 DEF Aim, Saving
  <2>3. Load' = Load
    BY <1>1 DEF Load, disk
  <2>4. ReadsOK(p)'
    BY <1>6, <2>1, <2>2, <2>3 DEF ReadsOK, Issuing
  <2>5. crashes = 0 => Keeps(known)
    BY <1>10, <2>2 DEF Keeps
  <2> QED
    BY <1>1, <1>3, <1>7, <1>9, <1>13, <2>1, <2>2, <2>4, <2>5, LoneMove DEF Steps, Holding
<1> QED
  BY <1>2, <1>12, <1>13

LEMMA LoneDesktopProfile ==
  ASSUME AccountInv, AccountInv', SoloInv, NEW p \in Processes, DesktopProfile(p),
         ~ raced'
  PROVE  SoloInv'
<1>1. PICK q \in IF Owned(Load, call[p].user) # {} THEN Owned(Load, call[p].user)
                 ELSE {[id |-> fresh, user |-> call[p].user, device |-> None]} :
        Save(p, "desktopProfile", [held[p] EXCEPT !.profiles = Put(@, q)], "desktopDevice")
  BY DEF DesktopProfile
<1> DEFINE content == [held[p] EXCEPT !.profiles = Put(@, q)]
<1>2. /\ Save(p, "desktopProfile", content, "desktopDevice") /\ UNCHANGED disk
      /\ UNCHANGED history /\ fresh' = fresh + 1 /\ crashes' = crashes /\ raced' = raced
      /\ pc[p] = "desktopProfile" /\ held'[p] = content
  BY <1>1 DEF DesktopProfile, bounds, Save, Goto, AccountInv, TypeOK
<1>3. Lone(p)
  BY <1>2, LoneGoesOn
<1>4. /\ content.users = held[p].users /\ content.profiles = Put(held[p].profiles, q)
      /\ content.invites = held[p].invites /\ content.devices = held[p].devices
      /\ content.links = held[p].links /\ content.codes = held[p].codes
      /\ content.tokens = held[p].tokens
  BY Given DEF Content
<1>5. content \in Content
  BY <1>2 DEF AccountInv, TypeOK
<1> HIDE DEF content
<1>6. fresh \in Nat /\ fresh + 1 \in Nat /\ fresh <= fresh + 1
  BY <1>3, LoneGiven
<1>7. q \in held[p].profiles \/ q.id = fresh
  BY <1>1, <1>2, <1>3, LoneGiven DEF ReadsOK, Owned
<1>8. Keyed(held[p].profiles, fresh) /\ Keyed(held[p].profiles, fresh + 1)
      /\ Keyed(held[p].users, fresh + 1)
  BY <1>3, <1>6, LoneGiven, KeyedOf
<1>9. Keyed(content.profiles, fresh + 1) /\ held[p].profiles \subseteq content.profiles
  <2>1. CASE q \in held[p].profiles
    BY <1>4, <1>8, <2>1, PutKnown
  <2>2. CASE q.id = fresh
    BY <1>4, <1>6, <1>8, <2>2, KeyedPut, PutFresh
  <2> QED
    BY <1>7, <2>1, <2>2
<1>10. Whole(content, fresh + 1, UsedInvites, revoked)
  <2>1. \A y \in held[p].profiles : \E r \in content.profiles : r.id = y.id /\ r.user = y.user
    BY <1>9
  <2> QED
    BY <1>3, <1>4, <1>5, <1>6, <1>8, <1>9, <2>1, LoneGiven, WholeAdmission
<1>11. crashes = 0 => \A u \in admitted' : Eligible(content, u)
  BY <1>2, <1>3, <1>4, LoneGiven DEF Keeps, Eligible, history
<1>12. UNCHANGED <<redeemed, revoked>>
  BY <1>2 DEF history
<1> QED
  BY <1>2, <1>3, <1>6, <1>10, <1>11, <1>12, LoneSave DEF Steps

-----------------------------------------------------------------------------
(* One operation at a time: links verified, codes and tokens.              *)

LEMMA LoneVerify ==
  ASSUME AccountInv, AccountInv', SoloInv, NEW p \in Processes, Verify(p), ~ raced'
  PROVE  SoloInv'
<1>1. CASE Refuse(p, "verify")
  BY <1>1, LoneRefuse DEF Steps
<1>2. CASE ~ Refuse(p, "verify")
  <2>1. PICK owned : call' = [call EXCEPT ![p].owned = owned]
    BY <1>2 DEF Verify
  <2>2. /\ Goto(p, "verify", "verifyLinks")
        /\ UNCHANGED <<disk, after, held, fresh, bounds, history>>
    BY <1>2 DEF Verify
  <2>3. /\ pc[p] = "verify" /\ pc'[p] = "verifyLinks" /\ held' = held /\ fresh' = fresh
        /\ crashes' = crashes /\ raced' = raced /\ Load' = Load
    BY <2>2 DEF Goto, AccountInv, TypeOK, bounds, disk, Load
  <2>4. /\ call'[p].next = call[p].next /\ call'[p].profile = call[p].profile
        /\ call'[p].user = call[p].user
    BY <2>1, Given DEF Call
  <2>5. Lone(p)
    BY <2>3, LoneGoesOn
  <2>6. Aim(p)' = Aim(p) /\ Aim(p) = call[p].next
    BY <2>3, <2>4 DEF Aim
  <2>7. ReadsOK(p)'
    BY <2>3, <2>4, <2>5, <2>6, LoneGiven DEF ReadsOK
  <2>8. Aim(p)' \notin {"redeemed", "revoked"}
    BY <2>6, Given DEF Call
  <2> QED
    BY <2>2, <2>3, <2>5, <2>7, <2>8, LoneGiven, LoneMove DEF Steps, Holding
<1> QED
  BY <1>1, <1>2

LEMMA LoneVerifyLinks ==
  ASSUME AccountInv, AccountInv', SoloInv, NEW p \in Processes, VerifyLinks(p), ~ raced'
  PROVE  SoloInv'
<1>1. CASE Refuse(p, "verifyLinks")
  BY <1>1, LoneRefuse DEF Steps
<1>2. CASE ~ Refuse(p, "verifyLinks")
  <2> DEFINE to == call[p].next
  <2>1. PICK l \in Authorising(p) :
          call' = [call EXCEPT ![p].device = l.device, ![p].owned = {}, ![p].next = "none"]
    BY <1>2 DEF VerifyLinks
  <2>2. /\ Goto(p, "verifyLinks", to)
        /\ UNCHANGED <<disk, after, held, fresh, bounds, history>>
    BY <1>2 DEF VerifyLinks
  <2>3. /\ pc[p] = "verifyLinks" /\ pc'[p] = to /\ held' = held /\ fresh' = fresh
        /\ crashes' = crashes /\ raced' = raced /\ Load' = Load
    BY <2>2 DEF Goto, AccountInv, TypeOK, bounds, disk, Load
  <2>4. to \in {"issue", "exchange", "authorized"}
    BY <2>3, Given DEF Call, CallOK, Aim
  <2>5. /\ call'[p].device = l.device /\ call'[p].profile = call[p].profile
        /\ call'[p].user = call[p].user
    BY <2>1, Given DEF Call
  <2>6. Lone(p)
    BY <2>3, LoneGoesOn
  <2> HIDE DEF to
  <2>7. Aim(p)' = to /\ Aim(p) = to
    BY <2>3, <2>4 DEF Aim, to
  <2>8. to = "issue" => Named(call'[p]) \in Load.links
    <3> SUFFICES ASSUME to = "issue" PROVE Named(call'[p]) \in Load.links
      OBVIOUS
    <3>1. PICK q \in Load.profiles : q.id = call[p].profile /\ q.user = call[p].user
      BY <2>6, <2>7, LoneGiven DEF ReadsOK
    <3>2. l \in Load.links /\ l.profile = call[p].profile /\ l \in Links
      BY <2>1, Given DEF Authorising, Content
    <3>3. PICK r \in Load.profiles : r.id = l.profile /\ r.user = l.user
      BY <2>6, <3>2, LoneGiven DEF Whole, LinksOK
    <3>4. r = q
      BY <2>6, <3>1, <3>2, <3>3, LoneGiven DEF Whole, Numbered, Keyed
    <3>5. Named(call'[p]) = l
      BY <2>5, <3>1, <3>2, <3>3, <3>4 DEF Named, Links
    <3> QED
      BY <3>2, <3>5
  <2>9. ReadsOK(p)'
    <3>1. ReadsOK(p)
      BY <2>6, LoneGiven
    <3>2. to \in Issuing \cup {"exchange"} => held'[p] = Load'
      BY <2>3, <2>7, <3>1 DEF ReadsOK
    <3>3. to = "issue" => \E q \in Load'.profiles : q.id = call'[p].profile /\ q.user = call'[p].user
      BY <2>3, <2>5, <2>7, <3>1 DEF ReadsOK
    <3>4. to = "issue" => Named(call'[p]) \in Load'.links
      BY <2>3, <2>8
    <3> QED
      BY <2>3, <2>4, <2>7, <3>2, <3>3, <3>4 DEF ReadsOK
  <2>10. held'[p] # Empty => to \in Holding
    BY <2>4 DEF Holding
  <2> QED
    BY <2>2, <2>3, <2>4, <2>6, <2>7, <2>9, <2>10, LoneGiven, LoneMove DEF Steps
<1> QED
  BY <1>1, <1>2

LEMMA LoneIssueCode ==
  ASSUME AccountInv, AccountInv', SoloInv, NEW p \in Processes, NEW e \in Emails,
         IssueCode(p, e), ~ raced'
  PROVE  SoloInv'
<1>1. /\ Begin(p) /\ Goto(p, "idle", "issueUser") /\ held' = [held EXCEPT ![p] = Load]
      /\ UNCHANGED <<disk, after, fresh, history>> /\ crashes' = crashes
  BY DEF IssueCode, Begin
<1>2. Lone(p)
  BY <1>1, LoneBegins
<1>3. /\ pc'[p] = "issueUser" /\ held'[p] = Load /\ Load' = Load /\ fresh' = fresh
      /\ \A q \in Processes : q # p => held'[q] = held[q]
  BY <1>1 DEF Goto, AccountInv, TypeOK, disk, Load
<1>4. Aim(p)' = "issueUser"
  BY <1>3 DEF Aim
<1>5. ReadsOK(p)'
  BY <1>3, <1>4 DEF ReadsOK
<1> QED
  BY <1>1, <1>2, <1>3, <1>4, <1>5, LoneGiven, LoneMove DEF Steps, Holding

LEMMA LoneIssueUser ==
  ASSUME AccountInv, AccountInv', SoloInv, NEW p \in Processes, IssueUser(p), ~ raced'
  PROVE  SoloInv'
<1>1. CASE Refuse(p, "issueUser")
  BY <1>1, LoneRefuse DEF Steps
<1>2. CASE ~ Refuse(p, "issueUser")
  <2>1. /\ Goto(p, "issueUser", "issueProfile")
        /\ UNCHANGED <<disk, after, held, fresh, bounds, history>>
    BY <1>2 DEF IssueUser
  <2>2. /\ pc[p] = "issueUser" /\ pc'[p] = "issueProfile" /\ held' = held /\ fresh' = fresh
        /\ crashes' = crashes /\ raced' = raced /\ Load' = Load
    BY <2>1 DEF Goto, AccountInv, TypeOK, bounds, disk, Load
  <2>3. Lone(p)
    BY <2>2, LoneGoesOn
  <2>4. Aim(p)' = "issueProfile" /\ Aim(p) = "issueUser"
    BY <2>2 DEF Aim
  <2>5. ReadsOK(p)'
    BY <2>2, <2>3, <2>4, LoneGiven DEF ReadsOK, Issuing
  <2> QED
    BY <2>1, <2>2, <2>3, <2>4, <2>5, LoneGiven, LoneMove DEF Steps, Holding
<1> QED
  BY <1>1, <1>2

LEMMA LoneIssueProfile ==
  ASSUME AccountInv, AccountInv', SoloInv, NEW p \in Processes, IssueProfile(p), ~ raced'
  PROVE  SoloInv'
<1>1. CASE Refuse(p, "issueProfile")
  BY <1>1, LoneRefuse DEF Steps
<1>2. CASE ~ Refuse(p, "issueProfile")
  <2>1. PICK q \in OwnProfiles(p) :
          call' = [call EXCEPT ![p].profile = q.id, ![p].device = IF @ = None THEN q.device ELSE @]
    BY <1>2 DEF IssueProfile
  <2>2. /\ Goto(p, "issueProfile", "verify")
        /\ UNCHANGED <<disk, after, held, fresh, bounds, history>>
    BY <1>2 DEF IssueProfile
  <2>3. /\ pc[p] = "issueProfile" /\ pc'[p] = "verify" /\ held' = held /\ fresh' = fresh
        /\ crashes' = crashes /\ raced' = raced /\ Load' = Load
    BY <2>2 DEF Goto, AccountInv, TypeOK, bounds, disk, Load
  <2>4. Lone(p)
    BY <2>3, LoneGoesOn
  <2>5. /\ call'[p].profile = q.id /\ call'[p].user = call[p].user
        /\ call'[p].next = call[p].next
    BY <2>1, Given DEF Call
  <2>6. Aim(p)' = "issue" /\ Aim(p) = "issueProfile"
    BY <2>3, <2>5, Given DEF Aim, CallOK
  <2>7. held[p] = Load
    BY <2>4, <2>6, LoneGiven DEF ReadsOK, Issuing
  <2>8. q \in Load.profiles /\ q.user = call[p].user
    BY <2>1, <2>7 DEF OwnProfiles, Owned
  <2>9. ReadsOK(p)'
    BY <2>3, <2>5, <2>6, <2>7, <2>8 DEF ReadsOK
  <2> QED
    BY <2>2, <2>3, <2>4, <2>6, <2>9, LoneGiven, LoneMove DEF Steps, Holding
<1> QED
  BY <1>1, <1>2

LEMMA LoneIssueSave ==
  ASSUME AccountInv, AccountInv', SoloInv, NEW p \in Processes, IssueSave(p), ~ raced'
  PROVE  SoloInv'
<1> DEFINE code == [id |-> fresh, client |-> call[p].client, user |-> call[p].user,
                    profile |-> call[p].profile, device |-> call[p].device,
                    status |-> "open"]
           content == [held[p] EXCEPT !.codes = Put(@, code)]
<1>1. /\ Save(p, "issue", content, "idle") /\ UNCHANGED disk /\ UNCHANGED history
      /\ fresh' = fresh + 1 /\ crashes' = crashes /\ raced' = raced /\ pc[p] = "issue"
      /\ held'[p] = content
  BY DEF IssueSave, bounds, Save, Goto, AccountInv, TypeOK
<1>2. Lone(p)
  BY <1>1, LoneGoesOn
<1>3. held[p] = Load /\ Named(call[p]) \in Load.links
  BY <1>1, <1>2, LoneGiven DEF ReadsOK, Aim, Issuing
<1>4. Named(code) \in held[p].links
  BY <1>3 DEF Named
<1>5. content.users = held[p].users /\ content \in Content
  <2>1. content.users = held[p].users
    BY Given DEF Content
  <2>2. content \in Content
    BY <1>1 DEF AccountInv, TypeOK
  <2> QED
    BY <2>1, <2>2
<1>6. Whole(content, fresh, UsedInvites, revoked)
  <2> HIDE DEF code
  <2> QED
    BY <1>2, <1>4, LoneGiven, WholeCode
<1> HIDE DEF content
<1>7. Whole(content, fresh + 1, UsedInvites, revoked)
  BY <1>2, <1>5, <1>6, LoneGiven, WholeGrows
<1>8. crashes = 0 => \A u \in admitted' : Eligible(content, u)
  BY <1>1, <1>2, <1>3, <1>5, LoneGiven DEF Keeps, Eligible, history, Saving
<1>9. fresh <= fresh' /\ UNCHANGED <<redeemed, revoked>>
  BY <1>1, <1>2, LoneGiven DEF history
<1> QED
  BY <1>1, <1>2, <1>7, <1>8, <1>9, LoneSave DEF Steps

LEMMA LoneExchangeCode ==
  ASSUME AccountInv, AccountInv', SoloInv, NEW p \in Processes, ExchangeCode(p), ~ raced'
  PROVE  SoloInv'
<1>1. /\ Begin(p) /\ UNCHANGED <<disk, fresh, history>> /\ crashes' = crashes
  BY DEF ExchangeCode, Begin
<1>2. PICK k \in OpenCodes(Load) :
        \/ Save(p, "idle", [Load EXCEPT !.codes =
                              Put(@, [k EXCEPT !.status = "expired"])], "idle")
        \/ /\ Goto(p, "idle", "verify")
           /\ held' = [held EXCEPT ![p] = Load]
           /\ call' = [call EXCEPT ![p] =
                [@ EXCEPT !.key = k.id, !.profile = k.profile, !.device = k.device,
                          !.next = "exchange"]]
  BY DEF ExchangeCode
<1>3. Lone(p) /\ fresh' = fresh
  BY <1>1, LoneBegins
<1>4. ASSUME Save(p, "idle", [Load EXCEPT !.codes =
                                Put(@, [k EXCEPT !.status = "expired"])], "idle")
      PROVE  SoloInv'
  <2> DEFINE j == [k EXCEPT !.status = "expired"]
             content == [Load EXCEPT !.codes = Put(@, j)]
  <2>1. Save(p, "idle", content, "idle") /\ content.users = Load.users /\ ~ Saving(p)
    BY <1>4, Given DEF Content, Save, Goto, Saving
  <2>2. j.status # "open"
    BY Given DEF OpenCodes, Content, Codes
  <2>3. Whole(content, fresh, UsedInvites, revoked)
    <3> HIDE DEF j
    <3> QED
      BY <1>3, <2>2, LoneGiven, WholeCode
  <2> HIDE DEF content
  <2>4. crashes = 0 => \A u \in admitted' : Eligible(content, u)
    BY <1>1, <1>3, <2>1, LoneGiven DEF Keeps, Eligible, history
  <2>5. fresh <= fresh' /\ UNCHANGED <<redeemed, revoked>>
    BY <1>1, <1>3, LoneGiven DEF history
  <2> QED
    BY <1>1, <1>3, <2>1, <2>3, <2>4, <2>5, LoneSave DEF Steps
<1>5. ASSUME Goto(p, "idle", "verify"), held' = [held EXCEPT ![p] = Load],
             call' = [call EXCEPT ![p] =
                [@ EXCEPT !.key = k.id, !.profile = k.profile, !.device = k.device,
                          !.next = "exchange"]]
      PROVE  SoloInv'
  <2>1. /\ pc'[p] = "verify" /\ held'[p] = Load /\ Load' = Load
        /\ \A q \in Processes : q # p => held'[q] = held[q]
    BY <1>1, <1>5 DEF Goto, AccountInv, TypeOK, disk, Load
  <2>2. call'[p].next = "exchange"
    BY <1>5, Given DEF Call
  <2>3. Aim(p)' = "exchange"
    BY <2>1, <2>2 DEF Aim
  <2>4. ReadsOK(p)'
    BY <2>1, <2>3 DEF ReadsOK
  <2>5. fresh <= fresh'
    BY <1>1, <1>3, LoneGiven
  <2> QED
    BY <1>1, <1>3, <1>5, <2>1, <2>3, <2>4, <2>5, LoneGiven, LoneMove DEF Steps, Holding
<1> QED
  BY <1>2, <1>4, <1>5

LEMMA LoneExchangeSave ==
  ASSUME AccountInv, AccountInv', SoloInv, NEW p \in Processes, ExchangeSave(p), ~ raced'
  PROVE  SoloInv'
<1>1. PICK k \in held[p].codes :
        /\ k.id = call[p].key
        /\ LET token == [id |-> fresh, client |-> k.client, user |-> k.user,
                         profile |-> k.profile, device |-> k.device,
                         status |-> "active", code |-> k.id]
           IN Save(p, "exchange",
                [held[p] EXCEPT !.codes = Put(@, [k EXCEPT !.status = "redeemed"]),
                                !.tokens = Put(@, token)], "idle")
  BY DEF ExchangeSave
<1> DEFINE token == [id |-> fresh, client |-> k.client, user |-> k.user,
                     profile |-> k.profile, device |-> k.device,
                     status |-> "active", code |-> k.id]
           j == [k EXCEPT !.status = "redeemed"]
           marked == [held[p] EXCEPT !.codes = Put(@, j)]
           content == [marked EXCEPT !.tokens = Put(@, token)]
<1>2. Save(p, "exchange", content, "idle")
  <2>1. content = [held[p] EXCEPT !.codes = Put(@, j), !.tokens = Put(@, token)]
    BY Given DEF Content
  <2> QED
    BY <1>1, <2>1
<1>3. /\ UNCHANGED disk /\ UNCHANGED history /\ fresh' = fresh + 1 /\ crashes' = crashes
      /\ raced' = raced /\ pc[p] = "exchange" /\ held'[p] = content
  BY <1>2 DEF ExchangeSave, bounds, Save, Goto, AccountInv, TypeOK
<1>4. Lone(p)
  BY <1>3, LoneGoesOn
<1>5. k.status = "open"
  <2>1. PICK i \in held[p].codes : i.id = call[p].key /\ i.status = "open"
    BY <1>3, Given DEF CallOK, Aim
  <2> QED
    BY <1>1, <2>1, Given DEF Sound, CodesOK
<1>6. j \in Codes /\ j.status # "open"
  BY Given DEF Content, Codes
<1>7. Named(token) = Named(k) /\ Named(k) \in held[p].links
  BY <1>4, <1>5, LoneGiven DEF Named, Whole, GrantsOK
<1>8. token.id = fresh
  OBVIOUS
<1>9. marked \in Content /\ marked.links = held[p].links /\ marked.users = held[p].users
  <2>1. Put(held[p].codes, j) \in SUBSET Codes
    BY <1>6, Given, PutTyped DEF Content
  <2> QED
    BY <2>1, Given DEF Content
<1>10. content.users = held[p].users
  BY <1>9 DEF Content
<1>11. Whole(marked, fresh, UsedInvites, revoked)
  <2> HIDE DEF j
  <2> QED
    BY <1>4, <1>6, LoneGiven, WholeCode
<1> HIDE DEF j, token, marked
<1>12. Whole(content, fresh + 1, UsedInvites, revoked)
  <2>1. fresh \in Nat /\ fresh + 1 \in Nat /\ fresh <= fresh + 1 /\ fresh < fresh + 1
        /\ fresh \notin revoked
    BY <1>4, LoneGiven
  <2>2. Whole(marked, fresh + 1, UsedInvites, revoked)
    BY <1>9, <1>11, <2>1, WholeGrows
  <2>3. Named(token) \in marked.links
    BY <1>7, <1>9
  <2> QED
    BY <1>8, <1>9, <2>1, <2>2, <2>3, WholeToken
<1> HIDE DEF content
<1>13. held[p] = Load
  BY <1>3, <1>4, LoneGiven DEF ReadsOK, Aim
<1>14. crashes = 0 => \A u \in admitted' : Eligible(content, u)
  BY <1>3, <1>4, <1>10, <1>13, LoneGiven DEF Keeps, Eligible, history, Saving
<1>15. fresh <= fresh' /\ UNCHANGED <<redeemed, revoked>>
  BY <1>3, <1>4, LoneGiven DEF history
<1> QED
  BY <1>2, <1>3, <1>4, <1>12, <1>14, <1>15, LoneSave DEF Steps

LEMMA LoneResolveToken ==
  ASSUME AccountInv, AccountInv', SoloInv, NEW p \in Processes, ResolveToken(p), ~ raced'
  PROVE  SoloInv'
<1>1. /\ Begin(p) /\ UNCHANGED <<disk, fresh, history>> /\ crashes' = crashes
  BY DEF ResolveToken, Begin
<1>2. PICK t \in ActiveTokens(Load) :
        \/ Save(p, "idle", [Load EXCEPT !.tokens =
                              Put(@, [t EXCEPT !.status = "expired"])], "idle")
        \/ /\ Goto(p, "idle", "verify")
           /\ call' = [call EXCEPT ![p] =
                [@ EXCEPT !.key = t.id, !.profile = t.profile, !.device = t.device,
                          !.next = "authorized"]]
           /\ UNCHANGED <<after, held>>
  BY DEF ResolveToken
<1>3. Lone(p) /\ fresh' = fresh
  BY <1>1, LoneBegins
<1>4. ASSUME Save(p, "idle", [Load EXCEPT !.tokens =
                                Put(@, [t EXCEPT !.status = "expired"])], "idle")
      PROVE  SoloInv'
  <2> DEFINE s == [t EXCEPT !.status = "expired"]
             content == [Load EXCEPT !.tokens = Put(@, s)]
  <2>1. Save(p, "idle", content, "idle") /\ content.users = Load.users /\ ~ Saving(p)
    BY <1>4, Given DEF Content, Save, Goto, Saving
  <2>2. /\ t \in Load.tokens /\ t.status = "active" /\ t.id < fresh /\ t.id \notin revoked
    BY <1>3, LoneGiven DEF ActiveTokens, Whole, Numbered, Keyed, SpentIn
  <2>3. s.status = "expired" /\ s.id = t.id
    BY <2>2, Given DEF Content, Tokens
  <2>4. Whole(content, fresh, UsedInvites, revoked)
    <3> HIDE DEF s
    <3> QED
      BY <1>3, <2>2, <2>3, LoneGiven, WholeToken
  <2> HIDE DEF content
  <2>5. crashes = 0 => \A u \in admitted' : Eligible(content, u)
    BY <1>1, <1>3, <2>1, LoneGiven DEF Keeps, Eligible, history
  <2>6. fresh <= fresh' /\ UNCHANGED <<redeemed, revoked>>
    BY <1>1, <1>3, LoneGiven DEF history
  <2> QED
    BY <1>1, <1>3, <2>1, <2>4, <2>5, <2>6, LoneSave DEF Steps
<1>5. ASSUME Goto(p, "idle", "verify"), UNCHANGED held,
             call' = [call EXCEPT ![p] =
                [@ EXCEPT !.key = t.id, !.profile = t.profile, !.device = t.device,
                          !.next = "authorized"]]
      PROVE  SoloInv'
  <2>1. pc[p] = "idle" /\ pc'[p] = "verify"
    BY <1>5 DEF Goto, AccountInv, TypeOK
  <2>2. call'[p].next = "authorized"
    BY <1>5, Given DEF Call
  <2>3. Aim(p)' = "authorized"
    BY <2>1, <2>2 DEF Aim
  <2>4. ReadsOK(p)'
    BY <2>1, <2>3 DEF ReadsOK, Issuing
  <2>5. fresh <= fresh' /\ held'[p] = Empty
    BY <1>3, <1>5, <2>1, LoneGiven DEF Holding
  <2> QED
    BY <1>1, <1>3, <1>5, <2>3, <2>4, <2>5, LoneMove, WholeEmpty DEF Steps
<1> QED
  BY <1>2, <1>4, <1>5

LEMMA LoneRevokeToken ==
  ASSUME AccountInv, AccountInv', SoloInv, NEW p \in Processes, RevokeToken(p), ~ raced'
  PROVE  SoloInv'
<1>1. /\ Begin(p) /\ UNCHANGED <<disk, fresh, history>> /\ crashes' = crashes
  BY DEF RevokeToken, Begin
<1>2. PICK t \in Load.tokens :
        /\ Save(p, "idle", [Load EXCEPT !.tokens =
                             Put(@, [t EXCEPT !.status = "revoked"])], "revoked")
        /\ call' = [call EXCEPT ![p].key = t.id]
  BY DEF RevokeToken
<1> DEFINE s == [t EXCEPT !.status = "revoked"]
           content == [Load EXCEPT !.tokens = Put(@, s)]
<1>3. Lone(p) /\ fresh' = fresh
  BY <1>1, LoneBegins
<1>4. Save(p, "idle", content, "revoked") /\ content.users = Load.users /\ ~ Saving(p)
  BY <1>2, Given DEF Content, Save, Goto, Saving
<1>5. t.id < fresh
  BY <1>3, LoneGiven DEF Whole, Numbered, Keyed
<1>6. s.status = "revoked" /\ s.id = t.id
  BY Given DEF Content, Tokens
<1>7. content.tokens = Put(Load.tokens, s)
  BY Given DEF Content
<1>8. Whole(content, fresh, UsedInvites, revoked)
  <2> HIDE DEF s
  <2> QED
    BY <1>3, <1>5, <1>6, LoneGiven, WholeToken
<1>9. call'[p].key = t.id
  BY <1>2, Given DEF Call
<1> HIDE DEF content, s
<1>10. SpentIn(content, {}, {t.id})
  BY <1>6, <1>7 DEF SpentIn, Put
<1>11. crashes = 0 => \A u \in admitted' : Eligible(content, u)
  BY <1>1, <1>3, <1>4, LoneGiven DEF Keeps, Eligible, history
<1>12. fresh <= fresh' /\ UNCHANGED <<redeemed, revoked>>
  BY <1>1, <1>3, LoneGiven DEF history
<1> QED
  BY <1>1, <1>3, <1>4, <1>5, <1>8, <1>9, <1>10, <1>11, <1>12, LoneSave DEF Steps

-----------------------------------------------------------------------------
(* One operation at a time: the specification.                             *)

(* What earlier operations leave is whole, and keeps its user eligible.    *)
LEMMA WholeEnrolled ==
  ASSUME NEW e \in Emails
  PROVE  Whole(Enrolled(e), FirstFresh, {}, {}) /\ Eligible(Enrolled(e), 1)
<1> DEFINE c == Enrolled(e)
           code(i, s) == [id |-> i, client |-> 6, user |-> 1, profile |-> 4, device |-> 5,
                          status |-> s]
           token == [id |-> 9, client |-> 6, user |-> 1, profile |-> 4, device |-> 5,
                     status |-> "active", code |-> 7]
           link == [user |-> 1, profile |-> 4, device |-> 5]
<1>1. /\ c.users = {[id |-> 1, email |-> e, eligible |-> TRUE]}
      /\ c.profiles = {[id |-> 4, user |-> 1, device |-> 5]}
      /\ c.devices = {[id |-> 5, user |-> 1]}
      /\ c.links = {link}
      /\ c.codes = {code(7, "redeemed"), code(8, "open")}
      /\ c.tokens = {token}
  BY DEF Enrolled
<1> HIDE DEF c
<1>2. Numbered(c, FirstFresh)
  BY <1>1 DEF Numbered, Keyed, FirstFresh
<1>3. LinksOK(c)
  BY <1>1 DEF LinksOK
<1>4. GrantsOK(c)
  <2>1. Named(code(7, "redeemed")) = link /\ Named(code(8, "open")) = link /\ Named(token) = link
    BY DEF Named
  <2> QED
    BY <1>1, <2>1 DEF GrantsOK
<1>5. SpentIn(c, {}, {})
  BY DEF SpentIn
<1>6. Eligible(c, 1)
  BY <1>1 DEF Eligible
<1>7. Whole(c, FirstFresh, {}, {})
  BY <1>2, <1>3, <1>4, <1>5 DEF Whole
<1> QED
  BY <1>6, <1>7 DEF c

LEMMA SoloInit == Init => SoloInv
<1> SUFFICES ASSUME Init PROVE SoloInv
  OBVIOUS
<1>1. /\ mixed = {} /\ redeemed = {} /\ revoked = {} /\ fresh = FirstFresh /\ ~ torn
      /\ \A p \in Processes : pc[p] = "idle" /\ held[p] = Empty
  BY DEF Init
<1>2. Whole(file, fresh, {}, {}) /\ Keeps(file)
  <2>1. CASE file = Empty /\ admitted = {}
    BY <2>1, WholeEmpty DEF Keeps
  <2>2. CASE \E e \in Emails : file = Enrolled(e) /\ admitted = {1}
    BY <1>1, <2>2, WholeEnrolled DEF Keeps
  <2> QED
    BY <2>1, <2>2 DEF Init
<1>3. UsedInvites = {}
  BY <1>1 DEF UsedInvites
<1>4. \A c \in Contents : Whole(c, fresh, UsedInvites, revoked)
  BY <1>1, <1>2, <1>3, WholeEmpty DEF Contents
<1>5. \A p \in Processes : ReadsOK(p) /\ AnswerOK(p)
  <2> SUFFICES ASSUME NEW p \in Processes PROVE ReadsOK(p) /\ AnswerOK(p)
    OBVIOUS
  <2>1. Aim(p) = "idle" /\ pc[p] = "idle"
    BY <1>1 DEF Aim
  <2> QED
    BY <2>1 DEF ReadsOK, AnswerOK, Issuing
<1>6. FirstFresh <= fresh
  BY <1>1 DEF FirstFresh
<1> QED
  BY <1>1, <1>2, <1>4, <1>5, <1>6 DEF SoloInv

LEMMA SoloNext == AccountInv /\ AccountInv' /\ SoloInv /\ [Next]_vars => SoloInv'
<1> SUFFICES ASSUME AccountInv, AccountInv', SoloInv, [Next]_vars, ~ raced'
             PROVE  SoloInv'
  BY DEF SoloInv
<1>1. CASE UNCHANGED vars
  <2>1. /\ UNCHANGED <<file, torn, mixed, pc, after, held, call, fresh, crashes, raced,
                       admitted, redeemed, revoked>>
    BY <1>1 DEF vars, disk, private, bounds, history
  <2> QED
    BY <2>1 DEF SoloInv, Contents, Whole, UsedInvites, ReadsOK, AnswerOK, Aim, Load,
                Pending, Saving, Keeps
<1>2. ASSUME NEW p \in Processes, Called(p) PROVE SoloInv'
  BY <1>2, LoneIssueInvite, LoneRegisterClient, LoneSetRemoteHostBash, LoneExchangeCode,
     LoneResolveToken, LoneRevokeToken, LoneRedeemInvite, LonePair, LoneRegisterDesktop,
     LoneIssueCode DEF Called
<1>3. ASSUME NEW p \in Processes, Proceed(p) PROVE SoloInv'
  BY <1>3, LoneTruncate, LoneWrite, LoneAnswered, LoneRevoked, LoneAuthorised,
     LonePairProfile, LonePairUser, LoneRegisterDevice, LoneDesktopProfile, LoneLinkDevice,
     LoneVerify, LoneVerifyLinks, LoneIssueUser, LoneIssueProfile, LoneIssueSave,
     LoneExchangeSave DEF Proceed
<1>4. ASSUME NEW p \in Processes, Crash(p) PROVE SoloInv'
  BY <1>4, LoneCrash
<1> QED
  BY <1>1, <1>2, <1>3, <1>4 DEF Next

(* As long as no operation has overlapped another, each content is whole,   *)
(* and what a call holds or is about to answer is what is on file.         *)
THEOREM SoloInvariant == Spec => []SoloInv
<1>1. Init => AccountInv /\ SoloInv
  BY InitKeeps, SoloInit
<1>2. AccountInv /\ SoloInv /\ [Next]_vars => (AccountInv /\ SoloInv)'
  BY NextKeeps, SoloNext
<1> QED
  BY <1>1, <1>2, PTL DEF Spec

(* Then a link ties a device to a profile of its user, and whatever is in   *)
(* force names such a link, wherever operations crash between their saves.  *)
THEOREM GrantsAreBound == Spec => []BoundToLink
<1>1. AccountInv /\ SoloInv => BoundToLink
  <2> SUFFICES ASSUME AccountInv, SoloInv, ~ raced PROVE BoundToLink
    BY DEF BoundToLink
  <2>1. LinksOK(file) /\ GrantsOK(file) /\ file \in Content
    BY DEF SoloInv, Contents, Whole, AccountInv, TypeOK
  <2>2. \A k \in file.codes : k.status \in {"open", "redeemed", "expired"}
    BY <2>1 DEF Content, Codes
  <2>3. \A t \in file.tokens : t.status \in {"active", "revoked", "expired"}
    BY <2>1 DEF Content, Tokens
  <2> QED
    BY <2>1, <2>2, <2>3 DEF LinksOK, GrantsOK, Named, BoundToLink
<1> QED
  BY <1>1, AccountInvariant, SoloInvariant, PTL

(* Then no invite is answered "ok" twice, ...                              *)
THEOREM InvitesServeOnce == Spec => []InviteOnce
<1>1. SoloInv => InviteOnce
  BY DEF SoloInv, InviteOnce
<1> QED
  BY <1>1, SoloInvariant, PTL

(* ... a token whose revocation was answered is never active again, ...     *)
THEOREM RevocationsLast == Spec => []RevocationLasts
<1>1. SoloInv => RevocationLasts
  BY DEF SoloInv, Contents, Whole, SpentIn, RevocationLasts
<1> QED
  BY <1>1, SoloInvariant, PTL

(* ... and without a crash everybody admitted stays eligible.              *)
THEOREM AdmittedAreKept == Spec => []AdmittedStay
<1>1. SoloInv => AdmittedStay
  BY DEF SoloInv, Saving, Keeps, Quiet, AdmittedStay
<1> QED
  BY <1>1, SoloInvariant, PTL
=============================================================================
