------------------------ MODULE AccountControlPlane ------------------------
(***************************************************************************)
(* The account registry: astrata/accounts/service.py.  Users, invites,     *)
(* relay profiles, devices, their links, OAuth clients, authorization      *)
(* codes and access tokens are kept in one JSON file.  Every operation     *)
(* reads the whole file, changes it in memory and writes it back, and      *)
(* operations of several processes overlap: the web server's handlers,     *)
(* which run one after the other, the request threads of the desktop UI,   *)
(* and the account commands of main.py.  Path.write_text truncates the     *)
(* file before it writes, and _load takes a file it cannot parse for an    *)
(* empty one.                                                              *)
(*                                                                         *)
(* A call that is refused returns without a change, and is not a step.     *)
(* Record fields no operation ever changes (a device's or a link's         *)
(* "active", a client's) are left out, with the guards that read them.     *)
(***************************************************************************)
EXTENDS Naturals

CONSTANTS
  Emails,        \* the people
  Processes,     \* the web server, UI threads and commands
  ProfileNames,  \* profile ids a desktop may ask to be registered under
  MaxCalls,      \* bound on the operations begun
  MaxCrashes     \* bound on the crashes

(* Ids are positive numbers, 0 is Python's None; the ids an episode mints   *)
(* are FirstFresh and up.                                                   *)
None == 0
Ids  == Nat \ {0}
FirstFresh == 10

ASSUME EmailsAssumption == Emails # {}
ASSUME ProfileNamesAssumption == ProfileNames \subseteq 1 .. FirstFresh - 1

Users    == [id: Ids, email: Emails, eligible: BOOLEAN]
Invites  == [id: Ids, status: {"open", "redeemed"}, by: Nat]
Profiles == [id: Ids, user: Ids, device: Nat]
Devices  == [id: Ids, user: Ids]
Links    == [user: Ids, profile: Ids, device: Ids]
Codes    == [id: Ids, client: Ids, user: Ids, profile: Ids, device: Ids,
             status: {"open", "redeemed", "expired"}]
(* `code` is history: the code a token was exchanged for is not stored.    *)
Tokens   == [id: Ids, client: Ids, user: Ids, profile: Ids, device: Ids,
             status: {"active", "revoked", "expired"}, code: Ids]

Content == [users: SUBSET Users, invites: SUBSET Invites, profiles: SUBSET Profiles,
            devices: SUBSET Devices, links: SUBSET Links, clients: SUBSET Ids,
            codes: SUBSET Codes, tokens: SUBSET Tokens]

Empty == [users |-> {}, invites |-> {}, profiles |-> {}, devices |-> {},
          links |-> {}, clients |-> {}, codes |-> {}, tokens |-> {}]

(* dict[x.id] = x                                                          *)
Put(S, x) == {y \in S : y.id # x.id} \cup {x}

(* What a call carries with it from one of its reads to the next.          *)
Call == [user: Nat, profile: Nat, device: Nat, client: Nat, key: Nat, email: Emails,
         owned: SUBSET Ids, next: {"none", "issue", "exchange", "authorized"}]

Someone == CHOOSE e \in Emails : TRUE
NoCall == [user |-> None, profile |-> None, device |-> None, client |-> None, key |-> None,
           email |-> Someone, owned |-> {}, next |-> "none"]

Steps == {"idle", "truncate", "write", "redeemed", "revoked", "pairProfile", "pairUser",
          "pairDevice", "link", "desktopProfile", "desktopDevice", "issueUser",
          "issueProfile", "verify", "verifyLinks", "issue", "exchange", "authorized"}

VARIABLES
  file,      \* the last content written
  torn,      \* the file does not hold a parsable text
  mixed,     \* processes in whose write another one has written meanwhile
  pc,        \* pc[p]: where process p is
  after,     \* after[p]: where p goes once its save is done
  held,      \* held[p]: the content p has read and is going to save
  call,      \* call[p]: what p's call carries
  fresh,     \* the next id: uuid4 and token_urlsafe never repeat one
  calls,     \* operations begun, at most MaxCalls
  crashes,   \* crashes, at most MaxCrashes
  raced,     \* history: an operation began while another was under way
  admitted,  \* history: users some operation has made eligible
  redeemed,  \* history: <<invite, user>> of the redemptions answered "ok"
  revoked    \* history: tokens whose revocation was answered "ok"

disk    == <<file, torn, mixed>>
private == <<pc, after, held, call>>
bounds  == <<calls, crashes, raced>>
history == <<admitted, redeemed, revoked>>
vars    == <<disk, private, fresh, bounds, history>>

(* What earlier operations leave: e was invited, has paired a desktop and   *)
(* signed a connector in; one invite and one code are still open.           *)
Enrolled(e) ==
  LET code(i, s) == [id |-> i, client |-> 6, user |-> 1, profile |-> 4, device |-> 5,
                     status |-> s]
  IN [users    |-> {[id |-> 1, email |-> e, eligible |-> TRUE]},
      invites  |-> {[id |-> 2, status |-> "redeemed", by |-> 1],
                    [id |-> 3, status |-> "open", by |-> None]},
      profiles |-> {[id |-> 4, user |-> 1, device |-> 5]},
      devices  |-> {[id |-> 5, user |-> 1]},
      links    |-> {[user |-> 1, profile |-> 4, device |-> 5]},
      clients  |-> {6},
      codes    |-> {code(7, "redeemed"), code(8, "open")},
      tokens   |-> {[id |-> 9, client |-> 6, user |-> 1, profile |-> 4, device |-> 5,
                     status |-> "active", code |-> 7]}]

Init ==
  /\ \/ file = Empty /\ admitted = {}
     \/ \E e \in Emails : file = Enrolled(e) /\ admitted = {1}
  /\ fresh = FirstFresh
  /\ torn = FALSE /\ mixed = {}
  /\ pc = [p \in Processes |-> "idle"]
  /\ after = [p \in Processes |-> "idle"]
  /\ held = [p \in Processes |-> Empty]
  /\ call = [p \in Processes |-> NoCall]
  /\ calls = 0 /\ crashes = 0 /\ raced = FALSE
  /\ redeemed = {} /\ revoked = {}

-----------------------------------------------------------------------------
(* _load and _save.                                                        *)

Load == IF torn THEN Empty ELSE file

Goto(p, from, to) == pc[p] = from /\ pc' = [pc EXCEPT ![p] = to]

(* The content to be saved is settled here, and written by the two steps    *)
(* below; then p goes on at `to`.                                           *)
Save(p, from, content, to) ==
  /\ Goto(p, from, "truncate")
  /\ held' = [held EXCEPT ![p] = content]
  /\ after' = [after EXCEPT ![p] = to]

Truncate(p) ==
  /\ Goto(p, "truncate", "write")
  /\ torn' = TRUE
  /\ UNCHANGED <<file, mixed, after, held, call, fresh, bounds, history>>

(* When another process has written the file since it was truncated, the    *)
(* longer text of the two leaves its tail behind, or does not.              *)
Write(p) ==
  /\ Goto(p, "write", after[p])
  /\ file' = held[p]
  /\ torn' \in (IF p \in mixed THEN BOOLEAN ELSE {FALSE})
  /\ mixed' = (mixed \cup {q \in Processes : pc[q] = "write"}) \ {p}
  /\ held' = [held EXCEPT ![p] = Empty]
  /\ after' = [after EXCEPT ![p] = "idle"]
  /\ call' = IF after[p] = "idle" THEN [call EXCEPT ![p] = NoCall] ELSE call
  /\ UNCHANGED <<fresh, bounds, history>>

(* A call that has returned, or has died.                                   *)
Leave(p) ==
  /\ pc' = [pc EXCEPT ![p] = "idle"]
  /\ held' = [held EXCEPT ![p] = Empty]
  /\ call' = [call EXCEPT ![p] = NoCall]

(* The call is refused at one of its reads: nothing has been saved since.   *)
Refuse(p, from) ==
  /\ pc[p] = from
  /\ Leave(p)
  /\ UNCHANGED <<disk, after, fresh, bounds, history>>

Begin(p) ==
  /\ calls < MaxCalls
  /\ calls' = calls + 1
  /\ raced' = (raced \/ \E q \in Processes \ {p} : pc[q] # "idle")
  /\ UNCHANGED crashes

-----------------------------------------------------------------------------
(* Invites and users.                                                      *)

IssueInvite(p) ==
  /\ Begin(p)
  /\ Save(p, "idle", [Load EXCEPT !.invites =
                        Put(@, [id |-> fresh, status |-> "open", by |-> None])], "idle")
  /\ fresh' = fresh + 1
  /\ UNCHANGED <<disk, call, history>>

(* Faults: a new record gets no id; a known one is rebuilt from defaults.   *)
UserWithoutId(c, e) ==
  IF \E u \in c.users : u.email = e
  THEN CHOOSE u \in c.users : u.email = e
  ELSE [id |-> None, email |-> e, eligible |-> FALSE]
UserRebuilt(c, e) ==
  [id |-> IF \E u \in c.users : u.email = e
          THEN (CHOOSE u \in c.users : u.email = e).id ELSE fresh,
   email |-> e, eligible |-> FALSE]

(* The user of an e-mail address, its record or the one to be created.      *)
UserOf(c, e) ==
  IF \E u \in c.users : u.email = e
  THEN CHOOSE u \in c.users : u.email = e
  ELSE [id |-> fresh, email |-> e, eligible |-> FALSE]

(* Fault: a used invite serves again.                                       *)
AnyInvite(c) == c.invites
OpenInvites(c) == {i \in c.invites : i.status = "open"}

Owned(c, u) == {q \in c.profiles : q.user = u}

(* redeem_invite_code: the invite is used up, its user made eligible and    *)
(* given a profile, all in one rewrite.                                     *)
RedeemInvite(p, e) ==
  /\ Begin(p)
  /\ \E i \in OpenInvites(Load) :
       LET user == [UserOf(Load, e) EXCEPT !.eligible = TRUE]
           default == [id |-> fresh + 1, user |-> user.id, device |-> None]
       IN /\ Save(p, "idle",
               [Load EXCEPT !.users = Put(@, user),
                            !.invites = Put(@, [i EXCEPT !.status = "redeemed", !.by = user.id]),
                            !.profiles = IF Owned(Load, user.id) = {} THEN Put(@, default) ELSE @],
               "redeemed")
          /\ call' = [call EXCEPT ![p].user = user.id, ![p].key = i.id]
          /\ admitted' = admitted \cup {user.id}
  /\ fresh' = fresh + 2
  /\ UNCHANGED <<disk, redeemed, revoked>>

RedemptionAnswered(p) ==
  /\ pc[p] = "redeemed"
  /\ redeemed' = redeemed \cup {<<call[p].key, call[p].user>>}
  /\ Leave(p)
  /\ UNCHANGED <<disk, after, fresh, bounds, admitted, revoked>>

-----------------------------------------------------------------------------
(* pair_device_for_user: user_for_email, default_relay_profile_for_user,    *)
(* register_device and link_device_to_profile each read the file anew.      *)

Pair(p, e) ==
  /\ Begin(p)
  /\ \E u \in Load.users : u.email = e /\ call' = [call EXCEPT ![p].user = u.id]
  /\ Goto(p, "idle", "pairProfile")
  /\ UNCHANGED <<disk, after, held, fresh, history>>

(* Which of several profiles is the first in the file is left open.         *)
PairProfile(p) ==
  \/ /\ \E q \in Owned(Load, call[p].user) : call' = [call EXCEPT ![p].profile = q.id]
     /\ Goto(p, "pairProfile", "pairUser")
     /\ UNCHANGED <<disk, after, held, fresh, bounds, history>>
  \/ Owned(Load, call[p].user) = {} /\ Refuse(p, "pairProfile")

(* _resolve_user of register_device.                                        *)
Eligible(c, u) == \E x \in c.users : x.id = u /\ x.eligible

PairUser(p) ==
  \/ /\ Eligible(Load, call[p].user)
     /\ Goto(p, "pairUser", "pairDevice")
     /\ UNCHANGED <<disk, after, held, call, fresh, bounds, history>>
  \/ ~ Eligible(Load, call[p].user) /\ Refuse(p, "pairUser")

(* The device is added; the same in register_desktop_device, which asks no  *)
(* eligibility.                                                             *)
RegisterDevice(p, from) ==
  /\ Save(p, from, [Load EXCEPT !.devices =
                      Put(@, [id |-> fresh, user |-> call[p].user])], "link")
  /\ call' = [call EXCEPT ![p].device = fresh]
  /\ fresh' = fresh + 1
  /\ UNCHANGED <<disk, bounds, history>>

(* Fault: whose device and whose profile is not compared.                   *)
AnyLink(p) ==
  {[user |-> d.user, profile |-> call[p].profile, device |-> d.id] :
     d \in {x \in Load.devices : /\ x.id = call[p].device
                                 /\ \E q \in Load.profiles : q.id = call[p].profile}}

(* The link of the device to the profile, when one user owns both.          *)
OwnedLink(p) ==
  {[user |-> d.user, profile |-> call[p].profile, device |-> d.id] :
     d \in {x \in Load.devices :
              /\ x.id = call[p].device
              /\ \E q \in Owned(Load, x.user) : q.id = call[p].profile}}

(* link_device_to_profile, called with the device just registered.          *)
LinkDevice(p) ==
  \/ \E l \in OwnedLink(p), q \in Load.profiles :
       /\ q.id = l.profile
       /\ Save(p, "link",
            [Load EXCEPT !.links = @ \cup {l},
                         !.profiles = Put(@, [q EXCEPT !.device = l.device])], "idle")
       /\ UNCHANGED <<disk, call, fresh, bounds, history>>
  \/ OwnedLink(p) = {} /\ Refuse(p, "link")

-----------------------------------------------------------------------------
(* register_desktop_device: a user without an invite gets a record, but is  *)
(* not eligible; the profile is the named one, whoever owns it, the user's  *)
(* own, or a new one.                                                       *)

RegisterDesktop(p, e) ==
  /\ Begin(p)
  /\ LET user == UserOf(Load, e)
         known == [Load EXCEPT !.users = Put(@, user)]
         arrived(q) == call' = [call EXCEPT ![p].user = user.id, ![p].profile = q]
     IN \/ \E q \in ProfileNames :
             /\ Save(p, "idle",
                  IF \E x \in known.profiles : x.id = q THEN known
                  ELSE [known EXCEPT !.profiles =
                          Put(@, [id |-> q, user |-> user.id, device |-> None])],
                  "desktopDevice")
             /\ arrived(q)
        \/ /\ Goto(p, "idle", "desktopProfile")
           /\ held' = [held EXCEPT ![p] = known]
           /\ arrived(None)
           /\ UNCHANGED after
  /\ fresh' = fresh + 1
  /\ UNCHANGED <<disk, history>>

(* default_relay_profile_for_user reads the file again, and what it finds   *)
(* is written into the content read before.  It is asked twice when it      *)
(* finds none; the later answer is the one that counts.                     *)
DesktopProfile(p) ==
  /\ \E q \in IF Owned(Load, call[p].user) # {} THEN Owned(Load, call[p].user)
               ELSE {[id |-> fresh, user |-> call[p].user, device |-> None]} :
       /\ Save(p, "desktopProfile", [held[p] EXCEPT !.profiles = Put(@, q)], "desktopDevice")
       /\ call' = [call EXCEPT ![p].profile = q.id]
  /\ fresh' = fresh + 1
  /\ UNCHANGED <<disk, bounds, history>>

(* set_remote_host_bash changes the profile's metadata only, and rewrites   *)
(* the whole file for it.                                                   *)
SetRemoteHostBash(p) ==
  /\ Begin(p)
  /\ Load.profiles # {}
  /\ Save(p, "idle", Load, "idle")
  /\ UNCHANGED <<disk, call, fresh, history>>

-----------------------------------------------------------------------------
(* verify_device_link: the profile and the devices from one read, the links *)
(* from a later one.  Of several links any may come first.                  *)

Verify(p) ==
  \/ /\ \E q \in Load.profiles :
          /\ q.id = call[p].profile
          /\ call' = [call EXCEPT ![p].owned =
                         {d.id : d \in {x \in Load.devices : x.user = q.user}}]
     /\ Goto(p, "verify", "verifyLinks")
     /\ UNCHANGED <<disk, after, held, fresh, bounds, history>>
  \/ /\ \A q \in Load.profiles : q.id # call[p].profile
     /\ Refuse(p, "verify")

Authorising(p) ==
  {l \in Load.links : /\ l.profile = call[p].profile
                      /\ l.device \in call[p].owned
                      /\ call[p].device \in {None, l.device}}

VerifyLinks(p) ==
  \/ /\ \E l \in Authorising(p) :
          call' = [call EXCEPT ![p].device = l.device, ![p].owned = {}, ![p].next = "none"]
     /\ Goto(p, "verifyLinks", call[p].next)
     /\ UNCHANGED <<disk, after, held, fresh, bounds, history>>
  \/ Authorising(p) = {} /\ Refuse(p, "verifyLinks")

-----------------------------------------------------------------------------
(* OAuth clients, authorization codes and access tokens.  A request with    *)
(* another redirect URI or code verifier than the record's is refused.      *)

RegisterClient(p) ==
  /\ Begin(p)
  /\ Save(p, "idle", [Load EXCEPT !.clients = @ \cup {fresh}], "idle")
  /\ fresh' = fresh + 1
  /\ UNCHANGED <<disk, call, history>>

(* issue_oauth_authorization_code: the content read here is the one saved   *)
(* in the end; user, profile and link are looked up in later reads.         *)
IssueCode(p, e) ==
  /\ Begin(p)
  /\ \E c \in Load.clients,
        q \in {None} \cup {x.id : x \in Load.profiles},
        d \in {None} \cup {x.id : x \in Load.devices} :
       call' = [call EXCEPT ![p] = [@ EXCEPT !.email = e, !.client = c, !.profile = q,
                                             !.device = d, !.next = "issue"]]
  /\ Goto(p, "idle", "issueUser")
  /\ held' = [held EXCEPT ![p] = Load]
  /\ UNCHANGED <<disk, after, fresh, history>>

(* Fault: whoever has an account may sign a connector in.                   *)
Grantable(p) == {u \in Load.users : u.email = call[p].email}
Grantees(p)  == {u \in Load.users : u.email = call[p].email /\ u.eligible}

IssueUser(p) ==
  \/ /\ \E u \in Grantees(p) : call' = [call EXCEPT ![p].user = u.id]
     /\ Goto(p, "issueUser", "issueProfile")
     /\ UNCHANGED <<disk, after, held, fresh, bounds, history>>
  \/ Grantees(p) = {} /\ Refuse(p, "issueUser")

(* Fault: a named profile is taken, whoever owns it.                        *)
NamedProfiles(p) ==
  IF call[p].profile = None THEN Owned(Load, call[p].user)
  ELSE {q \in held[p].profiles : q.id = call[p].profile}

(* A named profile is taken from the first read, the default from a new one.*)
OwnProfiles(p) ==
  IF call[p].profile = None THEN Owned(Load, call[p].user)
  ELSE {q \in Owned(held[p], call[p].user) : q.id = call[p].profile}

IssueProfile(p) ==
  \/ /\ \E q \in OwnProfiles(p) :
          call' = [call EXCEPT ![p].profile = q.id,
                               ![p].device = IF @ = None THEN q.device ELSE @]
     /\ Goto(p, "issueProfile", "verify")
     /\ UNCHANGED <<disk, after, held, fresh, bounds, history>>
  \/ OwnProfiles(p) = {} /\ Refuse(p, "issueProfile")

IssueSave(p) ==
  /\ LET code == [id |-> fresh, client |-> call[p].client, user |-> call[p].user,
                  profile |-> call[p].profile, device |-> call[p].device,
                  status |-> "open"]
     IN Save(p, "issue", [held[p] EXCEPT !.codes = Put(@, code)], "idle")
  /\ fresh' = fresh + 1
  /\ UNCHANGED <<disk, call, bounds, history>>

(* Fault: a redeemed code is taken again.                                   *)
AnyCode(c)   == c.codes
OpenCodes(c) == {k \in c.codes : k.status = "open"}

(* exchange_oauth_authorization_code: the client's open code, which may be  *)
(* found expired...                                                         *)
ExchangeCode(p) ==
  /\ Begin(p)
  /\ \E k \in OpenCodes(Load) :
       \/ /\ Save(p, "idle", [Load EXCEPT !.codes =
                                Put(@, [k EXCEPT !.status = "expired"])], "idle")
          /\ UNCHANGED call
       \/ /\ Goto(p, "idle", "verify")
          /\ held' = [held EXCEPT ![p] = Load]
          /\ call' = [call EXCEPT ![p] =
               [@ EXCEPT !.key = k.id, !.profile = k.profile, !.device = k.device,
                         !.next = "exchange"]]
          /\ UNCHANGED after
  /\ UNCHANGED <<disk, fresh, history>>

(* ...or is redeemed in the rewrite that adds the token.                    *)
ExchangeSave(p) ==
  /\ \E k \in held[p].codes :
       /\ k.id = call[p].key
       /\ LET token == [id |-> fresh, client |-> k.client, user |-> k.user,
                        profile |-> k.profile, device |-> k.device,
                        status |-> "active", code |-> k.id]
          IN Save(p, "exchange",
               [held[p] EXCEPT !.codes = Put(@, [k EXCEPT !.status = "redeemed"]),
                               !.tokens = Put(@, token)], "idle")
  /\ fresh' = fresh + 1
  /\ UNCHANGED <<disk, call, bounds, history>>

(* Fault: whatever its status, a token is looked at.                        *)
AnyToken(c)     == c.tokens
ActiveTokens(c) == {t \in c.tokens : t.status = "active"}

(* resolve_oauth_access_token, for /oauth/introspect and /relay/mcp: an     *)
(* active token, which may be found expired...                              *)
ResolveToken(p) ==
  /\ Begin(p)
  /\ \E t \in ActiveTokens(Load) :
       \/ /\ Save(p, "idle", [Load EXCEPT !.tokens =
                                Put(@, [t EXCEPT !.status = "expired"])], "idle")
          /\ UNCHANGED call
       \/ /\ Goto(p, "idle", "verify")
          /\ call' = [call EXCEPT ![p] =
               [@ EXCEPT !.key = t.id, !.profile = t.profile, !.device = t.device,
                         !.next = "authorized"]]
          /\ UNCHANGED <<after, held>>
  /\ UNCHANGED <<disk, fresh, history>>

(* ...or answered "authorized" when the device link still stands.           *)
TokenAuthorised(p) ==
  /\ pc[p] = "authorized"
  /\ Leave(p)
  /\ UNCHANGED <<disk, after, fresh, bounds, history>>

RevokeToken(p) ==
  /\ Begin(p)
  /\ \E t \in Load.tokens :
       /\ Save(p, "idle", [Load EXCEPT !.tokens =
                            Put(@, [t EXCEPT !.status = "revoked"])], "revoked")
       /\ call' = [call EXCEPT ![p].key = t.id]
  /\ UNCHANGED <<disk, fresh, history>>

RevocationAnswered(p) ==
  /\ pc[p] = "revoked"
  /\ revoked' = revoked \cup {call[p].key}
  /\ Leave(p)
  /\ UNCHANGED <<disk, after, fresh, bounds, admitted, redeemed>>

-----------------------------------------------------------------------------
Crash(p) ==
  /\ pc[p] # "idle"
  /\ crashes < MaxCrashes
  /\ crashes' = crashes + 1
  /\ Leave(p)
  /\ after' = [after EXCEPT ![p] = "idle"]
  /\ mixed' = mixed \ {p}
  /\ UNCHANGED <<file, torn, fresh, calls, raced, history>>

(* The operations that can begin.                                          *)
Called(p) == \/ IssueInvite(p) \/ RegisterClient(p) \/ SetRemoteHostBash(p)
             \/ ExchangeCode(p) \/ ResolveToken(p) \/ RevokeToken(p)
             \/ \E e \in Emails : \/ RedeemInvite(p, e) \/ Pair(p, e)
                                  \/ RegisterDesktop(p, e) \/ IssueCode(p, e)

(* The steps of one under way.                                             *)
Proceed(p) == \/ Truncate(p) \/ Write(p)
              \/ RedemptionAnswered(p) \/ RevocationAnswered(p) \/ TokenAuthorised(p)
              \/ PairProfile(p) \/ PairUser(p) \/ RegisterDevice(p, "pairDevice")
              \/ DesktopProfile(p) \/ RegisterDevice(p, "desktopDevice") \/ LinkDevice(p)
              \/ Verify(p) \/ VerifyLinks(p)
              \/ IssueUser(p) \/ IssueProfile(p) \/ IssueSave(p) \/ ExchangeSave(p)

Next == \E p \in Processes : Called(p) \/ Proceed(p) \/ Crash(p)

Spec == Init /\ [][Next]_vars
=============================================================================
