------------------------------ MODULE Accounts ------------------------------
(***************************************************************************)
(* Accounts, invitations and refresh tokens (app/modules/auth, vendors and *)
(* admin/wholesale_clients.py).  An admin creates vendors and wholesale    *)
(* clients inactive, each with an onboarding link to be used once within a *)
(* day; a vendor also gets a signup link, and a short code for it, for any *)
(* number of clients.  As in OrderSessions a request reads, works in       *)
(* memory and commits, and others commit in between; a refresh token is    *)
(* saved by a second commit of the same request.                           *)
(*                                                                         *)
(* An email has at most one account, and accounts are never deleted, so an *)
(* account's rows and invitations are indexed by its email.                *)
(***************************************************************************)
EXTENDS Naturals, FiniteSets, Functions

CONSTANTS
  Emails,      \* bound: the addresses that ever get an account
  Passwords,
  NoPassword,  \* the empty password_hash of an account not yet activated
  NoVendor,    \* vendor_id of a wholesale client
  TokenIds,    \* bound: the refresh tokens that can ever be saved
  Sessions     \* bound: the requests served at the same time

ASSUME NamesAssumption == NoPassword \notin Passwords /\ NoVendor \notin Emails

VARIABLES
  users,       \* email -> role, active, password
  vendors,     \* email of a vendor -> active
  clients,     \* email of a client -> the email of its vendor
  onboarding,  \* email of a vendor or wholesaler -> its activation link
  signups,     \* email of a vendor -> use_count of its signup link
  tokens,      \* refresh tokens: whose, and neither revoked nor expired
  tx           \* what each request holds in memory

vars == <<users, vendors, clients, onboarding, signups, tokens, tx>>
accounts == <<users, vendors, clients, onboarding, signups>>

Roles == {"vendor", "client", "wholesale"}
UserRows == [role: Roles, active: BOOLEAN, password: Passwords \cup {NoPassword}]
Links == [uses: Nat, expired: BOOLEAN]
TokenRows == [user: Emails, valid: BOOLEAN]

Idle == [op |-> "idle"]

InviteTx == [op: {"vendor", "wholesale"}, email: Emails]
LinkTx == [op: {"link"}, email: Emails, password: Passwords, uses: Nat]
ActivateTx == [op: {"activate"}, email: Emails, password: Passwords, uses: Nat,
               opens: BOOLEAN]
RegisterTx == [op: {"register"}, email: Emails, vendor: Emails, password: Passwords,
               uses: Nat]
TokenTx == [op: {"token"}, email: Emails]

Init ==
  /\ users = <<>> /\ vendors = <<>> /\ clients = <<>>
  /\ onboarding = <<>> /\ signups = <<>> /\ tokens = <<>>
  /\ tx = [s \in Sessions |-> Idle]

Hold(s, held) == tx' = [tx EXCEPT ![s] = held]

With(table, k, row) == [x \in DOMAIN table \cup {k} |-> IF x = k THEN row ELSE table[x]]

\* Faulty: without the UNIQUE constraint of users.email.
EmailFree_Unchecked(e) == TRUE

EmailFree(e) == e \notin DOMAIN users

-----------------------------------------------------------------------------
(* create_vendor and create_wholesale_client.                              *)

BeginInvite(s, e, role) ==
  /\ tx[s] = Idle /\ e \notin DOMAIN users
  /\ Hold(s, [op |-> role, email |-> e])
  /\ UNCHANGED <<accounts, tokens>>

InsertInvited(s, role) ==
  LET e == tx[s].email IN
  /\ tx[s].op = role /\ EmailFree(e)
  /\ users' = With(users, e, [role |-> role, active |-> FALSE, password |-> NoPassword])
  /\ onboarding' = With(onboarding, e, [uses |-> 0, expired |-> FALSE])
  /\ Hold(s, Idle)
  /\ UNCHANGED tokens

CommitVendor(s) ==
  /\ InsertInvited(s, "vendor")
  /\ vendors' = With(vendors, tx[s].email, FALSE)
  /\ signups' = With(signups, tx[s].email, 0)
  /\ UNCHANGED clients

CommitWholesale(s) ==
  /\ InsertInvited(s, "wholesale")
  /\ clients' = With(clients, tx[s].email, NoVendor)
  /\ UNCHANGED <<vendors, signups>>

-----------------------------------------------------------------------------
(* get_valid_invitation.                                                   *)

\* Faulty: one use too many.
Usable_OffByOne(link) == ~link.expired /\ ~(link.uses > 1)

\* The onboarding link: max_uses is 1 and it expires.
Usable(link) == ~link.expired /\ ~(link.uses >= 1)

\* The signup link has no limit and is shown to the vendor who can log in; the
\* code that stands for it is looked up among the active vendors.
SignupOpen(v) == users[v].active \/ vendors[v]

(* activate_vendor, for vendors and wholesale clients.                     *)

LoadLink(s, e, pw) ==
  /\ tx[s] = Idle /\ Usable(onboarding[e])
  /\ Hold(s, [op |-> "link", email |-> e, password |-> pw, uses |-> onboarding[e].uses])
  /\ UNCHANGED <<accounts, tokens>>

\* The vendor's row; a wholesale client has none.
LoadAccount(s) ==
  LET e == tx[s].email IN
  /\ tx[s].op = "link"
  /\ Hold(s, [op |-> "activate", email |-> e, password |-> tx[s].password,
              uses |-> tx[s].uses, opens |-> e \in DOMAIN vendors /\ ~vendors[e]])
  /\ UNCHANGED <<accounts, tokens>>

\* Faulty: counts the uses left.
Spent_Down(link, held) == [link EXCEPT !.uses = held - 1]

\* use_count += 1 adds to the value the request has loaded.
Spent(link, held) == [link EXCEPT !.uses = held + 1]

Activated(row, pw) == [row EXCEPT !.active = TRUE, !.password = pw]

CommitActivation(s) ==
  LET t == tx[s] IN
  /\ t.op = "activate"
  /\ users' = [users EXCEPT ![t.email] = Activated(@, t.password)]
  /\ vendors' = IF t.opens THEN [vendors EXCEPT ![t.email] = TRUE] ELSE vendors
  /\ onboarding' = [onboarding EXCEPT ![t.email] = Spent(@, t.uses)]
  /\ Hold(s, [op |-> "token", email |-> t.email])
  /\ UNCHANGED <<clients, signups, tokens>>

(* register_client.                                                        *)

\* Faulty: counts the use before the account exists.
BeginRegister_CountsFirst(s, e, v, pw) ==
  /\ tx[s] = Idle /\ SignupOpen(v) /\ e \notin DOMAIN users
  /\ Hold(s, [op |-> "register", email |-> e, vendor |-> v, password |-> pw,
              uses |-> signups[v]])
  /\ signups' = [signups EXCEPT ![v] = @ + 1]
  /\ UNCHANGED <<users, vendors, clients, onboarding, tokens>>

BeginRegister(s, e, v, pw) ==
  /\ tx[s] = Idle /\ SignupOpen(v) /\ e \notin DOMAIN users
  /\ Hold(s, [op |-> "register", email |-> e, vendor |-> v, password |-> pw,
              uses |-> signups[v]])
  /\ UNCHANGED <<accounts, tokens>>

CommitRegister(s) ==
  LET t == tx[s] IN
  /\ t.op = "register" /\ EmailFree(t.email)
  /\ users' = With(users, t.email, [role |-> "client", active |-> TRUE,
                                    password |-> t.password])
  /\ clients' = With(clients, t.email, t.vendor)
  /\ signups' = [signups EXCEPT ![t.vendor] = t.uses + 1]
  /\ Hold(s, [op |-> "token", email |-> t.email])
  /\ UNCHANGED <<vendors, onboarding, tokens>>

-----------------------------------------------------------------------------
(* login, save_refresh_token, revoke_refresh_token, update_vendor.         *)

\* Faulty: does not look at the user's active.
MayLogin_AnyUser(row, pw) == row.password \in {pw, NoPassword}

MayLogin(row, pw) == row.active /\ row.password = pw

Login(s, e, pw) ==
  /\ tx[s] = Idle /\ MayLogin(users[e], pw)
  /\ Hold(s, [op |-> "token", email |-> e])
  /\ UNCHANGED <<accounts, tokens>>

SaveToken(s, k) ==
  /\ tx[s].op = "token" /\ k \notin DOMAIN tokens
  /\ tokens' = With(tokens, k, [user |-> tx[s].email, valid |-> TRUE])
  /\ Hold(s, Idle)
  /\ UNCHANGED accounts

\* The token is revoked (revoke_refresh_token, at logout) or expires.
EndToken(k) ==
  /\ tokens[k].valid
  /\ tokens' = [tokens EXCEPT ![k].valid = FALSE]
  /\ UNCHANGED <<accounts, tx>>

\* Deactivating a vendor leaves its user as it is.  One step: the edit writes the
\* flag only where it differs from the one loaded, so an edit that another commit
\* overtook is as if it had come before it.
UpdateVendor(v, active) ==
  /\ vendors' = [vendors EXCEPT ![v] = active]
  /\ UNCHANGED <<users, clients, onboarding, signups, tokens, tx>>

\* expires_at goes by.
ExpireLink(e) ==
  /\ ~onboarding[e].expired
  /\ onboarding' = [onboarding EXCEPT ![e].expired = TRUE]
  /\ UNCHANGED <<users, vendors, clients, signups, tokens, tx>>

\* A request ends early: refused by a later check, by the UNIQUE constraint, or
\* lost with its worker, before its first commit or between its two.
Rollback(s) ==
  /\ tx[s] # Idle
  /\ Hold(s, Idle)
  /\ UNCHANGED <<accounts, tokens>>

Next ==
  \/ \E s \in Sessions :
       \/ \E e \in Emails, role \in {"vendor", "wholesale"} : BeginInvite(s, e, role)
       \/ CommitVendor(s) \/ CommitWholesale(s)
       \/ \E e \in DOMAIN onboarding, pw \in Passwords : LoadLink(s, e, pw)
       \/ LoadAccount(s) \/ CommitActivation(s)
       \/ \E e \in Emails, v \in DOMAIN signups, pw \in Passwords : BeginRegister(s, e, v, pw)
       \/ CommitRegister(s)
       \/ \E e \in DOMAIN users, pw \in Passwords : Login(s, e, pw)
       \/ \E k \in TokenIds : SaveToken(s, k)
       \/ Rollback(s)
  \/ \E k \in DOMAIN tokens : EndToken(k)
  \/ \E v \in DOMAIN vendors, active \in BOOLEAN : UpdateVendor(v, active)
  \/ \E e \in DOMAIN onboarding : ExpireLink(e)

Spec == Init /\ [][Next]_vars

-----------------------------------------------------------------------------
(* Types.                                                                  *)

\* Every table has one row for each email it is indexed by, and a request holds
\* what its operation needs.
TypeOK ==
  /\ DOMAIN users \subseteq Emails /\ DOMAIN vendors \subseteq Emails
  /\ DOMAIN clients \subseteq Emails /\ DOMAIN signups \subseteq Emails
  /\ DOMAIN onboarding \subseteq Emails
  /\ users \in [DOMAIN users -> UserRows]
  /\ vendors \in [DOMAIN vendors -> BOOLEAN]
  /\ clients \in [DOMAIN clients -> Emails \cup {NoVendor}]
  /\ onboarding \in [DOMAIN onboarding -> Links]
  /\ signups \in [DOMAIN signups -> Nat]
  /\ DOMAIN tokens \subseteq TokenIds /\ tokens \in [DOMAIN tokens -> TokenRows]
  /\ tx \in [Sessions -> {Idle} \cup InviteTx \cup LinkTx \cup ActivateTx
                          \cup RegisterTx \cup TokenTx]

(* What stays true whatever requests overlap.                              *)

Of(roles) == {e \in DOMAIN users : users[e].role \in roles}

\* The rows of an account stand or fall together: a vendor has its Vendor row and
\* its two invitations, a wholesale client its Client row and its invitation, a
\* client a Client row of an existing vendor, and no other rows exist.
RowsTogether ==
  /\ DOMAIN vendors = Of({"vendor"}) /\ DOMAIN signups = Of({"vendor"})
  /\ DOMAIN onboarding = Of({"vendor", "wholesale"})
  /\ DOMAIN clients = Of({"client", "wholesale"})
  /\ \A e \in DOMAIN clients :
       IF users[e].role = "client" THEN clients[e] \in DOMAIN vendors
                                   ELSE clients[e] = NoVendor

\* An account can log in exactly when its activation link counts one use: nobody
\* burns the link of a day without getting the account, and nobody is active
\* without a password.  That is the count and not the uses: requests that overlap
\* use a link more than once and leave it counted once (LinkUsedOnce).
LinkSpentIffActive ==
  \A e \in DOMAIN users :
    /\ users[e].active <=> users[e].password # NoPassword
    /\ IF e \in DOMAIN onboarding
       THEN onboarding[e].uses = IF users[e].active THEN 1 ELSE 0
       ELSE users[e].active

ClientsOf(v) == {e \in DOMAIN clients : clients[e] = v}

\* use_count of a signup link can miss registrations that overlapped, but never
\* counts one that did not happen.
SignupsNotInvented ==
  \A v \in DOMAIN signups :
    signups[v] <= Cardinality(ClientsOf(v))

\* A refresh token that is neither revoked nor expired belongs to a user who is
\* active, so refresh_access_token honours it: no edit of a vendor ends a session.
SessionKept ==
  \A k \in DOMAIN tokens :
    tokens[k].valid =>
      /\ tokens[k].user \in DOMAIN users
      /\ users[tokens[k].user].active

Activating(s, e) == tx[s].op \in {"link", "activate"} /\ tx[s].email = e

\* The link of the account is spent or expired, and no request still holds it.
Settled(e) ==
  /\ onboarding[e].expired \/ onboarding[e].uses = 1
  /\ \A s \in Sessions : ~Activating(s, e)

\* Once the link of an account is spent or expired and the requests that loaded it
\* before have ended, that is so for ever and the password is final: two requests
\* can use a link for one activation only by overlapping.
PasswordFinal ==
  [][\A e \in DOMAIN onboarding :
       Settled(e) => Settled(e)' /\ users'[e].password = users[e].password]_vars

\* What vendors/service.py:110 and admin/wholesale_clients.py:139 say of the link,
\* "uso unico": it sets the password of its account once.  The code lets requests
\* that overlap each set one.
LinkUsedOnce ==
  [][\A e \in DOMAIN users :
       users[e].password # NoPassword => users'[e].password = users[e].password]_vars

=============================================================================
