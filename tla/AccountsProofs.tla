--------------------------- MODULE AccountsProofs ---------------------------
(***************************************************************************)
(* Theorems about Accounts, for every set of emails, passwords, requests   *)
(* and tokens.                                                             *)
(***************************************************************************)
EXTENDS Accounts, FiniteSetTheorems, TLAPS

-----------------------------------------------------------------------------
(* Types.                                                                  *)

\* create_vendor and create_wholesale_client differ only in the profile they insert.
CommitInvite(s) == CommitVendor(s) \/ CommitWholesale(s)

LEMMA InviteEffect ==
  ASSUME NEW s \in Sessions, CommitInvite(s)
  PROVE  /\ tx[s].op \in {"vendor", "wholesale"} /\ EmailFree(tx[s].email)
         /\ users' = With(users, tx[s].email, [role |-> tx[s].op, active |-> FALSE,
                                               password |-> NoPassword])
         /\ onboarding' = With(onboarding, tx[s].email, [uses |-> 0, expired |-> FALSE])
         /\ Hold(s, Idle) /\ tokens' = tokens
         /\ IF tx[s].op = "vendor"
            THEN /\ vendors' = With(vendors, tx[s].email, FALSE)
                 /\ signups' = With(signups, tx[s].email, 0)
                 /\ clients' = clients
            ELSE /\ clients' = With(clients, tx[s].email, NoVendor)
                 /\ vendors' = vendors /\ signups' = signups
<1>1. CASE CommitVendor(s)
  BY <1>1 DEF CommitVendor, InsertInvited
<1>2. CASE CommitWholesale(s)
  BY <1>2 DEF CommitWholesale, InsertInvited
<1> QED BY <1>1, <1>2 DEF CommitInvite

\* What a request holds, by its operation.
LEMMA HeldType ==
  ASSUME TypeOK, NEW s \in Sessions
  PROVE  /\ tx[s].op \in {"vendor", "wholesale"} => tx[s] \in InviteTx
         /\ tx[s].op = "link" => tx[s] \in LinkTx
         /\ tx[s].op = "activate" => tx[s] \in ActivateTx
         /\ tx[s].op = "register" => tx[s] \in RegisterTx
         /\ tx[s].op = "token" => tx[s] \in TokenTx
BY DEF TypeOK, Idle, InviteTx, LinkTx, ActivateTx, RegisterTx, TokenTx

\* A table keeps its type when a row is added or replaced.
LEMMA WithType ==
  ASSUME NEW K, NEW R, NEW table, table \in [DOMAIN table -> R], DOMAIN table \subseteq K,
         NEW k \in K, NEW row \in R
  PROVE  /\ DOMAIN With(table, k, row) \subseteq K
         /\ With(table, k, row) \in [DOMAIN With(table, k, row) -> R]
BY DEF With

\* The requests hold what their operations need.
TxTypes == {Idle} \cup InviteTx \cup LinkTx \cup ActivateTx \cup RegisterTx \cup TokenTx

LEMMA HoldType ==
  ASSUME TypeOK, NEW s \in Sessions, NEW held \in TxTypes, Hold(s, held)
  PROVE  /\ tx' \in [Sessions -> TxTypes]
         /\ tx'[s] = held
         /\ \A t \in Sessions : t # s => tx'[t] = tx[t]
BY DEF TypeOK, Hold, TxTypes

LEMMA TypeInitially == Init => TypeOK
BY DEF Init, TypeOK

\* Every step keeps the types.
LEMMA TypePreserved == TypeOK /\ [Next]_vars => TypeOK'
<1> SUFFICES ASSUME TypeOK, [Next]_vars PROVE TypeOK'
  OBVIOUS
<1> USE DEF TxTypes
<1>1. ASSUME NEW s \in Sessions, NEW e \in Emails, NEW role \in {"vendor", "wholesale"},
             BeginInvite(s, e, role)
      PROVE  TypeOK'
  <2>1. [op |-> role, email |-> e] \in InviteTx
    BY DEF InviteTx
  <2> QED BY <1>1, <2>1, HoldType DEF BeginInvite, TypeOK, accounts
<1>2. ASSUME NEW s \in Sessions, CommitInvite(s)
      PROVE  TypeOK'
  <2> DEFINE e == tx[s].email
             row == [role |-> tx[s].op, active |-> FALSE, password |-> NoPassword]
             link == [uses |-> 0, expired |-> FALSE]
  <2>1. tx[s].op \in {"vendor", "wholesale"} /\ e \in Emails
    BY <1>2, HeldType, InviteEffect DEF InviteTx
  <2>2. row \in UserRows /\ link \in Links
    BY <2>1 DEF UserRows, Links, Roles
  <2>3. users' = With(users, e, row) /\ onboarding' = With(onboarding, e, link)
    BY <1>2, InviteEffect
  <2>4. /\ vendors' = vendors \/ vendors' = With(vendors, e, FALSE)
        /\ signups' = signups \/ signups' = With(signups, e, 0)
        /\ clients' = clients \/ clients' = With(clients, e, NoVendor)
    BY <1>2, InviteEffect
  <2>5. Hold(s, Idle) /\ tokens' = tokens
    BY <1>2, InviteEffect
  <2> HIDE DEF e, row, link
  <2>6. DOMAIN users' \subseteq Emails /\ users' \in [DOMAIN users' -> UserRows]
    BY <2>1, <2>2, <2>3 DEF TypeOK, With
  <2>7. DOMAIN onboarding' \subseteq Emails /\ onboarding' \in [DOMAIN onboarding' -> Links]
    BY <2>1, <2>2, <2>3 DEF TypeOK, With
  <2>8. DOMAIN vendors' \subseteq Emails /\ vendors' \in [DOMAIN vendors' -> BOOLEAN]
    <3>1. CASE vendors' = vendors
      BY <3>1 DEF TypeOK
    <3>2. CASE vendors' = With(vendors, e, FALSE)
      <4>1. FALSE \in BOOLEAN
        OBVIOUS
      <4> QED BY <2>1, <3>2, <4>1, WithType, Zenon DEF TypeOK
    <3> QED BY <2>4, <3>1, <3>2
  <2>9. DOMAIN signups' \subseteq Emails /\ signups' \in [DOMAIN signups' -> Nat]
    BY <2>1, <2>4 DEF TypeOK, With
  <2>10. /\ DOMAIN clients' \subseteq Emails
         /\ clients' \in [DOMAIN clients' -> Emails \cup {NoVendor}]
    BY <2>1, <2>4 DEF TypeOK, With
  <2>11. tx' \in [Sessions -> TxTypes]
    BY <2>5, HoldType
  <2> QED BY <2>5, <2>6, <2>7, <2>8, <2>9, <2>10, <2>11 DEF TypeOK
<1>3. ASSUME NEW s \in Sessions, NEW e \in DOMAIN onboarding, NEW pw \in Passwords,
             LoadLink(s, e, pw)
      PROVE  TypeOK'
  <2>1. [op |-> "link", email |-> e, password |-> pw, uses |-> onboarding[e].uses] \in LinkTx
    BY DEF LinkTx, TypeOK, Links
  <2> QED BY <1>3, <2>1, HoldType DEF LoadLink, TypeOK, accounts
<1>4. ASSUME NEW s \in Sessions, LoadAccount(s)
      PROVE  TypeOK'
  <2> DEFINE opens == tx[s].email \in DOMAIN vendors /\ ~vendors[tx[s].email]
             held == [op |-> "activate", email |-> tx[s].email,
                      password |-> tx[s].password, uses |-> tx[s].uses, opens |-> opens]
  <2>1. tx[s] \in LinkTx
    BY <1>4, HeldType DEF LoadAccount
  <2>2. opens \in BOOLEAN
    OBVIOUS
  <2>3. held \in ActivateTx
    <3> HIDE DEF opens
    <3> QED BY <2>1, <2>2 DEF LinkTx, ActivateTx
  <2>4. Hold(s, held) /\ UNCHANGED <<accounts, tokens>>
    BY <1>4 DEF LoadAccount
  <2> HIDE DEF held
  <2> QED BY <2>3, <2>4, HoldType DEF TypeOK, accounts
<1>5. ASSUME NEW s \in Sessions, CommitActivation(s)
      PROVE  TypeOK'
  <2> DEFINE e == tx[s].email
  <2>1. tx[s] \in ActivateTx
    BY <1>5, HeldType DEF CommitActivation
  <2>2. [op |-> "token", email |-> e] \in TokenTx
    BY <2>1 DEF ActivateTx, TokenTx
  <2>3. DOMAIN users' = DOMAIN users /\ users' \in [DOMAIN users' -> UserRows]
    <3>1. \A row \in UserRows : Activated(row, tx[s].password) \in UserRows
      BY <2>1 DEF Activated, UserRows, ActivateTx
    <3>2. users' = [users EXCEPT ![e] = Activated(users[e], tx[s].password)]
      BY <1>5 DEF CommitActivation
    <3> HIDE DEF e
    <3> QED BY <3>1, <3>2 DEF TypeOK
  <2>4. DOMAIN onboarding' = DOMAIN onboarding /\ onboarding' \in [DOMAIN onboarding' -> Links]
    <3>1. \A link \in Links : Spent(link, tx[s].uses) \in Links
      BY <2>1 DEF Spent, Links, ActivateTx
    <3>2. onboarding' = [onboarding EXCEPT ![e] = Spent(onboarding[e], tx[s].uses)]
      BY <1>5 DEF CommitActivation
    <3> HIDE DEF e
    <3> QED BY <3>1, <3>2 DEF TypeOK
  <2>5. DOMAIN vendors' = DOMAIN vendors /\ vendors' \in [DOMAIN vendors' -> BOOLEAN]
    BY <1>5 DEF CommitActivation, TypeOK
  <2>6. tx' \in [Sessions -> TxTypes]
    BY <1>5, <2>2, HoldType DEF CommitActivation
  <2> QED BY <1>5, <2>3, <2>4, <2>5, <2>6 DEF CommitActivation, TypeOK
<1>6. ASSUME NEW s \in Sessions, NEW e \in Emails, NEW v \in DOMAIN signups,
             NEW pw \in Passwords, BeginRegister(s, e, v, pw)
      PROVE  TypeOK'
  <2> DEFINE held == [op |-> "register", email |-> e, vendor |-> v, password |-> pw,
                      uses |-> signups[v]]
  <2>1. held \in RegisterTx
    BY DEF RegisterTx, TypeOK
  <2> QED BY <1>6, <2>1, HoldType DEF BeginRegister, TypeOK, accounts
<1>7. ASSUME NEW s \in Sessions, CommitRegister(s)
      PROVE  TypeOK'
  <2> DEFINE t == tx[s]
             row == [role |-> "client", active |-> TRUE, password |-> t.password]
  <2>1. t \in RegisterTx
    BY <1>7, HeldType DEF CommitRegister
  <2>2. row \in UserRows /\ [op |-> "token", email |-> t.email] \in TokenTx
    BY <2>1 DEF RegisterTx, UserRows, Roles, TokenTx
  <2>3. users' = With(users, t.email, row) /\ clients' = With(clients, t.email, t.vendor)
    BY <1>7 DEF CommitRegister
  <2>4. DOMAIN users' \subseteq Emails /\ users' \in [DOMAIN users' -> UserRows]
    BY <2>1, <2>2, <2>3 DEF TypeOK, With, RegisterTx
  <2>5. DOMAIN clients' \subseteq Emails /\ clients' \in [DOMAIN clients' -> Emails \cup {NoVendor}]
    BY <2>1, <2>3 DEF TypeOK, With, RegisterTx
  <2>6. DOMAIN signups' = DOMAIN signups /\ signups' \in [DOMAIN signups' -> Nat]
    <3>1. t.uses + 1 \in Nat
      BY <2>1 DEF RegisterTx
    <3>2. signups' = [signups EXCEPT ![t.vendor] = t.uses + 1]
      BY <1>7 DEF CommitRegister
    <3> HIDE DEF t
    <3> QED BY <3>1, <3>2 DEF TypeOK
  <2>7. tx' \in [Sessions -> TxTypes]
    BY <1>7, <2>2, HoldType DEF CommitRegister
  <2> QED BY <1>7, <2>4, <2>5, <2>6, <2>7 DEF CommitRegister, TypeOK
<1>8. ASSUME NEW s \in Sessions, NEW e \in DOMAIN users, NEW pw \in Passwords,
             Login(s, e, pw)
      PROVE  TypeOK'
  <2>1. [op |-> "token", email |-> e] \in TokenTx
    BY DEF TokenTx, TypeOK
  <2> QED BY <1>8, <2>1, HoldType DEF Login, TypeOK, accounts
<1>9. ASSUME NEW s \in Sessions, NEW k \in TokenIds, SaveToken(s, k)
      PROVE  TypeOK'
  <2> DEFINE row == [user |-> tx[s].email, valid |-> TRUE]
  <2>1. row \in TokenRows
    BY <1>9, HeldType DEF SaveToken, TokenTx, TokenRows
  <2>2. tokens' = With(tokens, k, row)
    BY <1>9 DEF SaveToken
  <2> HIDE DEF row
  <2>3. DOMAIN tokens' \subseteq TokenIds /\ tokens' \in [DOMAIN tokens' -> TokenRows]
    BY <2>1, <2>2 DEF TypeOK, With
  <2> QED BY <1>9, <2>3, HoldType DEF SaveToken, TypeOK, accounts
<1>10. ASSUME NEW k \in DOMAIN tokens, EndToken(k)
       PROVE  TypeOK'
  <2>1. DOMAIN tokens' = DOMAIN tokens /\ tokens' \in [DOMAIN tokens' -> TokenRows]
    BY <1>10 DEF EndToken, TypeOK, TokenRows
  <2> QED BY <1>10, <2>1 DEF EndToken, TypeOK, accounts
<1>11. ASSUME NEW v \in DOMAIN vendors, NEW active \in BOOLEAN, UpdateVendor(v, active)
       PROVE  TypeOK'
  <2>1. DOMAIN vendors' = DOMAIN vendors /\ vendors' \in [DOMAIN vendors' -> BOOLEAN]
    BY <1>11, Zenon DEF UpdateVendor, TypeOK
  <2> QED BY <1>11, <2>1 DEF UpdateVendor, TypeOK
<1>12. ASSUME NEW e \in DOMAIN onboarding, ExpireLink(e)
       PROVE  TypeOK'
  <2>1. DOMAIN onboarding' = DOMAIN onboarding /\ onboarding' \in [DOMAIN onboarding' -> Links]
    BY <1>12 DEF ExpireLink, TypeOK, Links
  <2> QED BY <1>12, <2>1 DEF ExpireLink, TypeOK
<1>13. ASSUME NEW s \in Sessions, Rollback(s)
       PROVE  TypeOK'
  BY <1>13, HoldType DEF Rollback, TypeOK, accounts
<1>14. CASE UNCHANGED vars
  BY <1>14 DEF vars, TypeOK
<1> QED
  BY <1>1, <1>2, <1>3, <1>4, <1>5, <1>6, <1>7, <1>8, <1>9, <1>10, <1>11, <1>12, <1>13,
     <1>14 DEF Next, CommitInvite

\* Every table keeps its type and every request holds what its operation needs.
THEOREM TypeCorrect == Spec => []TypeOK
BY TypeInitially, TypePreserved, PTL DEF Spec

-----------------------------------------------------------------------------
(* The inductive invariant.                                                *)

\* What a request relies on when it commits: the link it loaded had not been used,
\* the vendor it registers for exists, the user it saves a token for is active.
HeldFits ==
  \A s \in Sessions :
    LET t == tx[s] IN
    /\ t.op \in {"link", "activate"} => t.email \in DOMAIN onboarding /\ t.uses = 0
    /\ t.op = "register" => t.vendor \in DOMAIN vendors
    /\ t.op = "token" => t.email \in DOMAIN users /\ users[t.email].active

IInv == TypeOK /\ RowsTogether /\ LinkSpentIffActive /\ SessionKept /\ HeldFits

\* The steps that change an account table; the others leave all of them.
AccountStep ==
  \/ \E s \in Sessions : CommitInvite(s) \/ CommitActivation(s) \/ CommitRegister(s)
  \/ \E v \in DOMAIN vendors, active \in BOOLEAN : UpdateVendor(v, active)
  \/ \E e \in DOMAIN onboarding : ExpireLink(e)

LEMMA OtherSteps ==
  ASSUME [Next]_vars
  PROVE  AccountStep \/ UNCHANGED accounts
BY DEF Next, CommitInvite, vars, AccountStep, accounts, BeginInvite, LoadLink, LoadAccount,
       BeginRegister, Login, SaveToken, EndToken, Rollback

\* Accounts are never removed, and an active account stays active.
LEMMA AccountsGrow ==
  ASSUME TypeOK, [Next]_vars
  PROVE  /\ DOMAIN users \subseteq DOMAIN users'
         /\ DOMAIN vendors \subseteq DOMAIN vendors'
         /\ DOMAIN onboarding \subseteq DOMAIN onboarding'
         /\ \A e \in DOMAIN users : users[e].active => users'[e].active
<1>1. ASSUME NEW s \in Sessions, CommitInvite(s)
      PROVE  /\ DOMAIN users \subseteq DOMAIN users'
             /\ DOMAIN vendors \subseteq DOMAIN vendors'
             /\ DOMAIN onboarding \subseteq DOMAIN onboarding'
             /\ \A e \in DOMAIN users : users[e].active => users'[e].active
  <2>1. /\ DOMAIN users' = DOMAIN users \cup {tx[s].email}
        /\ DOMAIN onboarding' = DOMAIN onboarding \cup {tx[s].email}
        /\ \A e \in DOMAIN users : users'[e] = users[e]
    BY <1>1, InviteEffect DEF With, EmailFree
  <2>2. DOMAIN vendors \subseteq DOMAIN vendors'
    <3>1. vendors' = vendors \/ vendors' = With(vendors, tx[s].email, FALSE)
      BY <1>1, InviteEffect
    <3>2. DOMAIN With(vendors, tx[s].email, FALSE) = DOMAIN vendors \cup {tx[s].email}
      BY Zenon DEF With
    <3> QED BY <3>1, <3>2
  <2> QED BY <2>1, <2>2
<1>2. ASSUME NEW s \in Sessions, CommitActivation(s)
      PROVE  /\ DOMAIN users \subseteq DOMAIN users'
             /\ DOMAIN vendors \subseteq DOMAIN vendors'
             /\ DOMAIN onboarding \subseteq DOMAIN onboarding'
             /\ \A e \in DOMAIN users : users[e].active => users'[e].active
  BY <1>2 DEF CommitActivation, Activated, TypeOK, UserRows
<1>3. ASSUME NEW s \in Sessions, CommitRegister(s)
      PROVE  /\ DOMAIN users \subseteq DOMAIN users'
             /\ DOMAIN vendors \subseteq DOMAIN vendors'
             /\ DOMAIN onboarding \subseteq DOMAIN onboarding'
             /\ \A e \in DOMAIN users : users[e].active => users'[e].active
  BY <1>3 DEF CommitRegister, With, EmailFree
<1>4. ASSUME NEW v \in DOMAIN vendors, NEW active \in BOOLEAN, UpdateVendor(v, active)
      PROVE  /\ DOMAIN users \subseteq DOMAIN users'
             /\ DOMAIN vendors \subseteq DOMAIN vendors'
             /\ DOMAIN onboarding \subseteq DOMAIN onboarding'
             /\ \A e \in DOMAIN users : users[e].active => users'[e].active
  BY <1>4 DEF UpdateVendor
<1>5. ASSUME NEW e \in DOMAIN onboarding, ExpireLink(e)
      PROVE  /\ DOMAIN users \subseteq DOMAIN users'
             /\ DOMAIN vendors \subseteq DOMAIN vendors'
             /\ DOMAIN onboarding \subseteq DOMAIN onboarding'
             /\ \A x \in DOMAIN users : users[x].active => users'[x].active
  BY <1>5 DEF ExpireLink
<1>6. CASE UNCHANGED accounts
  BY <1>6 DEF accounts
<1> QED BY <1>1, <1>2, <1>3, <1>4, <1>5, <1>6, OtherSteps DEF AccountStep

\* The rows of an account are inserted by one commit.
LEMMA RowsPreserved ==
  ASSUME IInv, [Next]_vars
  PROVE  RowsTogether'
<1> USE DEF IInv
<1>1. ASSUME NEW s \in Sessions, CommitInvite(s)
      PROVE  RowsTogether'
  <2> DEFINE e == tx[s].email
  <2>1. /\ tx[s].op \in {"vendor", "wholesale"} /\ e \notin DOMAIN users
        /\ users' = With(users, e, [role |-> tx[s].op, active |-> FALSE,
                                    password |-> NoPassword])
        /\ DOMAIN onboarding' = DOMAIN onboarding \cup {e}
    BY <1>1, InviteEffect DEF EmailFree, With
  <2>2. \A roles : Of(roles)' = Of(roles) \cup (IF tx[s].op \in roles THEN {e} ELSE {})
    BY <2>1 DEF Of, With
  <2>3. CASE tx[s].op = "vendor"
    <3>1. DOMAIN vendors' = DOMAIN vendors \cup {e} /\ DOMAIN signups' = DOMAIN signups \cup {e}
      BY <1>1, <2>3, InviteEffect DEF With
    <3>2. clients' = clients
      BY <1>1, <2>3, InviteEffect
    <3> QED BY <2>1, <2>2, <2>3, <3>1, <3>2 DEF RowsTogether, With, Of
  <2>4. CASE tx[s].op = "wholesale"
    <3>1. vendors' = vendors /\ signups' = signups /\ clients' = With(clients, e, NoVendor)
      BY <1>1, <2>4, InviteEffect
    <3> QED BY <2>1, <2>2, <2>4, <3>1 DEF RowsTogether, With, Of
  <2> QED BY <2>1, <2>3, <2>4
<1>2. ASSUME NEW s \in Sessions, CommitActivation(s)
      PROVE  RowsTogether'
  <2>1. DOMAIN users' = DOMAIN users /\ \A e \in DOMAIN users : users'[e].role = users[e].role
    BY <1>2 DEF CommitActivation, Activated, TypeOK, UserRows
  <2>2. /\ DOMAIN vendors' = DOMAIN vendors /\ DOMAIN onboarding' = DOMAIN onboarding
        /\ clients' = clients /\ signups' = signups
    BY <1>2 DEF CommitActivation
  <2> QED BY <2>1, <2>2 DEF RowsTogether, Of
<1>3. ASSUME NEW s \in Sessions, CommitRegister(s)
      PROVE  RowsTogether'
  <2> DEFINE e == tx[s].email
  <2>1. /\ tx[s].op = "register" /\ e \notin DOMAIN users
        /\ users' = With(users, e, [role |-> "client", active |-> TRUE,
                                    password |-> tx[s].password])
        /\ clients' = With(clients, e, tx[s].vendor)
        /\ DOMAIN signups' = DOMAIN signups
        /\ vendors' = vendors /\ onboarding' = onboarding
    BY <1>3 DEF CommitRegister, EmailFree
  <2>2. \A roles : Of(roles)' = Of(roles) \cup (IF "client" \in roles THEN {e} ELSE {})
    BY <2>1 DEF Of, With
  <2>3. tx[s].vendor \in DOMAIN vendors
    BY <2>1 DEF HeldFits
  <2> QED BY <2>1, <2>2, <2>3 DEF RowsTogether, With, Of
<1>4. ASSUME NEW v \in DOMAIN vendors, NEW active \in BOOLEAN, UpdateVendor(v, active)
      PROVE  RowsTogether'
  BY <1>4 DEF UpdateVendor, RowsTogether, Of
<1>5. ASSUME NEW e \in DOMAIN onboarding, ExpireLink(e)
      PROVE  RowsTogether'
  BY <1>5 DEF ExpireLink, RowsTogether, Of
<1>6. CASE UNCHANGED accounts
  BY <1>6 DEF accounts, RowsTogether, Of
<1> QED BY <1>1, <1>2, <1>3, <1>4, <1>5, <1>6, OtherSteps DEF AccountStep

\* An activation writes the password, the flag and the count in one commit, and the
\* count is one more than the zero its request had loaded.
LEMMA LinksPreserved ==
  ASSUME IInv, [Next]_vars
  PROVE  LinkSpentIffActive'
<1> USE DEF IInv
<1>1. ASSUME NEW s \in Sessions, CommitInvite(s)
      PROVE  LinkSpentIffActive'
  <2> DEFINE e == tx[s].email
  <2>1. /\ e \notin DOMAIN users
        /\ users' = With(users, e, [role |-> tx[s].op, active |-> FALSE,
                                    password |-> NoPassword])
        /\ onboarding' = With(onboarding, e, [uses |-> 0, expired |-> FALSE])
    BY <1>1, InviteEffect DEF EmailFree
  <2> QED BY <2>1 DEF LinkSpentIffActive, With
<1>2. ASSUME NEW s \in Sessions, CommitActivation(s)
      PROVE  LinkSpentIffActive'
  <2> DEFINE t == tx[s]
  <2>1. t \in ActivateTx /\ t.email \in DOMAIN onboarding /\ t.uses = 0
    BY <1>2, HeldType DEF CommitActivation, HeldFits
  <2>2. t.password \in Passwords /\ t.password # NoPassword
    BY <2>1, NamesAssumption DEF ActivateTx
  <2>3. /\ users' = [users EXCEPT ![t.email] = Activated(users[t.email], t.password)]
        /\ onboarding' = [onboarding EXCEPT ![t.email] = Spent(onboarding[t.email], t.uses)]
    BY <1>2 DEF CommitActivation
  <2>4. /\ \A row \in UserRows :
             /\ Activated(row, t.password).active = TRUE
             /\ Activated(row, t.password).password = t.password
        /\ \A link \in Links : Spent(link, t.uses).uses = 1
    BY <2>1 DEF Activated, Spent, UserRows, Links
  <2> HIDE DEF t
  <2> QED BY <2>1, <2>2, <2>3, <2>4 DEF LinkSpentIffActive, TypeOK
<1>3. ASSUME NEW s \in Sessions, CommitRegister(s)
      PROVE  LinkSpentIffActive'
  <2> DEFINE e == tx[s].email
  <2>1. /\ tx[s].op = "register" /\ e \notin DOMAIN users
        /\ users' = With(users, e, [role |-> "client", active |-> TRUE,
                                    password |-> tx[s].password])
        /\ onboarding' = onboarding
    BY <1>3 DEF CommitRegister, EmailFree
  <2>2. tx[s].password # NoPassword
    BY <2>1, HeldType, NamesAssumption DEF RegisterTx
  <2>3. e \notin DOMAIN onboarding
    BY <2>1 DEF RowsTogether, Of
  <2> QED BY <2>1, <2>2, <2>3 DEF LinkSpentIffActive, With
<1>4. ASSUME NEW v \in DOMAIN vendors, NEW active \in BOOLEAN, UpdateVendor(v, active)
      PROVE  LinkSpentIffActive'
  BY <1>4 DEF UpdateVendor, LinkSpentIffActive
<1>5. ASSUME NEW e \in DOMAIN onboarding, ExpireLink(e)
      PROVE  LinkSpentIffActive'
  BY <1>5 DEF ExpireLink, LinkSpentIffActive, TypeOK, Links
<1>6. CASE UNCHANGED accounts
  BY <1>6 DEF accounts, LinkSpentIffActive
<1> QED BY <1>1, <1>2, <1>3, <1>4, <1>5, <1>6, OtherSteps DEF AccountStep

\* A token is saved for the user its request has just seen active.
LEMMA SessionsPreserved ==
  ASSUME IInv, [Next]_vars
  PROVE  SessionKept'
<1> USE DEF IInv
<1>1. ASSUME NEW s \in Sessions, NEW k \in TokenIds, SaveToken(s, k)
      PROVE  SessionKept'
  <2>1. tx[s].email \in DOMAIN users /\ users[tx[s].email].active
    BY <1>1 DEF SaveToken, HeldFits
  <2>2. /\ users' = users
        /\ tokens' = With(tokens, k, [user |-> tx[s].email, valid |-> TRUE])
    BY <1>1 DEF SaveToken, accounts
  <2> QED BY <2>1, <2>2 DEF SessionKept, With
<1>2. ASSUME NEW k \in DOMAIN tokens, EndToken(k)
      PROVE  SessionKept'
  BY <1>2 DEF EndToken, accounts, SessionKept, TypeOK, TokenRows
<1>3. CASE UNCHANGED tokens
  BY <1>3, AccountsGrow DEF SessionKept
<1>4. \/ UNCHANGED tokens
      \/ \E s \in Sessions, k \in TokenIds : SaveToken(s, k)
      \/ \E k \in DOMAIN tokens : EndToken(k)
  BY InviteEffect DEF Next, CommitInvite, vars, BeginInvite, LoadLink, LoadAccount,
         CommitActivation, BeginRegister, CommitRegister, Login, UpdateVendor, ExpireLink, Rollback
<1> QED BY <1>1, <1>2, <1>3, <1>4

\* What a request relies on stays true until it commits.
LEMMA HeldPreserved ==
  ASSUME IInv, [Next]_vars
  PROVE  HeldFits'
<1> USE DEF IInv
\* A request that does not move keeps what it relies on.
<1>1. ASSUME NEW t \in Sessions, tx'[t] = tx[t]
      PROVE  LET h == tx'[t] IN
             /\ h.op \in {"link", "activate"} => h.email \in DOMAIN onboarding' /\ h.uses = 0
             /\ h.op = "register" => h.vendor \in DOMAIN vendors'
             /\ h.op = "token" => h.email \in DOMAIN users' /\ users'[h.email].active
  BY <1>1, AccountsGrow DEF HeldFits
<1>2. ASSUME NEW s \in Sessions, NEW held, tx' = [tx EXCEPT ![s] = held],
             /\ held.op \in {"link", "activate"} =>
                  held.email \in DOMAIN onboarding' /\ held.uses = 0
             /\ held.op = "register" => held.vendor \in DOMAIN vendors'
             /\ held.op = "token" =>
                  held.email \in DOMAIN users' /\ users'[held.email].active
      PROVE  HeldFits'
  <2>1. tx'[s] = held /\ \A t \in Sessions : t # s => tx'[t] = tx[t]
    BY <1>2 DEF TypeOK
  <2> QED BY <1>1, <1>2, <2>1 DEF HeldFits
<1>3. ASSUME NEW s \in Sessions, NEW e \in Emails, NEW role \in {"vendor", "wholesale"},
             BeginInvite(s, e, role)
      PROVE  HeldFits'
  BY <1>2, <1>3 DEF BeginInvite, Hold
<1>4. ASSUME NEW s \in Sessions, Hold(s, Idle)
      PROVE  HeldFits'
  BY <1>2, <1>4 DEF Hold, Idle
<1>5. ASSUME NEW s \in Sessions, NEW e \in DOMAIN onboarding, NEW pw \in Passwords,
             LoadLink(s, e, pw)
      PROVE  HeldFits'
  <2>1. onboarding[e].uses = 0
    BY <1>5 DEF LoadLink, Usable, TypeOK, Links
  <2> QED BY <1>2, <1>5, <2>1 DEF LoadLink, Hold, accounts
<1>6. ASSUME NEW s \in Sessions, LoadAccount(s)
      PROVE  HeldFits'
  <2>1. tx[s].email \in DOMAIN onboarding /\ tx[s].uses = 0
    BY <1>6 DEF LoadAccount, HeldFits
  <2> QED BY <1>2, <1>6, <2>1 DEF LoadAccount, Hold, accounts
<1>7. ASSUME NEW s \in Sessions, CommitActivation(s)
      PROVE  HeldFits'
  <2>1. tx[s].email \in DOMAIN users
    BY <1>7 DEF CommitActivation, HeldFits, RowsTogether, Of
  <2>2. users'[tx[s].email].active /\ tx[s].email \in DOMAIN users'
    BY <1>7, <2>1 DEF CommitActivation, Activated, TypeOK, UserRows
  <2> QED BY <1>2, <1>7, <2>2 DEF CommitActivation, Hold
<1>8. ASSUME NEW s \in Sessions, NEW e \in Emails, NEW v \in DOMAIN signups,
             NEW pw \in Passwords, BeginRegister(s, e, v, pw)
      PROVE  HeldFits'
  <2>1. v \in DOMAIN vendors
    BY DEF RowsTogether
  <2> QED BY <1>2, <1>8, <2>1 DEF BeginRegister, Hold, accounts
<1>9. ASSUME NEW s \in Sessions, CommitRegister(s)
      PROVE  HeldFits'
  <2>1. users'[tx[s].email].active /\ tx[s].email \in DOMAIN users'
    BY <1>9 DEF CommitRegister, With
  <2> QED BY <1>2, <1>9, <2>1 DEF CommitRegister, Hold
<1>10. ASSUME NEW s \in Sessions, NEW e \in DOMAIN users, NEW pw \in Passwords,
              Login(s, e, pw)
       PROVE  HeldFits'
  BY <1>2, <1>10 DEF Login, Hold, MayLogin, accounts
<1>11. CASE UNCHANGED tx
  BY <1>1, <1>11 DEF HeldFits
<1>12. \/ \E s \in Sessions : Hold(s, Idle)
       \/ \E s \in Sessions :
            \/ \E e \in Emails, role \in {"vendor", "wholesale"} : BeginInvite(s, e, role)
            \/ \E e \in DOMAIN onboarding, pw \in Passwords : LoadLink(s, e, pw)
            \/ LoadAccount(s) \/ CommitActivation(s) \/ CommitRegister(s)
            \/ \E e \in Emails, v \in DOMAIN signups, pw \in Passwords :
                 BeginRegister(s, e, v, pw)
            \/ \E e \in DOMAIN users, pw \in Passwords : Login(s, e, pw)
       \/ UNCHANGED tx
  BY InviteEffect DEF Next, CommitInvite, vars, SaveToken, Rollback, EndToken, UpdateVendor,
         ExpireLink
<1> QED BY <1>3, <1>4, <1>5, <1>6, <1>7, <1>8, <1>9, <1>10, <1>11, <1>12

LEMMA Initially == Init => IInv
<1> SUFFICES ASSUME Init PROVE IInv
  OBVIOUS
<1>1. RowsTogether /\ LinkSpentIffActive /\ SessionKept
  BY DEF Init, RowsTogether, Of, LinkSpentIffActive, SessionKept
<1>2. HeldFits
  BY DEF Init, HeldFits, Idle
<1> QED BY <1>1, <1>2, TypeInitially DEF IInv

\* The inductive invariant holds in every reachable state.
THEOREM Invariance == Spec => []IInv
<1>1. IInv /\ [Next]_vars => IInv'
  BY TypePreserved, RowsPreserved, LinksPreserved, SessionsPreserved, HeldPreserved DEF IInv
<1> QED BY <1>1, Initially, PTL DEF Spec

-----------------------------------------------------------------------------
(* The properties.                                                         *)

\* However the two creations of an account and its registrations overlap, its rows
\* and invitations all exist or none does.
THEOREM RowsStayTogether == Spec => []RowsTogether
<1>1. IInv => RowsTogether
  BY DEF IInv
<1> QED BY <1>1, Invariance, PTL

\* An account can log in exactly when its activation link counts a use, and then one.
THEOREM LinksSpentByActivation == Spec => []LinkSpentIffActive
<1>1. IInv => LinkSpentIffActive
  BY DEF IInv
<1> QED BY <1>1, Invariance, PTL

\* A refresh token that is neither revoked nor expired stays good.
THEOREM SessionsAreKept == Spec => []SessionKept
<1>1. IInv => SessionKept
  BY DEF IInv
<1> QED BY <1>1, Invariance, PTL

\* A request takes up the link of e only by loading it.
LEMMA TakesUpLink ==
  ASSUME IInv, [Next]_vars, NEW e \in DOMAIN onboarding, NEW t \in Sessions,
         ~Activating(t, e), Activating(t, e)'
  PROVE  \E pw \in Passwords : LoadLink(t, e, pw)
<1> USE DEF IInv
<1>1. ASSUME NEW s \in Sessions, NEW held, tx' = [tx EXCEPT ![s] = held],
             held.op \notin {"link", "activate"} \/ held.email # e
      PROVE  FALSE
  BY <1>1 DEF Activating, TypeOK
<1>2. Idle.op = "idle"
  BY DEF Idle
<1>3. ASSUME NEW s \in Sessions, NEW x \in Emails, NEW role \in {"vendor", "wholesale"},
             BeginInvite(s, x, role)
      PROVE  FALSE
  BY <1>1, <1>3 DEF BeginInvite, Hold
<1>4. ASSUME NEW s \in Sessions,
             CommitInvite(s) \/ (\E k \in TokenIds : SaveToken(s, k)) \/ Rollback(s)
      PROVE  FALSE
  BY <1>1, <1>2, <1>4, InviteEffect DEF SaveToken, Rollback, Hold
<1>5. ASSUME NEW s \in Sessions, NEW x \in DOMAIN onboarding, NEW pw \in Passwords,
             LoadLink(s, x, pw)
      PROVE  s = t /\ x = e
  <2>1. x = e
    BY <1>1, <1>5 DEF LoadLink, Hold
  <2>2. s # t => tx'[t] = tx[t]
    BY <1>5 DEF LoadLink, Hold, TypeOK
  <2> QED BY <2>1, <2>2 DEF Activating
<1>6. ASSUME NEW s \in Sessions, LoadAccount(s)
      PROVE  FALSE
  <2>1. tx[s].op = "link" /\ tx'[s].email = tx[s].email /\ (s # t => tx'[t] = tx[t])
    BY <1>6 DEF LoadAccount, Hold, TypeOK
  <2> QED BY <2>1 DEF Activating
<1>7. ASSUME NEW s \in Sessions, CommitActivation(s) \/ CommitRegister(s)
      PROVE  FALSE
  BY <1>1, <1>7 DEF CommitActivation, CommitRegister, Hold
<1>8. ASSUME NEW s \in Sessions, NEW x \in Emails, NEW v \in DOMAIN signups,
             NEW pw \in Passwords, BeginRegister(s, x, v, pw)
      PROVE  FALSE
  BY <1>1, <1>8 DEF BeginRegister, Hold
<1>9. ASSUME NEW s \in Sessions, NEW x \in DOMAIN users, NEW pw \in Passwords,
             Login(s, x, pw)
      PROVE  FALSE
  BY <1>1, <1>9 DEF Login, Hold
<1>10. tx' # tx
  BY DEF Activating
<1>11. Next
  BY <1>10 DEF vars
<1> QED
  BY <1>3, <1>4, <1>5, <1>6, <1>7, <1>8, <1>9, <1>10, <1>11
  DEF Next, CommitInvite, EndToken, UpdateVendor, ExpireLink

\* Only an activation replaces a password or counts a use, and it holds the link.
LEMMA ActivationHoldsLink ==
  ASSUME IInv, [Next]_vars, NEW e \in DOMAIN onboarding,
         \A s \in Sessions : ~Activating(s, e)
  PROVE  /\ users'[e].password = users[e].password
         /\ onboarding'[e].uses = onboarding[e].uses
         /\ onboarding[e].expired => onboarding'[e].expired
<1>1. e \in DOMAIN users
  BY DEF IInv, RowsTogether, Of
<1>2. ASSUME NEW s \in Sessions, CommitInvite(s)
      PROVE  users'[e] = users[e] /\ onboarding'[e] = onboarding[e]
  BY <1>1, <1>2, InviteEffect DEF With, EmailFree
<1>3. ASSUME NEW s \in Sessions, CommitRegister(s)
      PROVE  users'[e] = users[e] /\ onboarding'[e] = onboarding[e]
  BY <1>1, <1>3 DEF CommitRegister, With, EmailFree
<1>4. ASSUME NEW s \in Sessions, CommitActivation(s)
      PROVE  users'[e] = users[e] /\ onboarding'[e] = onboarding[e]
  <2>1. tx[s].email # e
    BY <1>4 DEF CommitActivation, Activating
  <2> QED BY <1>1, <1>4, <2>1 DEF CommitActivation, IInv, TypeOK
<1>5. ASSUME NEW x \in DOMAIN onboarding, ExpireLink(x)
      PROVE  /\ users' = users /\ onboarding'[e].uses = onboarding[e].uses
             /\ onboarding[e].expired => onboarding'[e].expired
  BY <1>5 DEF ExpireLink, IInv, TypeOK, Links
<1>6. \/ \E s \in Sessions : CommitInvite(s) \/ CommitRegister(s) \/ CommitActivation(s)
      \/ \E x \in DOMAIN onboarding : ExpireLink(x)
      \/ users' = users /\ onboarding' = onboarding
  BY OtherSteps DEF AccountStep, UpdateVendor, accounts
<1> QED BY <1>2, <1>3, <1>4, <1>5, <1>6

\* Once a link is spent or expired and no request holds it, no request takes it up
\* again, since loading it would find it unusable, and the password is final.
THEOREM PasswordsAreFinal == Spec => PasswordFinal
<1>1. ASSUME IInv, [Next]_vars, NEW e \in DOMAIN onboarding, Settled(e)
      PROVE  Settled(e)' /\ users'[e].password = users[e].password
  <2>1. \A s \in Sessions : ~Activating(s, e)
    BY <1>1 DEF Settled
  <2>2. ASSUME NEW s \in Sessions, Activating(s, e)'
        PROVE  FALSE
    <3>1. Usable(onboarding[e])
      BY <1>1, <2>1, <2>2, TakesUpLink DEF LoadLink
    <3> QED BY <1>1, <3>1 DEF Settled, Usable
  <2>3. onboarding'[e].expired \/ onboarding'[e].uses = 1
    BY <1>1, <2>1, ActivationHoldsLink DEF Settled
  <2> QED BY <1>1, <2>1, <2>2, <2>3, ActivationHoldsLink DEF Settled
<1>2. IInv /\ [Next]_vars =>
        [\A e \in DOMAIN onboarding :
           Settled(e) => Settled(e)' /\ users'[e].password = users[e].password]_vars
  BY <1>1
<1> QED BY <1>2, Invariance, PTL DEF Spec, PasswordFinal

-----------------------------------------------------------------------------
(* The count of a signup link.                                             *)

\* The count a registration has loaded, like the one in the table, is at most the
\* number of clients: clients are only ever added.
CountsFit ==
  /\ IsFiniteSet(DOMAIN clients)
  /\ SignupsNotInvented
  /\ \A s \in Sessions :
       tx[s].op = "register" => tx[s].uses <= Cardinality(ClientsOf(tx[s].vendor))

LEMMA ClientsFinite ==
  ASSUME IsFiniteSet(DOMAIN clients), NEW v
  PROVE  IsFiniteSet(ClientsOf(v)) /\ Cardinality(ClientsOf(v)) \in Nat
BY FS_Subset, FS_CardinalityType DEF ClientsOf

\* A registration adds one client to its vendor, and no step removes any.
LEMMA ClientsGrow ==
  ASSUME IInv, CountsFit, [Next]_vars
  PROVE  /\ IsFiniteSet(DOMAIN clients')
         /\ \A v \in Emails : Cardinality(ClientsOf(v)) <= Cardinality(ClientsOf(v)')
         /\ \A s \in Sessions : \A v \in Emails :
              CommitRegister(s) /\ tx[s].vendor = v =>
                Cardinality(ClientsOf(v)') = Cardinality(ClientsOf(v)) + 1
<1>1. ASSUME NEW s \in Sessions, NEW w \in Emails, CommitRegister(s), tx[s].vendor = w
      PROVE  /\ IsFiniteSet(DOMAIN clients')
             /\ \A v \in Emails : Cardinality(ClientsOf(v)) <= Cardinality(ClientsOf(v)')
             /\ Cardinality(ClientsOf(w)') = Cardinality(ClientsOf(w)) + 1
  <2> DEFINE e == tx[s].email
  <2>1. e \notin DOMAIN clients /\ clients' = With(clients, e, w)
    BY <1>1 DEF CommitRegister, EmailFree, IInv, RowsTogether, Of
  <2>2. DOMAIN clients' = DOMAIN clients \cup {e}
    BY <2>1 DEF With
  <2>3. IsFiniteSet(DOMAIN clients')
    BY <2>2, FS_AddElement DEF CountsFit
  <2>4. ClientsOf(w)' = ClientsOf(w) \cup {e} /\ e \notin ClientsOf(w)
    BY <2>1 DEF ClientsOf, With
  <2>5. Cardinality(ClientsOf(w)') = Cardinality(ClientsOf(w)) + 1
    <3>1. IsFiniteSet(ClientsOf(w))
      BY ClientsFinite DEF CountsFit
    <3> QED BY <2>4, <3>1, FS_AddElement
  <2>6. ASSUME NEW v \in Emails, v # w
        PROVE  ClientsOf(v)' = ClientsOf(v)
    BY <2>1, <2>6 DEF ClientsOf, With
  <2>7. \A v : Cardinality(ClientsOf(v)) \in Nat
    BY ClientsFinite DEF CountsFit
  <2>8. ASSUME NEW v \in Emails
        PROVE  Cardinality(ClientsOf(v)) <= Cardinality(ClientsOf(v)')
    <3>1. CASE v = w
      BY <2>5, <2>7, <3>1
    <3>2. CASE v # w
      BY <2>6, <2>7, <3>2
    <3> QED BY <3>1, <3>2
  <2> QED BY <2>3, <2>5, <2>8
<1>2. ASSUME NEW s \in Sessions, CommitInvite(s)
      PROVE  /\ IsFiniteSet(DOMAIN clients')
             /\ \A v \in Emails : ClientsOf(v)' = ClientsOf(v)
  <2> DEFINE e == tx[s].email
  <2>1. CASE clients' = clients
    BY <2>1 DEF ClientsOf, CountsFit
  <2>2. CASE clients' = With(clients, e, NoVendor)
    <3>1. e \notin DOMAIN clients
      BY <1>2, InviteEffect DEF EmailFree, IInv, RowsTogether, Of
    <3>2. DOMAIN clients' = DOMAIN clients \cup {e}
      BY <2>2 DEF With
    <3>3. IsFiniteSet(DOMAIN clients')
      BY <3>2, FS_AddElement DEF CountsFit
    <3> QED BY <2>2, <3>1, <3>3, NamesAssumption DEF ClientsOf, With
  <2> QED BY <1>2, <2>1, <2>2, InviteEffect
<1>3. ASSUME clients' = clients
      PROVE  IsFiniteSet(DOMAIN clients') /\ \A v \in Emails : ClientsOf(v)' = ClientsOf(v)
  BY <1>3 DEF ClientsOf, CountsFit
<1>4. \/ \E s \in Sessions : CommitInvite(s) \/ CommitRegister(s)
      \/ clients' = clients
  BY OtherSteps DEF AccountStep, CommitActivation, UpdateVendor, ExpireLink, accounts
<1>5. \A v : Cardinality(ClientsOf(v)) \in Nat
  BY ClientsFinite DEF CountsFit
<1>6. \A s \in Sessions : CommitRegister(s) => tx[s].vendor \in Emails
  BY HeldType DEF CommitRegister, IInv, RegisterTx
<1>7. IsFiniteSet(DOMAIN clients')
  BY <1>1, <1>2, <1>3, <1>4, <1>6
<1>8. ASSUME NEW v \in Emails
      PROVE  Cardinality(ClientsOf(v)) <= Cardinality(ClientsOf(v)')
  <2>1. CASE ClientsOf(v)' = ClientsOf(v)
    BY <1>5, <2>1
  <2>2. CASE \E s \in Sessions : CommitRegister(s)
    BY <1>1, <1>6, <2>2
  <2> QED BY <1>2, <1>3, <1>4, <2>1, <2>2
<1> QED BY <1>1, <1>7, <1>8

LEMMA CountsInitially == Init => CountsFit
BY FS_EmptySet DEF Init, CountsFit, SignupsNotInvented, Idle

LEMMA CountsPreserved == IInv /\ CountsFit /\ [Next]_vars => CountsFit'
<1> SUFFICES ASSUME IInv, CountsFit, [Next]_vars PROVE CountsFit'
  OBVIOUS
<1>1. \A v : Cardinality(ClientsOf(v)) \in Nat /\ Cardinality(ClientsOf(v)') \in Nat
  BY ClientsFinite, ClientsGrow, FS_Subset, FS_CardinalityType DEF CountsFit, ClientsOf
<1>2. ASSUME NEW t \in Sessions, NEW v \in Emails, tx[t].op = "register", tx[t].vendor = v
      PROVE  tx[t].uses <= Cardinality(ClientsOf(v)')
  <2>1. tx[t].uses <= Cardinality(ClientsOf(v)) /\ tx[t].uses \in Nat
    BY <1>2, HeldType DEF CountsFit, IInv, RegisterTx
  <2> QED BY <1>1, <2>1, ClientsGrow
<1>3. ASSUME NEW t \in Sessions, NEW v \in Emails, tx'[t].op = "register", tx'[t].vendor = v
      PROVE  tx'[t].uses <= Cardinality(ClientsOf(v)')
  <2>1. CASE tx'[t] = tx[t]
    BY <1>2, <1>3, <2>1
  <2>2. ASSUME NEW e \in Emails, NEW w \in DOMAIN signups, NEW pw \in Passwords,
               BeginRegister(t, e, w, pw)
        PROVE  tx'[t].uses <= Cardinality(ClientsOf(v)')
    <3>1. tx'[t] = [op |-> "register", email |-> e, vendor |-> w, password |-> pw,
                    uses |-> signups[w]]
      BY <2>2 DEF BeginRegister, Hold, IInv, TypeOK
    <3>2. w = v /\ signups[v] <= Cardinality(ClientsOf(v)) /\ signups[v] \in Nat
      BY <1>3, <3>1 DEF CountsFit, SignupsNotInvented, IInv, TypeOK
    <3> QED BY <1>1, <3>1, <3>2, ClientsGrow
  <2>3. \/ tx'[t] = tx[t]
        \/ \E e \in Emails, w \in DOMAIN signups, pw \in Passwords : BeginRegister(t, e, w, pw)
    <3>1. ASSUME NEW s \in Sessions, NEW held, Hold(s, held), held.op # "register"
          PROVE  tx'[t] = tx[t]
      BY <1>3, <3>1 DEF Hold, IInv, TypeOK
    <3>2. ASSUME NEW s \in Sessions, NEW e \in Emails, NEW w \in DOMAIN signups,
                 NEW pw \in Passwords, BeginRegister(s, e, w, pw)
          PROVE  tx'[t] = tx[t] \/ s = t
      BY <3>2 DEF BeginRegister, Hold, IInv, TypeOK
    <3>3. Idle.op # "register"
      BY DEF Idle
    <3>4. ASSUME NEW s \in Sessions, NEW e \in Emails, NEW role \in {"vendor", "wholesale"},
                 BeginInvite(s, e, role)
          PROVE  tx'[t] = tx[t]
      BY <3>1, <3>4 DEF BeginInvite
    <3>5. ASSUME NEW s \in Sessions,
                 CommitInvite(s) \/ (\E k \in TokenIds : SaveToken(s, k)) \/ Rollback(s)
          PROVE  tx'[t] = tx[t]
      BY <3>1, <3>3, <3>5, InviteEffect DEF SaveToken, Rollback
    <3>6. ASSUME NEW s \in Sessions, NEW e \in DOMAIN onboarding, NEW pw \in Passwords,
                 LoadLink(s, e, pw)
          PROVE  tx'[t] = tx[t]
      BY <3>1, <3>6 DEF LoadLink
    <3>7. ASSUME NEW s \in Sessions, LoadAccount(s)
          PROVE  tx'[t] = tx[t]
      BY <3>1, <3>7 DEF LoadAccount
    <3>8. ASSUME NEW s \in Sessions, CommitActivation(s) \/ CommitRegister(s)
          PROVE  tx'[t] = tx[t]
      BY <3>1, <3>8 DEF CommitActivation, CommitRegister
    <3>9. ASSUME NEW s \in Sessions, NEW e \in DOMAIN users, NEW pw \in Passwords,
                 Login(s, e, pw)
          PROVE  tx'[t] = tx[t]
      BY <3>1, <3>9 DEF Login
    <3>10. CASE tx' = tx
      BY <3>10
    <3>11. Next \/ tx' = tx
      BY DEF vars
    <3> QED
      BY <3>2, <3>4, <3>5, <3>6, <3>7, <3>8, <3>9, <3>10, <3>11
      DEF Next, CommitInvite, EndToken, UpdateVendor, ExpireLink
  <2> QED BY <2>1, <2>2, <2>3
<1>4. ASSUME NEW v \in DOMAIN signups'
      PROVE  signups'[v] <= Cardinality(ClientsOf(v)')
  <2>1. v \in Emails
    BY TypePreserved DEF IInv, TypeOK
  <2>2. CASE v \in DOMAIN signups /\ signups'[v] = signups[v]
    <3>1. signups[v] <= Cardinality(ClientsOf(v)) /\ signups[v] \in Nat
      BY <2>2 DEF CountsFit, SignupsNotInvented, IInv, TypeOK
    <3> QED BY <1>1, <2>1, <2>2, <3>1, ClientsGrow
  <2>3. ASSUME NEW s \in Sessions, CommitInvite(s)
        PROVE  signups'[v] = 0 \/ (v \in DOMAIN signups /\ signups'[v] = signups[v])
    <3>1. signups' = signups \/ signups' = With(signups, tx[s].email, 0)
      BY <2>3, InviteEffect
    <3> QED BY <3>1 DEF With
  <2>4. ASSUME NEW s \in Sessions, CommitRegister(s)
        PROVE  \/ v \in DOMAIN signups /\ signups'[v] = signups[v]
               \/ signups'[v] <= Cardinality(ClientsOf(v)')
    <3>1. tx[s].op = "register" /\ signups' = [signups EXCEPT ![tx[s].vendor] = tx[s].uses + 1]
      BY <2>4 DEF CommitRegister
    <3>2. CASE tx[s].vendor = v
      <4>1. tx[s].uses <= Cardinality(ClientsOf(v)) /\ tx[s].uses \in Nat
        BY <3>1, <3>2, HeldType DEF CountsFit, IInv, RegisterTx
      <4>2. Cardinality(ClientsOf(v)') = Cardinality(ClientsOf(v)) + 1
        BY <2>1, <2>4, <3>2, ClientsGrow
      <4> QED BY <1>1, <3>1, <3>2, <4>1, <4>2
    <3>3. CASE tx[s].vendor # v
      BY <3>1, <3>3
    <3> QED BY <3>2, <3>3
  <2>5. \/ \E s \in Sessions : CommitInvite(s) \/ CommitRegister(s)
        \/ signups' = signups
    BY OtherSteps DEF AccountStep, CommitActivation, UpdateVendor, ExpireLink, accounts
  <2> QED BY <1>1, <2>2, <2>3, <2>4, <2>5
<1>5. ASSUME NEW t \in Sessions, tx'[t].op = "register"
      PROVE  tx'[t].vendor \in Emails
  <2>1. tx'[t] \in TxTypes
    BY TypePreserved DEF IInv, TypeOK, TxTypes
  <2>2. tx'[t] \in RegisterTx
    BY <1>5, <2>1 DEF TxTypes, Idle, InviteTx, LinkTx, ActivateTx, RegisterTx, TokenTx
  <2> QED BY <2>2 DEF RegisterTx
<1> QED BY <1>3, <1>4, <1>5, ClientsGrow DEF CountsFit, SignupsNotInvented

\* A signup link never counts a registration that did not happen.
THEOREM SignupsAreReal == Spec => []SignupsNotInvented
<1>1. CountsFit => SignupsNotInvented
  BY DEF CountsFit
<1> QED BY <1>1, CountsInitially, CountsPreserved, Invariance, PTL DEF Spec

=============================================================================
