----------------------------- MODULE UserLogin ------------------------------
(***************************************************************************)
(* Users and their sign in: AuthService.login, which finds the user of an  *)
(* address or creates one and signs tokens that name it, and the user      *)
(* routes that create and change users meanwhile.                          *)
(*                                                                         *)
(* No index makes the address unique.  A document is named by the request  *)
(* that creates it.                                                        *)
(***************************************************************************)
CONSTANTS
  Logins,     \* POST auth/sign-in requests
  Creates,    \* POST users requests
  Addresses,  \* wallets
  Names,      \* the values of the other fields of a user
  Unset,      \* the address of a user whose address was unset
  None

ASSUME RequestsAssumption == Logins \cap Creates = {}
ASSUME NoneAssumption ==
  /\ None \notin Addresses \cup Names \cup Logins \cup Creates \cup {Unset}
  /\ Unset \notin Addresses

VARIABLES
  user,            \* the user documents, NoUser where there is none
  login,           \* the logins: where they are, and their address
  token,           \* what the tokens of a finished login say
  racedAddresses,  \* history variable: addresses that may have several users
  readdressed      \* history variable: users whose address an update changed

userVars == <<user, login, token, racedAddresses, readdressed>>

Ids == Logins \cup Creates

NoUser == [address |-> None, first_name |-> None]
NoToken == [id |-> None, address |-> None, first_name |-> None]
User == [address : Addresses \cup {Unset}, first_name : Names \cup {None}]

Users == {u \in Ids : user[u] # NoUser}
Of(address) == {u \in Ids : user[u].address = address}

\* A login that found nobody is about to create a user of the address.
AboutToCreate(address) ==
  \E r \in Logins : login[r].pc = "create" /\ login[r].address = address

----------------------------------------------------------------------------
LoginInit ==
  /\ user = [u \in Ids |-> NoUser]
  /\ login = [q \in Logins |-> [pc |-> "idle", address |-> None]]
  /\ token = [q \in Logins |-> NoToken]
  /\ racedAddresses = {}
  /\ readdressed = {}

\* The tokens are signed, without a further await, from the document at hand.
Payload(u, doc) == [id |-> u, address |-> doc.address, first_name |-> doc.first_name]

\* Mutant: nobody is found.
FindNobody(address) == {}

\* findOne({address}) names no order: any of the users of the address.
FindByAddress(address) == Of(address)

\* login, up to its first await: the tokens of a user found, or a user to create.
LoginFound(q, a) ==
  /\ login[q].pc = "idle"
  /\ \E u \in FindByAddress(a) : token' = [token EXCEPT ![q] = Payload(u, user[u])]
  /\ login' = [login EXCEPT ![q] = [pc |-> "done", address |-> a]]
  /\ UNCHANGED <<user, racedAddresses, readdressed>>

\* Two logins that found nobody both go on to create.
LoginMissed(q, a) ==
  /\ login[q].pc = "idle" /\ FindByAddress(a) = {}
  /\ login' = [login EXCEPT ![q] = [pc |-> "create", address |-> a]]
  /\ racedAddresses' =
       IF AboutToCreate(a) THEN racedAddresses \cup {a} ELSE racedAddresses
  /\ UNCHANGED <<user, token, readdressed>>

\* The user is created from the body of the login, which has its address only.
LoginCreate(q) ==
  LET doc == [address |-> login[q].address, first_name |-> None] IN
  /\ login[q].pc = "create"
  /\ user' = [user EXCEPT ![q] = doc]
  /\ token' = [token EXCEPT ![q] = Payload(q, doc)]
  /\ login' = [login EXCEPT ![q].pc = "done"]
  /\ UNCHANGED <<racedAddresses, readdressed>>

\* POST users does not look for the address.
create(q, a, name) ==
  /\ user[q] = NoUser
  /\ user' = [user EXCEPT ![q] = [address |-> a, first_name |-> name]]
  /\ racedAddresses' =
       IF Of(a) # {} \/ AboutToCreate(a) THEN racedAddresses \cup {a} ELSE racedAddresses
  /\ UNCHANGED <<login, token, readdressed>>

\* Mutant: the address of the body is written as well.
updateAddress(u, a, name, set) ==
  /\ u \in Users
  /\ user' = [user EXCEPT ![u] = [address |-> a, first_name |-> name]]
  /\ UNCHANGED <<login, token, racedAddresses, readdressed>>

\* PUT users: the address `a` of the body is dropped.  Nothing else of the body is
\* looked at and it is the update itself, so that an operator in it writes the
\* address: `set`, which is None when the body has no such operator.
update(u, a, name, set) ==
  LET address == IF set = None THEN user[u].address ELSE set IN
  /\ u \in Users
  /\ user' = [user EXCEPT ![u] = [address |-> address, first_name |-> name]]
  /\ readdressed' =
       IF address # user[u].address THEN readdressed \cup {u} ELSE readdressed
  /\ racedAddresses' =
       IF address # user[u].address /\ (Of(address) # {} \/ AboutToCreate(address))
       THEN racedAddresses \cup {address} ELSE racedAddresses
  /\ UNCHANGED <<login, token>>

LoginNext ==
  \/ \E q \in Logins, a \in Addresses : LoginFound(q, a) \/ LoginMissed(q, a)
  \/ \E q \in Logins : LoginCreate(q)
  \/ \E q \in Creates, a \in Addresses, name \in Names : create(q, a, name)
  \/ \E u \in Users, a \in Addresses, name \in Names, set \in Addresses \cup {Unset, None} :
       update(u, a, name, set)

LoginSpec == LoginInit /\ [][LoginNext]_userVars

----------------------------------------------------------------------------
(* Properties.                                                             *)

LoginTypeOK ==
  /\ user \in [Ids -> User \cup {NoUser}]
  /\ login \in [Logins -> [pc : {"idle", "create", "done"}, address : Addresses \cup {None}]]
  /\ token \in [Logins -> [id : Ids \cup {None}, address : Addresses \cup {None},
                           first_name : Names \cup {None}]]
  /\ racedAddresses \subseteq Addresses \cup {Unset}
  /\ readdressed \subseteq Users

\* The user a token names exists, the token says the address it was given for, and
\* the user has that address for as long as no update gives it another one: the
\* address a body names directly never does.
TokenNamesItsUser ==
  \A q \in Logins :
    login[q].pc = "done" =>
      /\ token[q].id \in Users
      /\ token[q].address = login[q].address
      /\ user[token[q].id].address = login[q].address \/ token[q].id \in readdressed

\* An address has one user, unless two first logins overlapped, or a user was
\* created for it or given it beside: a login of a known wallet never makes another.
OneUserUnlessRaced ==
  \A u, v \in Users :
    user[u].address = user[v].address /\ user[u].address \notin racedAddresses \cup {Unset}
    => u = v

\* So the logins of a wallet agree on its user, while it keeps its address: what is
\* stored under the id of one session is found in the next.
LoginsAgree ==
  \A q, r \in Logins :
    /\ login[q].pc = "done" /\ login[r].pc = "done" /\ login[q].address = login[r].address
    /\ login[q].address \notin racedAddresses
    /\ {token[q].id, token[r].id} \cap readdressed = {}
    => token[q].id = token[r].id
=============================================================================
