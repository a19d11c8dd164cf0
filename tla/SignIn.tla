------------------------------- MODULE SignIn -------------------------------
(***************************************************************************)
(* Signing in to the dashboard (src/frontend/src): App's switch between    *)
(* AuthGate and Dashboard, the calls of near/wallet.ts, the unlock, the    *)
(* profile check and onboarding, and Lock Vault, in tabs that share        *)
(* localStorage.  The wallet and the gateway's sessions are external here: *)
(* AuthSession and UserAccounts model the gateway's part.  Names that      *)
(* every module has carry SI here, so that proofs can extend this module   *)
(* together with SkillRun, the console of the same dashboard.              *)
(***************************************************************************)
EXTENDS Naturals

CONSTANTS
  Tab,       \* browser tabs with the page open
  Account,   \* NEAR accounts of the user
  Token,     \* session ids the gateway can draw
  None

VARIABLES
  wallet,    \* the account the wallet selector keeps in localStorage
  stored,    \* AEGIS_SESSION_TOKEN in localStorage
  owner,     \* the account whose key signed for each token, None when not drawn
  users,     \* registered accounts
  page,      \* per tab: the await the page is in, or what it shows
  loaded,    \* per tab: whether getSelector resolved
  account,   \* per tab: accounts[0] of the selector's store
  modal,     \* per tab: the wallet modal is open
  as,        \* per tab: nearAccountId in handleConnect
  signer,    \* per tab: the account whose key signed the challenge
  session,   \* per tab: App's session
  carried,   \* per tab: the token of the /api call in flight
  keyOf      \* per tab: the account of the displayed API key

SIvars == <<wallet, stored, owner, users, page, loaded, account, modal, as, signer, session, carried, keyOf>>
gateway == <<owner, users>>
selector == <<loaded, account, modal>>
signing == <<as, signer>>
dashboard == <<session, carried, keyOf>>

Gate == {"loading", "restoring", "idle", "selector", "choosing", "challenge", "sign", "unlock"}
Dash == {"mounting", "checking", "wizard", "allocating", "registering", "provisioned", "open", "locking"}
Await == {"loading", "selector", "choosing", "challenge", "unlock", "mounting", "checking",
          "allocating", "registering", "locking"}
Session == [account: Account, token: Token, restored: BOOLEAN]

ASSUME TokenAssumption == Token # {}
ASSUME NoneAssumption == None \notin Account \cup Token \cup Session

SITypeOK ==
  /\ wallet \in Account \cup {None} /\ stored \in Token \cup {None}
  /\ owner \in [Token -> Account \cup {None}] /\ users \subseteq Account
  /\ page \in [Tab -> Gate \cup Dash] /\ loaded \in [Tab -> BOOLEAN] /\ modal \in [Tab -> BOOLEAN]
  /\ account \in [Tab -> Account \cup {None}]
  /\ as \in [Tab -> Account \cup {None}] /\ signer \in [Tab -> Account \cup {None}]
  /\ session \in [Tab -> Session \cup {None}] /\ carried \in [Tab -> Token \cup {None}]
  /\ keyOf \in [Tab -> Account \cup {None}]

SIInit ==
  /\ wallet = None /\ stored = None /\ owner = [k \in Token |-> None] /\ users = {}
  /\ page = [t \in Tab |-> "loading"] /\ loaded = [t \in Tab |-> FALSE]
  /\ account = [t \in Tab |-> None] /\ modal = [t \in Tab |-> FALSE]
  /\ as = [t \in Tab |-> None] /\ signer = [t \in Tab |-> None]
  /\ session = [t \in Tab |-> None] /\ carried = [t \in Tab |-> None] /\ keyOf = [t \in Tab |-> None]

Goto(t, step) == page' = [page EXCEPT ![t] = step]
From(t, step) == page[t] = step

-----------------------------------------------------------------------------
(* App: the session decides which of the two pages is mounted.             *)

(* Mutant: the displayed key outlives the page that showed it.             *)
SetSessionKeepsKey(t, s, step) ==
  /\ session' = [session EXCEPT ![t] = s] /\ UNCHANGED keyOf
  /\ carried' = [carried EXCEPT ![t] = None]
  /\ Goto(t, step)

SetSession(t, s, step) ==
  /\ session' = [session EXCEPT ![t] = s]
  /\ carried' = [carried EXCEPT ![t] = None]
  /\ keyOf' = [keyOf EXCEPT ![t] = None]
  /\ Goto(t, step)

Forget(t) == as' = [as EXCEPT ![t] = None] /\ signer' = [signer EXCEPT ![t] = None]

(* A reload forgets all but localStorage.                                  *)
Reload(t) ==
  /\ SetSession(t, None, "loading")
  /\ loaded' = [loaded EXCEPT ![t] = FALSE] /\ account' = [account EXCEPT ![t] = None]
  /\ modal' = [modal EXCEPT ![t] = FALSE]
  /\ Forget(t)
  /\ UNCHANGED <<wallet, stored, gateway>>

-----------------------------------------------------------------------------
(* AuthGate.                                                               *)

(* getSelector, once per page: set up from localStorage, or rejected for   *)
(* as long as the page lives.                                              *)
LoadSelector(t) ==
  /\ From(t, "loading")
  /\ \/ /\ loaded' = [loaded EXCEPT ![t] = TRUE] /\ account' = [account EXCEPT ![t] = wallet]
        /\ Goto(t, "restoring")
     \/ Goto(t, "idle") /\ UNCHANGED <<loaded, account>>
  /\ UNCHANGED <<wallet, stored, gateway, modal, signing, dashboard>>

(* Mutant: the token alone restores.                                       *)
RestorableByToken(t) == stored # None

Restorable(t) == account[t] # None /\ stored # None

(* The first effect: whichever account is connected takes the stored token.*)
Restore(t) ==
  /\ From(t, "restoring")
  /\ IF Restorable(t)
     THEN SetSession(t, [account |-> account[t], token |-> stored, restored |-> TRUE], "mounting")
     ELSE Goto(t, "idle") /\ UNCHANGED dashboard
  /\ UNCHANGED <<wallet, stored, gateway, selector, signing>>

Connect(t) ==
  /\ From(t, "idle") /\ Goto(t, "selector")
  /\ UNCHANGED <<wallet, stored, gateway, selector, signing, dashboard>>

(* connectWallet: an account that is connected is taken without waiting.   *)
OpenModal(t) ==
  /\ From(t, "selector")
  /\ \/ /\ loaded[t] /\ modal' = [modal EXCEPT ![t] = TRUE]
        /\ as' = [as EXCEPT ![t] = account[t]]
        /\ Goto(t, IF account[t] = None THEN "choosing" ELSE "challenge")
     \/ Goto(t, "idle") /\ UNCHANGED <<modal, as>>
  /\ UNCHANGED <<wallet, stored, gateway, loaded, account, signer, dashboard>>

(* The user connects an account in the modal, now or much later, or closes *)
(* it; the subscription sees it only while connectWallet waits.            *)
Pick(t) ==
  /\ modal[t] /\ modal' = [modal EXCEPT ![t] = FALSE]
  /\ \/ \E a \in Account :
          /\ wallet' = a /\ account' = [account EXCEPT ![t] = a]
          /\ IF From(t, "choosing") THEN as' = [as EXCEPT ![t] = a] /\ Goto(t, "challenge")
             ELSE UNCHANGED <<as, page>>
     \/ UNCHANGED <<wallet, account, as, page>>
  /\ UNCHANGED <<stored, gateway, loaded, signer, dashboard>>

(* Mutant: no timer.                                                       *)
TimeOutNever(t) == FALSE /\ UNCHANGED SIvars

TimeOut(t) ==
  /\ From(t, "choosing") /\ Goto(t, "idle")
  /\ UNCHANGED <<wallet, stored, gateway, selector, signing, dashboard>>

GetChallenge(t) ==
  /\ From(t, "challenge")
  /\ \/ Goto(t, "sign") /\ UNCHANGED signing
     \/ Goto(t, "idle") /\ Forget(t)
  /\ UNCHANGED <<wallet, stored, gateway, selector, dashboard>>

(* The wallet asks the user, who may sign with the account that is active  *)
(* by now or refuse.                                                       *)
Sign(t) ==
  /\ From(t, "sign")
  /\ \/ account[t] # None /\ signer' = [signer EXCEPT ![t] = account[t]] /\ Goto(t, "unlock") /\ UNCHANGED as
     \/ Goto(t, "idle") /\ Forget(t)
  /\ UNCHANGED <<wallet, stored, gateway, selector, dashboard>>

(* Mutant: the account the wallet has by now.                              *)
SignedInActive(t) == account[t]

(* The account handleConnect began with.                                   *)
SignedInAs(t) == as[t]

(* The gateway wants a signature by a key of nearAccountId.                *)
Unlocks(t) == signer[t] = as[t]

(* The id drawn next: they are random, so none is special.                 *)
Fresh == IF \E k \in Token : owner[k] = None THEN CHOOSE k \in Token : owner[k] = None
         ELSE CHOOSE k \in Token : TRUE

(* A new token, whose answer may be lost; or a refusal.                    *)
Unlock(t) ==
  /\ From(t, "unlock")
  /\ \/ /\ Unlocks(t)
        /\ owner[Fresh] = None /\ owner' = [owner EXCEPT ![Fresh] = signer[t]]
        /\ \/ /\ stored' = Fresh
              /\ SetSession(t, [account |-> SignedInAs(t), token |-> Fresh, restored |-> FALSE], "mounting")
           \/ Goto(t, "idle") /\ UNCHANGED <<stored, dashboard>>
     \/ Goto(t, "idle") /\ UNCHANGED <<owner, stored, dashboard>>
  /\ Forget(t)
  /\ UNCHANGED <<wallet, users, selector>>

-----------------------------------------------------------------------------
(* Dashboard.  Every call carries the token localStorage holds when it is  *)
(* sent, whoever the session names.                                        *)

Caller(t) == owner[carried[t]]

(* The effect of the mounted Dashboard sends the profile check.            *)
Mounted(t) ==
  /\ From(t, "mounting") /\ Goto(t, "checking")
  /\ carried' = [carried EXCEPT ![t] = stored]
  /\ UNCHANGED <<wallet, stored, gateway, selector, signing, session, keyOf>>

(* checkProfile: only USER_NOT_REGISTERED leads to the onboarding.         *)
CheckProfile(t) ==
  /\ From(t, "checking")
  /\ \/ /\ Caller(t) \in users
        /\ keyOf' = [keyOf EXCEPT ![t] = Caller(t)] /\ Goto(t, "open")
     \/ Caller(t) \notin users /\ Goto(t, "wizard") /\ UNCHANGED keyOf
     \/ Goto(t, "open") /\ UNCHANGED keyOf      \* any other error
  /\ carried' = [carried EXCEPT ![t] = None]
  /\ UNCHANGED <<wallet, stored, gateway, selector, signing, session>>

Provision(t) ==
  /\ From(t, "wizard") /\ Goto(t, "allocating")
  /\ UNCHANGED <<wallet, stored, gateway, selector, signing, dashboard>>

Allocated(t) ==
  /\ From(t, "allocating") /\ Goto(t, "registering")
  /\ carried' = [carried EXCEPT ![t] = stored]
  /\ UNCHANGED <<wallet, stored, gateway, selector, signing, session, keyOf>>

(* registerUser: the row is made, or the existing one answered.            *)
Registered(t) ==
  /\ From(t, "registering")
  /\ \/ /\ users' = users \cup {Caller(t)}
        /\ \/ keyOf' = [keyOf EXCEPT ![t] = Caller(t)] /\ Goto(t, "provisioned")
           \/ Goto(t, "wizard") /\ UNCHANGED keyOf
     \/ Goto(t, "wizard") /\ UNCHANGED <<users, keyOf>>
  /\ carried' = [carried EXCEPT ![t] = None]
  /\ UNCHANGED <<wallet, stored, owner, selector, signing, session>>

EnterWorkspace(t) ==
  /\ From(t, "provisioned") /\ Goto(t, "open")
  /\ UNCHANGED <<wallet, stored, gateway, selector, signing, dashboard>>

Lock(t) ==
  /\ From(t, "open") /\ Goto(t, "locking")
  /\ UNCHANGED <<wallet, stored, gateway, selector, signing, dashboard>>

(* Signing out of the wallet is best effort; the token stays.              *)
SignedOut(t) ==
  /\ From(t, "locking")
  /\ \/ wallet' = None /\ account' = [account EXCEPT ![t] = None]
     \/ UNCHANGED <<wallet, account>>
  /\ SetSession(t, None, "restoring")
  /\ UNCHANGED <<stored, gateway, loaded, modal, signing>>

-----------------------------------------------------------------------------

(* What the page does of itself once an await settles.                     *)
PageStep(t) ==
  \/ LoadSelector(t) \/ Restore(t) \/ OpenModal(t) \/ TimeOut(t) \/ GetChallenge(t) \/ Unlock(t)
  \/ Mounted(t) \/ CheckProfile(t) \/ Allocated(t) \/ Registered(t) \/ SignedOut(t)

SINext ==
  \E t \in Tab : \/ PageStep(t) \/ Reload(t) \/ Connect(t) \/ Pick(t) \/ Sign(t)
                 \/ Provision(t) \/ EnterWorkspace(t) \/ Lock(t)

(* Requests, imports and timers settle.                                    *)
SIFairness == \A t \in Tab : WF_SIvars(PageStep(t))

SISpec == SIInit /\ [][SINext]_SIvars /\ SIFairness

-----------------------------------------------------------------------------
(* Properties.                                                             *)

(* A session that was not restored holds a token its own account signed    *)
(* for, whatever account the user connected while handleConnect waited.    *)
SignedByItsAccount ==
  \A t \in Tab :
    session[t] # None /\ ~session[t].restored => owner[session[t].token] = session[t].account

(* A page whose token is its own account's displays no other account's     *)
(* API key, as long as no other tab has signed in since.                   *)
ShowsItsOwnKey ==
  \A t \in Tab :
    /\ session[t] # None
    /\ stored = session[t].token
    /\ owner[stored] = session[t].account
    => keyOf[t] \in {None, session[t].account}

(* No await of the page lasts for ever: connecting ends without the user's *)
(* choice, and only the wallet's own signature prompt waits for the user.  *)
NothingHangs == \A t \in Tab : page[t] \in Await ~> page[t] \notin Await
=============================================================================
