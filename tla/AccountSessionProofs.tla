------------------------ MODULE AccountSessionProofs ------------------------
(***************************************************************************)
(* Theorems about AccountSession, for every number of adapters, sign-ins,  *)
(* tokens and quits.                                                       *)
(***************************************************************************)
EXTENDS AccountSession, TLAPS

USE AdaptersAssumption, BoundsAssumption, WorldsAssumption DEF Account, Person, At

Phase == {"idle", "ready", "starting", "checking", "renewing", "confirming",
          "saving", "noting", "keeping", "rechecking", "refused", "leaving",
          "approved", "opening", "revoking", "clearing"}

----------------------------------------------------------------------------
(* The type invariant *)

\* A step of a client changes its phase and nothing else.
LEMMA Stepped ==
    ASSUME TypeOK, NEW c \in Clients, NEW pc \in Phase, Step(c, pc)
    PROVE  /\ client' \in [Clients -> Client]
           /\ client'[c].pc = pc /\ client'[c].pair = client[c].pair
           /\ \A d \in Clients \ {c} : client'[d] = client[d]
<1>1. client[c] \in Client
  BY DEF TypeOK
<1>2. [client[c] EXCEPT !.pc = pc] \in Client
  BY <1>1 DEF Client, Phase
<1>3. client' = [client EXCEPT ![c] = [client[c] EXCEPT !.pc = pc]]
  BY DEF Step
<1> QED  BY <1>1, <1>2, <1>3 DEF TypeOK, Client

\* ... or takes the tokens p in memory as well.
LEMMA SteppedWith ==
    ASSUME TypeOK, NEW c \in Clients, NEW pc \in Phase,
           NEW p \in Pair \cup {NoPair}, StepWith(c, pc, p)
    PROVE  /\ client' \in [Clients -> Client]
           /\ client'[c].pc = pc /\ client'[c].pair = p
           /\ \A d \in Clients \ {c} : client'[d] = client[d]
<1>1. [pc |-> pc, pair |-> p] \in Client
  BY DEF Client, Phase
<1> QED  BY <1>1 DEF TypeOK, StepWith

LEMMA ClientPair ==
    ASSUME TypeOK, NEW c \in Clients
    PROVE  client[c].pair \in Pair \cup {NoPair} /\ client[c].pc \in Phase
BY DEF TypeOK, Client, Phase

\* The server issues a token it has not issued before.
LEMMA Issued ==
    ASSUME TypeOK, NEW s \in 0 .. MaxSignIns, IssueFor(s)
    PROVE  /\ Fresh \in Token /\ issued' \in 0 .. MaxIssued
           /\ session' \in [Token -> 0 .. MaxSignIns]
           /\ session'[Fresh] = s
           /\ \A n \in Token \ {Fresh} : session'[n] = session[n]
           /\ usable' = usable \cup {Fresh} /\ usable' \subseteq Token
<1>1. Fresh \in Token
  BY DEF TypeOK, IssueFor, Fresh, Token
<1>2. issued' \in 0 .. MaxIssued
  BY DEF TypeOK, IssueFor, Fresh
<1> QED  BY <1>1, <1>2 DEF TypeOK, IssueFor

\* What a refresh with an accepted token leaves on the server, and answers.
LEMMA Exchanged ==
    ASSUME TypeOK, NEW m \in renewable, Exchange(m)
    PROVE  /\ Fresh \in Token /\ issued' \in 0 .. MaxIssued
           /\ session' \in [Token -> 0 .. MaxSignIns]
           /\ session'[Fresh] = session[m]
           /\ \A n \in Token \ {Fresh} : session'[n] = session[n]
           /\ usable' = usable \cup {Fresh} /\ usable' \subseteq Token
           /\ renewable' \subseteq Token
           /\ Renewed(m) \in Pair
           /\ Renewed(m).refresh \in renewable' /\ Renewed(m).access \in usable'
           /\ signIns' = signIns
<1>1. m \in Token /\ session[m] \in 0 .. MaxSignIns
  BY DEF TypeOK
<1>2. IssueFor(session[m]) /\ signIns' = signIns
  BY DEF Exchange
<1>3. renewable' = IF world.rotates THEN (renewable \ {m}) \cup {Fresh} ELSE renewable
  BY DEF Exchange
<1> HIDE DEF Fresh
<1>4. Renewed(m) \in Pair
  BY <1>1, <1>2, Issued DEF Renewed, Pair
<1>5. Renewed(m).access = Fresh /\ Renewed(m).refresh = IF world.rotates THEN Fresh ELSE m
  BY DEF Renewed
<1> QED  BY <1>1, <1>2, <1>3, <1>4, <1>5, Issued DEF TypeOK

LEMMA Ended ==
    ASSUME TypeOK, NEW s, EndTokens(s)
    PROVE  /\ issued' \in 0 .. MaxIssued /\ signIns' \in 0 .. MaxSignIns
           /\ session' \in [Token -> 0 .. MaxSignIns]
           /\ usable' \subseteq Token /\ renewable' \subseteq Token
BY DEF TypeOK, EndTokens

LEMMA AnsweredType ==
    ASSUME TypeOK, NEW c \in Clients, NEW pc \in Phase, Answered(c, pc)
    PROVE  TypeOK'
BY Stepped DEF Answered, stored, app, server, TypeOK

LEMMA FinishType ==
    ASSUME TypeOK, Finish, store' \in Pair \cup {NoPair}, overtaken' \in BOOLEAN
    PROVE  TypeOK'
BY Stepped DEF Finish, server, TypeOK, Clients, Phase

\* What a client leaves in the store when it writes or clears it.
LEMMA Stored ==
    ASSUME TypeOK, NEW c \in Clients, Save(c) \/ SaveFails(c) \/ (Clear /\ Touch(c))
    PROVE  /\ store' \in {store, client[c].pair, NoPair} /\ store' \in Pair \cup {NoPair}
           /\ overtaken' \in BOOLEAN
<1>1. client[c].pair \in Pair \cup {NoPair} /\ store \in Pair \cup {NoPair}
  BY ClientPair DEF TypeOK
<1>2. overtaken' \in BOOLEAN
  BY DEF Save, SaveFails, Touch
<1> QED  BY <1>1, <1>2 DEF Save, SaveFails, Clear

LEMMA AttemptType ==
    ASSUME TypeOK, Attempt
    PROVE  client' \in [Clients -> Client]
<1>1. store \in Pair \cup {NoPair} /\ Account \in Clients
  BY DEF TypeOK, Clients
<1>2. PICK pc \in {"checking", "renewing"} : StepWith(Account, pc, store)
  BY DEF Attempt
<1> QED  BY <1>1, <1>2, SteppedWith DEF Phase

LEMMA ExchangeType ==
    ASSUME TypeOK, NEW c \in Clients, NEW pc \in Phase, NEW m \in renewable,
           Exchange(m), Step(c, pc) \/ StepWith(c, pc, Renewed(m)),
           UNCHANGED <<stored, app, kept>>
    PROVE  TypeOK'
<1>1. client' \in [Clients -> Client]
  BY Stepped, SteppedWith, Exchanged
<1> QED  BY <1>1, Exchanged DEF stored, app, TypeOK

LEMMA AccountType == TypeOK /\ AccountStep => TypeOK'
<1> SUFFICES ASSUME TypeOK, AccountStep PROVE TypeOK'
  OBVIOUS
<1>0. Account \in Clients
  BY DEF Clients
<1>1. CASE Launch \/ Refresh
  BY <1>1, AttemptType, Zenon DEF Launch, Refresh, stored, server, TypeOK
<1>2. CASE CheckProfile
  BY <1>0, <1>2, AnsweredType, FinishType DEF CheckProfile, GiveUp, stored, Phase, TypeOK
<1>3. CASE RefreshTokens
  BY <1>0, <1>3, AnsweredType, FinishType, ExchangeType
     DEF RefreshTokens, GiveUp, Renews, stored, Phase, TypeOK
<1>4. CASE ConfirmProfile
  <2>1. CASE StepWith(Account, "noting", Offline(store, client[Account].pair))
             /\ UNCHANGED <<stored, app, server, kept>>
    BY <1>0, <2>1, SteppedWith, ClientPair DEF Offline, stored, app, server, Phase, TypeOK
  <2> QED  BY <1>0, <1>4, <2>1, AnsweredType, FinishType
              DEF ConfirmProfile, GiveUp, stored, Phase, TypeOK
<1>5. CASE SaveAccount
  <2>1. store' \in Pair \cup {NoPair} /\ overtaken' \in BOOLEAN
    BY <1>0, <1>5, Stored DEF SaveAccount
  <2>2. CASE Finish
    BY <2>1, <2>2, FinishType
  <2>3. CASE /\ gate' = "locked" /\ unsaved' = TRUE /\ Step(Account, "idle")
             /\ UNCHANGED <<world, refreshed, server, kept, quits>>
    BY <1>0, <2>1, <2>3, Stepped DEF server, Phase, TypeOK
  <2> QED  BY <1>5, <2>2, <2>3 DEF SaveAccount
<1>6. CASE DropAccount
  <2>1. store' \in Pair \cup {NoPair} /\ overtaken' \in BOOLEAN
    BY <1>0, <1>6, Stored DEF DropAccount
  <2> QED  BY <1>0, <1>6, <2>1, Stepped DEF DropAccount, server, Phase, TypeOK
<1> QED  BY <1>1, <1>2, <1>3, <1>4, <1>5, <1>6 DEF AccountStep

LEMMA PersonType == TypeOK /\ PersonStep => TypeOK'
<1> SUFFICES ASSUME TypeOK, PersonStep PROVE TypeOK'
  OBVIOUS
<1>0. Person \in Clients
  BY DEF Clients
<1>1. CASE BeginSignIn
  <2>1. signIns + 1 \in 0 .. MaxSignIns
    <3>1. world.signIns \in 0 .. MaxSignIns
      BY DEF TypeOK, World
    <3> QED  BY <1>1, <3>1 DEF BeginSignIn, TypeOK
  <2>2. Fresh \in Token /\ issued' \in 0 .. MaxIssued /\ usable' \subseteq Token
        /\ session' \in [Token -> 0 .. MaxSignIns]
    BY <1>1, <2>1, Issued DEF BeginSignIn
  <2>3. [access |-> Fresh, refresh |-> Fresh] \in Pair
    BY <2>2 DEF Pair
  <2>4. client' \in [Clients -> Client]
    BY <1>0, <1>1, <2>3, SteppedWith DEF BeginSignIn, Phase
  <2> QED  BY <1>1, <2>1, <2>2, <2>4 DEF BeginSignIn, stored, app, TypeOK
<1>2. CASE FinishSignIn
  BY <1>0, <1>2, AnsweredType DEF FinishSignIn, Phase
<1>3. CASE SaveSignIn
  <2>1. store' \in Pair \cup {NoPair} /\ overtaken' \in BOOLEAN
    BY <1>0, <1>3, Stored, ClientPair DEF SaveSignIn
  <2> QED  BY <1>0, <1>3, <2>1, Stepped DEF SaveSignIn, app, server, Phase, TypeOK
<1>4. CASE OpenSession
  <2>1. kept' \in 0 .. MaxSignIns
    BY <1>4 DEF OpenSession, OfSession, TypeOK
  <2> QED  BY <1>0, <1>4, <2>1, Stepped DEF OpenSession, stored, server, Phase, TypeOK
<1>5. CASE SignOut
  BY <1>0, <1>5, SteppedWith DEF SignOut, stored, app, server, Phase, TypeOK
<1>6. CASE Revoke
  BY <1>0, <1>6, Stepped, Ended DEF Revoke, stored, app, server, Phase, TypeOK
<1>7. CASE ClearAccount
  BY <1>0, <1>7, Stepped DEF ClearAccount, Clear, server, Phase, TypeOK
<1> QED  BY <1>1, <1>2, <1>3, <1>4, <1>5, <1>6, <1>7 DEF PersonStep

LEMMA AdapterType == ASSUME TypeOK, NEW a \in Adapters, AdapterStep(a) PROVE TypeOK'
<1>0. a \in Clients /\ store \in Pair \cup {NoPair} /\ NoPair \in Pair \cup {NoPair}
  BY DEF Clients, TypeOK
<1>1. CASE StartAdapter(a)
  BY <1>0, <1>1, SteppedWith DEF StartAdapter, stored, app, server, Phase, TypeOK
<1>2. CASE StopAdapter(a)
  BY <1>0, <1>2, SteppedWith DEF StopAdapter, stored, app, server, Phase, TypeOK
<1>3. CASE ToolRefused(a)
  BY <1>0, <1>3, AnsweredType DEF ToolRefused, Phase
<1>4. CASE ExchangeRefresh(a)
  <2>1. AfterError(a) \in Phase
    BY DEF AfterError, Phase
  <2> QED  BY <1>0, <1>4, <2>1, AnsweredType, ExchangeType DEF ExchangeRefresh, Renews, Phase
<1>5. CASE PersistRefresh(a)
  <2>1. store' \in Pair \cup {NoPair} /\ overtaken' \in BOOLEAN
    BY <1>0, <1>5, Stored DEF PersistRefresh
  <2> QED  BY <1>0, <1>5, <2>1, Stepped DEF PersistRefresh, app, server, Phase, TypeOK
<1>6. CASE Recheck(a)
  BY <1>0, <1>6, AnsweredType DEF Recheck, Phase
<1>7. CASE ClearDesktopSession(a)
  <2>1. store' \in Pair \cup {NoPair} /\ overtaken' \in BOOLEAN
    BY <1>0, <1>7, Stored DEF ClearDesktopSession
  <2> QED  BY <1>0, <1>7, <2>1, Stepped DEF ClearDesktopSession, app, server, Phase, TypeOK
<1> QED  BY <1>1, <1>2, <1>3, <1>4, <1>5, <1>6, <1>7 DEF AdapterStep

LEMMA NextType == TypeOK /\ [Next]_vars => TypeOK'
<1> SUFFICES ASSUME TypeOK, [Next]_vars PROVE TypeOK'
  OBVIOUS
<1>1. CASE Quit
  <2>1. client' \in [Clients -> Client]
    BY <1>1 DEF Quit, TypeOK, Client, Idle
  <2> QED  BY <1>1, <2>1 DEF Quit, stored, server, TypeOK
<1>2. ASSUME NEW s \in 1 .. MaxSignIns, ServerEnds(s) PROVE TypeOK'
  BY <1>2, Ended DEF ServerEnds, stored, app, TypeOK
<1>3. ASSUME NEW n \in Token, AccessExpires(n) PROVE TypeOK'
  BY <1>3 DEF AccessExpires, stored, app, TypeOK
<1>4. CASE UNCHANGED vars
  BY <1>4 DEF vars, TypeOK
<1> QED  BY <1>1, <1>2, <1>3, <1>4, AccountType, PersonType, AdapterType DEF Next

LEMMA InitType == Init => TypeOK
<1> SUFFICES ASSUME Init PROVE TypeOK
  OBVIOUS
<1>1. Idle \in Client
  BY DEF Idle, Client
<1>2. client \in [Clients -> Client]
  BY <1>1, Zenon DEF Init
<1>3. session \in [Token -> 0 .. MaxSignIns]
  BY DEF Init
<1>4. issued \in 0 .. MaxIssued /\ signIns \in 0 .. MaxSignIns
      /\ kept \in 0 .. MaxSignIns /\ quits \in 0 .. MaxQuits
  BY DEF Init
<1>5. store \in Pair \cup {NoPair} /\ gate \in {"off", "launching", "locked", "open"}
      /\ refreshed \in BOOLEAN /\ usable \subseteq Token /\ renewable \subseteq Token
      /\ overtaken \in BOOLEAN /\ unsaved \in BOOLEAN
  BY Zenon DEF Init
<1> QED  BY <1>2, <1>3, <1>4, <1>5, Zenon DEF Init, TypeOK

\* Tokens, phases, gate and counters keep their types in every surrounding.
THEOREM TypeCorrect == Spec => []TypeOK
BY InitType, NextType, PTL DEF Spec

----------------------------------------------------------------------------
(* No failed request or write costs the session, whatever clients of former *)
(* sign-ins still run.  A server that replaces refresh tokens is one whose  *)
(* answers arrive and that only the application talks to: an answer that is *)
(* lost, or tokens another client renewed, would leave this computer with a *)
(* token the server has replaced.                                           *)

SafeWorlds == \A w \in Worlds : w.rotates => w.faults \subseteq {"unreachable"} /\ ~w.adapters

\* Token n is of the latest sign-in; so are the tokens of client c.
Current(n) == n \in Token /\ session[n] = signIns
Own(c) == Current(client[c].pair.refresh)

\* The person is signing in: from the server's approval until the gate opens.
Joining == client[Person].pc \in {"approved", "saving", "opening"}

\* The tokens of the latest sign-in are not stored yet.
Unsaved == client[Person].pc \in {"approved", "saving"}

\* The server keeps the session that the person holds, or is about to.
Alive == kept # 0 \/ (Joining /\ \E n \in renewable : Current(n))

\* Client c is about to clear the store; has tokens in memory and will not;
\* relies on an access token it has not used yet.
Leaves(c) == client[c].pc \in {"refused", "leaving", "revoking", "clearing"}
Holds(c) == client[c].pc # "idle" /\ ~Leaves(c)
Trusts(c) == \/ client[c].pc \in {"confirming", "keeping", "rechecking"}
             \/ c \in Adapters /\ client[c].pc = "saving"

\* The tokens of a pair are of one sign-in.
Known(p) == p = NoPair \/ (session[p.access] = session[p.refresh] /\ session[p.refresh] # 0)

\* Every token in use was issued for one of the sign-ins so far.
Ledger ==
    /\ \A n \in Token : /\ session[n] <= signIns
                        /\ n > issued => session[n] = 0
    /\ \A n \in renewable : session[n] # 0
    /\ Known(store)
    /\ \A c \in Clients : Known(client[c].pair)

StepInv ==
    /\ ~world.adapters => \A a \in Adapters : At(a, "idle")
    /\ Unsaved => ~Current(store.refresh) /\ \A a \in Adapters : ~Own(a)
    /\ Joining => /\ kept = 0 /\ signIns # 0 /\ gate \in {"locked", "open"}
                  /\ Own(Person) /\ ~Own(Account)
    /\ gate = "off" => At(Account, "idle") /\ At(Person, "idle")
    /\ client[Person].pc \in {"idle", "approved", "saving", "opening", "revoking", "clearing"}
    /\ kept \in {0, signIns}
    /\ client[Person].pc \in {"revoking", "clearing"} => kept = 0

\* Client c has what renews the session, and will not drop what is stored.
Keeps(c) == /\ ~Leaves(c)
            /\ Holds(c) => client[c].pair.refresh \in renewable
            /\ Trusts(c) => client[c].pair.access \in usable

\* The application has tokens that replace the stored ones.
Renewing == /\ world.rotates
            /\ Own(Account) /\ client[Account].pc \in {"confirming", "saving", "noting"}

\* What renews the session is stored, or about to be.
Recoverable ==
    /\ Current(store.refresh) => store.refresh \in renewable \/ Renewing
    /\ Unsaved \/ overtaken \/ Current(store.refresh) \/ Renewing

GateHolds == gate = "locked" => Joining \/ unsaved \/ overtaken

AliveInv == Alive => /\ \A c \in Clients : Own(c) => Keeps(c)
                     /\ Recoverable
                     /\ GateHolds

IInv == TypeOK /\ Ledger /\ StepInv /\ AliveInv

LEMMA Rotating ==
    ASSUME SafeWorlds, TypeOK, world.rotates
    PROVE  /\ "lost answer" \notin world.faults /\ "server error" \notin world.faults
           /\ "killed" \notin world.faults /\ "unwritable" \notin world.faults
           /\ ~world.adapters
BY DEF SafeWorlds, TypeOK

LEMMA Aliveness ==
    ASSUME IInv, Alive
    PROVE  (\A c \in Clients : Own(c) => Keeps(c)) /\ Recoverable /\ GateHolds
BY DEF IInv, AliveInv

LEMMA NoPairIsNotCurrent == ~Current(NoPair.refresh)
BY DEF Current, NoPair, Token

\* A step of the application or an adapter that the server has no part in.
LEMMA MoveKeeps ==
    ASSUME IInv, TypeOK', NEW c \in Clients \ {Person},
           \A d \in Clients \ {c} : client'[d] = client[d],
           client'[c].pair \in {client[c].pair, store, NoPair},
           store' \in {store, client[c].pair, NoPair},
           UNCHANGED <<world, server, kept>>,
           c = Account => /\ gate' # "off"
                          /\ Joining => /\ gate' \in {"locked", "open"}
                                        /\ client'[c].pair = client[c].pair,
           c # Account => gate' = gate /\ (world.adapters \/ client'[c].pc = "idle"),
           Alive => (Own(c)' => Keeps(c)') /\ Recoverable' /\ GateHolds'
    PROVE  IInv'
<1>1. client'[Person] = client[Person] /\ Person \in Clients /\ Account \in Clients
      /\ Adapters \subseteq Clients \ {Person, Account}
  BY DEF Clients
<1>2. \A n : Current(n)' <=> Current(n)
  BY DEF Current, server
<1>3. (Joining' <=> Joining) /\ (Unsaved' <=> Unsaved) /\ (Alive' <=> Alive)
  BY <1>1, <1>2 DEF Joining, Unsaved, Alive, server
<1>4. Ledger'
  <2>1. \A p : Known(p)' <=> Known(p)
    BY DEF Known, server
  <2>2. Known(NoPair) /\ Known(store) /\ \A d \in Clients : Known(client[d].pair)
    BY DEF Known, IInv, Ledger
  <2>3. Known(store') /\ \A d \in Clients : Known(client'[d].pair)
    BY <2>2
  <2> QED  BY <2>1, <2>3 DEF IInv, Ledger, server
<1>5. StepInv'
  <2>1. Unsaved => ~Current(store'.refresh) /\ \A a \in Adapters : ~Current(client'[a].pair.refresh)
    <3> SUFFICES ASSUME Unsaved
                 PROVE  ~Current(store'.refresh)
                        /\ \A a \in Adapters : ~Current(client'[a].pair.refresh)
      OBVIOUS
    <3>1. ~Current(store.refresh) /\ \A d \in Clients \ {Person} : ~Current(client[d].pair.refresh)
      BY DEF IInv, StepInv, Own, Unsaved, Joining, Clients
    <3> QED  BY <1>1, <3>1, NoPairIsNotCurrent
  <2>2. Joining => Current(client'[Person].pair.refresh) /\ ~Current(client'[Account].pair.refresh)
    BY <1>1 DEF IInv, StepInv, Own
  <2>3. Unsaved' => ~Current(store.refresh)' /\ \A a \in Adapters : ~Own(a)'
    BY <1>2, <1>3, <2>1 DEF Own
  <2>4. Joining' => Own(Person)' /\ ~Own(Account)'
    BY <1>2, <1>3, <2>2 DEF Own
  <2>5. ~world.adapters => \A a \in Adapters : client'[a].pc = "idle"
    BY <1>1 DEF IInv, StepInv
  <2>6. gate' = "off" => client'[Account].pc = "idle" /\ client'[Person].pc = "idle"
    BY <1>1 DEF IInv, StepInv
  <2>7. Joining => gate' \in {"locked", "open"}
    BY DEF IInv, StepInv
  <2> QED  BY <1>1, <1>3, <2>3, <2>4, <2>5, <2>6, <2>7 DEF IInv, StepInv, server
<1>6. ASSUME Alive' PROVE (/\ \A d \in Clients : Own(d) => Keeps(d)
                           /\ Recoverable
                           /\ GateHolds)'
  <2>1. Alive /\ (\A d \in Clients : Own(d) => Keeps(d))
    BY <1>3, <1>6, Aliveness
  <2>2. (Own(c)' => Keeps(c)') /\ Recoverable' /\ GateHolds'
    BY <2>1
  <2>3. ASSUME NEW d \in Clients \ {c}, Own(d)' PROVE Keeps(d)'
    <3>1. Own(d)
      BY <1>2, <2>3 DEF Own
    <3> QED  BY <2>1, <3>1 DEF Keeps, Holds, Leaves, Trusts, server
  <2> QED  BY <2>2, <2>3
<1>7. AliveInv'
  BY <1>6 DEF AliveInv
<1> QED  BY <1>4, <1>5, <1>7 DEF IInv

\* A step of the application or an adapter that neither stores nor drops
\* anything.
LEMMA AnsweredKeeps ==
    ASSUME IInv, NEW c \in Clients \ {Person}, NEW pc \in Phase, Answered(c, pc),
           ~At(c, "idle"),
           Alive /\ Own(c) =>
               /\ pc \notin {"refused", "leaving", "revoking", "clearing"}
               /\ pc \in {"confirming", "keeping", "rechecking"}
                        \/ (c \in Adapters /\ pc = "saving")
                  => client[c].pair.access \in usable
               /\ world.rotates /\ c = Account
                        /\ client[c].pc \in {"confirming", "saving", "noting"}
                  => pc \in {"saving", "noting"}
    PROVE  IInv'
<1>1. TypeOK' /\ TypeOK
  BY AnsweredType DEF IInv
<1>2. /\ client'[c].pc = pc /\ client'[c].pair = client[c].pair
      /\ \A d \in Clients \ {c} : client'[d] = client[d]
      /\ UNCHANGED <<world, store, overtaken, unsaved, gate, server, kept>>
  BY <1>1, Stepped DEF Answered, app, stored
<1>3. client'[Person] = client[Person] /\ Account \in Clients
  BY <1>2 DEF Clients
<1>4. (Own(c)' <=> Own(c)) /\ (Own(Account)' <=> Own(Account)) /\ (Current(store.refresh)' <=> Current(store.refresh))
  BY <1>2, <1>3 DEF Own, Current, server
<1>5. gate # "off" \/ c # Account
  BY DEF IInv, StepInv
<1>6. c # Account => world.adapters
  BY DEF IInv, StepInv, Clients
<1>7. Joining => gate \in {"locked", "open"}
  BY DEF IInv, StepInv
<1>8. ASSUME Alive PROVE (Own(c)' => Keeps(c)') /\ Recoverable' /\ GateHolds'
  <2>1. (Own(c) => Keeps(c)) /\ Recoverable /\ GateHolds
    BY <1>8, Aliveness
  <2>2. Own(c) => Keeps(c)'
    BY <1>2, <1>8, <2>1 DEF Keeps, Holds, Leaves, Trusts, server
  <2>3. Recoverable'
    <3>1. (Unsaved' <=> Unsaved) /\ (overtaken' <=> overtaken)
      BY <1>2, <1>3 DEF Unsaved
    <3>2. Renewing => Renewing'
      BY <1>2, <1>3, <1>4, <1>8 DEF Renewing
    <3> QED  BY <1>2, <1>4, <2>1, <3>1, <3>2 DEF Recoverable, server
  <2>4. GateHolds'
    BY <1>2, <1>3, <2>1 DEF GateHolds, Joining
  <2> QED  BY <1>4, <2>2, <2>3, <2>4
<1> QED  BY <1>1, <1>2, <1>5, <1>6, <1>7, <1>8, MoveKeeps

\* The next token is of no sign-in yet; issued for one, it leaves the ledger
\* of the others as it is.
LEMMA IssueEntry ==
    ASSUME IInv, NEW s \in 0 .. MaxSignIns, IssueFor(s), signIns' \in Nat,
           s <= signIns', signIns <= signIns'
    PROVE  /\ session[Fresh] = 0
           /\ \A n \in Token : session'[n] <= signIns' /\ (n > issued' => session'[n] = 0)
<1>1. TypeOK /\ \A n \in Token : session[n] <= signIns /\ (n > issued => session[n] = 0)
  BY DEF IInv, Ledger
<1>2. issued \in Nat /\ Token \subseteq Nat
  BY <1>1 DEF TypeOK, Token
<1>3. signIns \in Nat /\ \A n \in Token : session[n] \in Nat
  BY <1>1 DEF TypeOK
<1>4. /\ Fresh \in Token /\ session'[Fresh] = s
      /\ \A n \in Token \ {Fresh} : session'[n] = session[n]
  BY <1>1, Issued
<1>5. issued' = Fresh /\ Fresh = issued + 1
  BY DEF IssueFor, Fresh
<1>6. session[Fresh] = 0
  BY <1>1, <1>2, <1>4, <1>5
<1>7. ASSUME NEW n \in Token PROVE session'[n] <= signIns' /\ (n > issued' => session'[n] = 0)
  <2>1. CASE n = Fresh
    BY <1>2, <1>4, <1>5, <2>1
  <2>2. CASE n # Fresh
    BY <1>1, <1>2, <1>3, <1>4, <1>5, <2>2
  <2> QED  BY <2>1, <2>2
<1> QED  BY <1>6, <1>7

LEMMA ExchangeEntry ==
    ASSUME IInv, NEW m \in renewable, Exchange(m)
    PROVE  /\ session[Fresh] = 0
           /\ \A n \in Token : session'[n] <= signIns' /\ (n > issued' => session'[n] = 0)
<1>1. IssueFor(session[m]) /\ signIns' = signIns
  BY DEF Exchange
<1>2. session[m] \in 0 .. MaxSignIns /\ session[m] <= signIns /\ signIns \in Nat
  BY DEF IInv, Ledger, TypeOK
<1> QED  BY <1>1, <1>2, IssueEntry

\* The tokens in use before a token is issued stay what they are.
LEMMA IssueKeeps ==
    ASSUME IInv, NEW f \in Token, session[f] = 0, NEW p \in Pair \cup {NoPair}, Known(p),
           \A n \in Token \ {f} : session'[n] = session[n]
    PROVE  /\ Known(p)' /\ p.refresh # f
           /\ signIns' = signIns => (Current(p.refresh)' <=> Current(p.refresh))
<1>1. session[f] = 0
  OBVIOUS
<1>2. CASE p = NoPair
  BY <1>2 DEF Known, Current, NoPair, Token
<1>3. CASE p # NoPair
  <2>1. p \in Pair /\ session[p.access] = session[p.refresh] /\ session[p.refresh] # 0
    BY <1>3 DEF Known
  <2>2. p.access \in Token \ {f} /\ p.refresh \in Token \ {f}
    BY <1>1, <2>1 DEF Pair
  <2> QED  BY <2>1, <2>2 DEF Known, Current
<1> QED  BY <1>2, <1>3

\* A refresh that the server carries out for client c, whether c has the answer
\* or not.
LEMMA ExchangeKeeps ==
    ASSUME SafeWorlds, IInv, NEW c \in Clients \ {Person}, NEW pc \in Phase,
           ~At(c, "idle"), Renews(client[c].pair), Exchange(client[c].pair.refresh),
           UNCHANGED <<stored, app, kept>>,
           pc \notin {"refused", "leaving", "revoking", "clearing"},
           \/ /\ StepWith(c, pc, Renewed(client[c].pair.refresh))
              /\ c = Account => pc = "confirming"
           \/ /\ Step(c, pc) /\ "lost answer" \in world.faults
              /\ pc \notin {"confirming", "keeping", "rechecking"}
              /\ c \in Adapters => pc # "saving"
    PROVE  IInv'
<1>1. PICK m : m = client[c].pair.refresh
  OBVIOUS
<1>2. m \in renewable /\ m \in Token /\ Exchange(m) /\ TypeOK
  BY <1>1 DEF Renews, IInv, TypeOK
<1>3. TypeOK'
  BY <1>1, <1>2, ExchangeType
<1>4. PICK w : w = Renewed(m)
  OBVIOUS
<1>5. PICK f : f = Fresh
  OBVIOUS
<1>6. /\ \A d \in Clients \ {c} : client'[d] = client[d]
      /\ client'[c].pc = pc
      /\ \/ client'[c].pair = w /\ (c = Account => pc = "confirming")
         \/ /\ client'[c].pair = client[c].pair /\ "lost answer" \in world.faults
            /\ pc \notin {"confirming", "keeping", "rechecking"}
            /\ c \in Adapters => pc # "saving"
  <2>1. CASE StepWith(c, pc, w) /\ (c = Account => pc = "confirming")
    <3>1. w \in Pair \cup {NoPair}
      BY <1>2, <1>4, Exchanged
    <3> QED  BY <1>2, <2>1, <3>1, SteppedWith
  <2>2. CASE /\ Step(c, pc) /\ "lost answer" \in world.faults
             /\ pc \notin {"confirming", "keeping", "rechecking"}
             /\ c \in Adapters => pc # "saving"
    BY <1>2, <2>2, Stepped
  <2> QED  BY <1>1, <1>4, <2>1, <2>2
<1>7. /\ f \in Token /\ session'[f] = session[m] /\ session[m] # 0
      /\ \A n \in Token \ {f} : session'[n] = session[n]
      /\ usable' = usable \cup {f} /\ signIns' = signIns
      /\ renewable' = IF world.rotates THEN (renewable \ {m}) \cup {f} ELSE renewable
      /\ w \in Pair /\ w.access = f /\ w.refresh \in renewable'
      /\ w.refresh \in {f, m}
  <2>1. session[m] # 0
    BY <1>2 DEF IInv, Ledger
  <2>2. renewable' = IF world.rotates THEN (renewable \ {m}) \cup {f} ELSE renewable
    BY <1>2, <1>5 DEF Exchange
  <2>4. w.access = f /\ w.refresh \in {f, m}
    BY <1>4, <1>5 DEF Renewed
  <2> QED  BY <1>2, <1>4, <1>5, <2>1, <2>2, <2>4, Exchanged
<1>8. client'[Person] = client[Person] /\ Person \in Clients /\ Account \in Clients
      /\ Adapters \subseteq Clients \ {Person, Account}
  BY <1>6 DEF Clients
<1>9. /\ session[f] = 0
      /\ \A n \in Token : session'[n] <= signIns' /\ (n > issued' => session'[n] = 0)
  BY <1>2, <1>5, ExchangeEntry
<1>10. /\ Known(store)' /\ (Current(store.refresh)' <=> Current(store.refresh))
       /\ store.refresh # f
  BY <1>2, <1>7, <1>9, IssueKeeps DEF IInv, Ledger, TypeOK, stored
<1>11. ASSUME NEW d \in Clients
       PROVE  /\ \/ /\ session'[client[d].pair.access] = session'[client[d].pair.refresh]
                    /\ session'[client[d].pair.refresh] # 0
                 \/ client[d].pair = NoPair
              /\ (client[d].pair.refresh \in Token
                     /\ session'[client[d].pair.refresh] = signIns) <=> Own(d)
              /\ client[d].pair.refresh # f
  <2>1. PICK p \in Pair \cup {NoPair} : p = client[d].pair
    BY <1>2, ClientPair
  <2>2. Known(p)
    BY <2>1 DEF IInv, Ledger
  <2>3. Known(p)' /\ p.refresh # f /\ (Current(p.refresh)' <=> Current(p.refresh))
    BY <1>7, <1>9, <2>2, IssueKeeps
  <2> QED  BY <1>7, <2>1, <2>3 DEF Known, Current, Own
<1>12. session'[m] = session[m] /\ m # f
  BY <1>2, <1>7, <1>9
<1>13. Own(c)' <=> Own(c)
  <2>1. CASE client'[c].pair = w
    BY <1>1, <1>2, <1>7, <1>12, <2>1 DEF Own, Current
  <2>2. CASE client'[c].pair = client[c].pair
    BY <1>7, <1>11, <2>2 DEF Own, Current
  <2> QED  BY <1>6, <2>1, <2>2
<1>14. \A d \in Clients : Own(d)' <=> Own(d)
  <2> SUFFICES ASSUME NEW d \in Clients PROVE Own(d)' <=> Own(d)
    OBVIOUS
  <2>1. CASE d = c
    BY <1>13, <2>1
  <2>2. CASE d # c
    <3>1. client'[d].pair.refresh = client[d].pair.refresh
      BY <1>6, <2>2
    <3>2. (client[d].pair.refresh \in Token
             /\ session'[client[d].pair.refresh] = signIns) <=> Own(d)
      BY <1>11
    <3> QED  BY <1>7, <3>1, <3>2 DEF Own, Current
  <2> QED  BY <2>1, <2>2
<1>15. Ledger'
  <2>1. \A n \in Token : session'[n] <= signIns' /\ (n > issued' => session'[n] = 0)
    BY <1>9
  <2>2. \A n \in renewable' : session'[n] # 0
    BY <1>2, <1>7 DEF IInv, Ledger, TypeOK
  <2>3. ASSUME NEW d \in Clients PROVE Known(client[d].pair)'
    <3>1. CASE client'[d].pair = w
      BY <1>7, <1>12, <3>1 DEF Known
    <3>2. CASE client'[d].pair = client[d].pair
      BY <1>11, <3>2 DEF Known
    <3> QED  BY <1>6, <3>1, <3>2
  <2> QED  BY <1>10, <2>1, <2>2, <2>3 DEF Ledger
<1>16. (Joining' <=> Joining) /\ (Unsaved' <=> Unsaved) /\ (Alive' => Alive)
  <2>1. (Joining' <=> Joining) /\ (Unsaved' <=> Unsaved) /\ kept' = kept
    BY <1>8 DEF Joining, Unsaved
  <2>2. ASSUME NEW n \in renewable', Current(n)' PROVE \E o \in renewable : Current(o)
    BY <1>2, <1>7, <2>2 DEF Current
  <2> QED  BY <2>1, <2>2 DEF Alive
<1>17. StepInv'
  <2>1. c \in Adapters => world.adapters
    BY DEF IInv, StepInv
  <2> QED  BY <1>6, <1>7, <1>8, <1>10, <1>14, <1>16, <2>1 DEF IInv, StepInv, stored, app
<1>18. ASSUME Alive' PROVE (/\ \A d \in Clients : Own(d) => Keeps(d)
                            /\ Recoverable
                            /\ GateHolds)'
  <2>1. Alive /\ (\A d \in Clients : Own(d) => Keeps(d)) /\ Recoverable /\ GateHolds
    BY <1>16, <1>18, Aliveness
  <2>2. GateHolds'
    BY <1>16, <2>1 DEF GateHolds, stored, app
  <2>3. CASE ~world.rotates
    <3>1. renewable' = renewable /\ usable \subseteq usable' /\ f \in usable'
      BY <1>7, <2>3
    <3>2. ASSUME NEW d \in Clients, Own(d)' PROVE Keeps(d)'
      <4>1. Keeps(d)
        BY <1>14, <2>1, <3>2
      <4>2. CASE d = c
        BY <1>1, <1>2, <1>6, <1>7, <3>1, <4>1, <4>2 DEF Keeps, Holds, Leaves, Trusts
      <4>3. CASE d # c
        BY <1>6, <3>1, <4>1, <4>3 DEF Keeps, Holds, Leaves, Trusts
      <4> QED  BY <4>2, <4>3
    <3>3. Recoverable'
      BY <1>10, <1>16, <2>1, <2>3, <3>1 DEF Recoverable, Renewing, stored, app
    <3> QED  BY <2>2, <3>2, <3>3
  <2>4. CASE world.rotates
    <3>1. "lost answer" \notin world.faults /\ \A a \in Adapters : At(a, "idle")
      BY <2>4, Rotating DEF IInv, StepInv
    <3>2. c = Account /\ pc = "confirming" /\ client'[c].pair = w
      BY <1>6, <3>1 DEF Clients
    <3>3. \A n \in renewable \ {m} : n \in renewable'
      BY <1>7, <2>4
    <3>4. Own(c) <=> session[m] = signIns
      BY <1>1, <1>2 DEF Own, Current
    <3>5. Keeps(c)'
      BY <1>6, <1>7, <3>2 DEF Keeps, Holds, Leaves, Trusts
    <3>6. Own(Person)' => Keeps(Person)'
      <4>1. CASE Own(c)
        <5>1. ~Joining
          BY <3>2, <4>1 DEF IInv, StepInv
        <5>2. Own(Person) => ~Leaves(Person)
          BY <1>8, <2>1 DEF Keeps
        <5>3. Own(Person) => client[Person].pc = "idle"
          BY <5>1, <5>2 DEF IInv, StepInv, Joining, Leaves
        <5> QED  BY <1>8, <1>14, <5>3 DEF Keeps, Holds, Leaves, Trusts
      <4>2. CASE ~Own(c)
        <5>1. Own(Person) => Keeps(Person) /\ client[Person].pair.refresh # m
          BY <1>8, <2>1, <3>4, <4>2 DEF Own, Current
        <5> QED  BY <1>7, <1>8, <1>14, <3>3, <5>1 DEF Keeps, Holds, Leaves, Trusts
      <4> QED  BY <4>1, <4>2
    <3>7. ASSUME NEW a \in Adapters PROVE Keeps(a)'
      BY <1>6, <1>8, <3>1, <3>2 DEF Keeps, Holds, Leaves, Trusts
    <3>8. Recoverable'
      <4>1. CASE Own(c)
        BY <1>6, <1>14, <2>4, <3>2, <4>1 DEF Recoverable, Renewing, app
      <4>2. CASE ~Own(c)
        <5>1. /\ Unsaved \/ overtaken \/ Current(store.refresh)
              /\ Current(store.refresh) => store.refresh \in renewable
          BY <2>1, <3>2, <4>2 DEF Recoverable, Renewing
        <5>2. Current(store.refresh) => store.refresh # m
          BY <3>4, <4>2 DEF Current
        <5> QED  BY <1>10, <1>16, <3>3, <5>1, <5>2 DEF Recoverable, stored
      <4> QED  BY <4>1, <4>2
    <3> QED  BY <1>8, <2>2, <3>2, <3>5, <3>6, <3>7, <3>8 DEF Clients
  <2> QED  BY <2>3, <2>4
<1>19. AliveInv'
  BY <1>18 DEF AliveInv
<1> QED  BY <1>3, <1>15, <1>17, <1>19 DEF IInv

----------------------------------------------------------------------------
(* The application's steps preserve IInv. *)

\* What the store holds when nothing is about to be stored.
LEMMA StoreHas ==
    ASSUME IInv, Alive, ~Unsaved, ~overtaken,
           world.rotates => client[Account].pc \notin {"confirming", "saving", "noting"}
    PROVE  Current(store.refresh) /\ store.refresh \in renewable
BY Aliveness DEF Recoverable, Renewing

\* What a client may take from the store renews the session, if it is of it.
LEMMA StoreFits ==
    ASSUME IInv, Alive, Current(store.refresh),
           world.rotates => client[Account].pc \notin {"confirming", "saving", "noting"}
    PROVE  store.refresh \in renewable
BY Aliveness DEF Recoverable, Renewing

\* No client that has the session's tokens is about to drop it.
LEMMA NobodyLeaves ==
    ASSUME IInv, NEW c \in Clients, Leaves(c), Own(c)
    PROVE  ~Alive
BY Aliveness DEF Keeps

\* A client that has tokens of the session in memory can renew it.
LEMMA HasTokens ==
    ASSUME IInv, Alive, NEW c \in Clients, Own(c), Holds(c)
    PROVE  client[c].pair.refresh \in renewable
BY Aliveness DEF Keeps

\* Only in a world with adapters is one of them busy.
LEMMA BusyAdapter ==
    ASSUME SafeWorlds, IInv, NEW a \in Adapters, ~At(a, "idle")
    PROVE  world.adapters /\ ~world.rotates
BY Rotating DEF IInv, StepInv

\* A client that writes the store leaves in it what renews the session, or has
\* the tokens of a former sign-in.
LEMMA SavedKeeps ==
    ASSUME SafeWorlds, IInv, Alive, NEW c \in Clients \ {Person}, Holds(c),
           Save(c) \/ SaveFails(c)
    PROVE  /\ Current(store'.refresh) => store'.refresh \in renewable
           /\ Unsaved \/ overtaken' \/ Current(store'.refresh)
           /\ overtaken => overtaken'
<1>1. overtaken' = (overtaken \/ ~Own(c))
  <2>1. overtaken' = (overtaken \/ client[c].pair.refresh \notin OfSession(signIns))
    BY DEF Save, SaveFails, Touch
  <2> QED  BY <2>1 DEF OfSession, Own, Current
<1>2. Own(c) => client[c].pair.refresh \in renewable
  BY HasTokens
<1>3. CASE store' = client[c].pair
  BY <1>1, <1>2, <1>3 DEF Own
<1>4. CASE store' = store /\ SaveFails(c)
  <2>1. ~world.rotates
    BY <1>4, Rotating DEF SaveFails, IInv
  <2>2. /\ Current(store.refresh) => store.refresh \in renewable
        /\ Unsaved \/ overtaken \/ Current(store.refresh)
    BY <2>1, Aliveness DEF Recoverable, Renewing
  <2> QED  BY <1>1, <1>4, <2>2
<1> QED  BY <1>3, <1>4 DEF Save, SaveFails

\* One that clears it has the tokens of a former sign-in.
LEMMA ClearedKeeps ==
    ASSUME IInv, Alive, NEW c \in Clients \ {Person}, Leaves(c), Clear, Touch(c),
           world.rotates => client[Account].pc \notin {"confirming", "saving", "noting"}
    PROVE  overtaken' /\ (Current(store'.refresh) => store'.refresh \in renewable)
<1>1. overtaken'
  BY NobodyLeaves DEF Touch, OfSession, Own, Current
<1>2. store' \in {store, NoPair}
  BY DEF Clear
<1> QED  BY <1>1, <1>2, StoreFits, NoPairIsNotCurrent

LEMMA AttemptKeeps ==
    ASSUME SafeWorlds, IInv, TypeOK', Attempt, At(Account, "idle"), At(Person, "idle"),
           store # NoPair, gate' \in {"launching", "open"},
           UNCHANGED <<world, stored, server, kept>>
    PROVE  IInv'
<1>0. Account \in Clients \ {Person} /\ store \in Pair \cup {NoPair} /\ TypeOK
  BY DEF Clients, IInv, TypeOK
<1>1. PICK pc \in {"checking", "renewing"} : StepWith(Account, pc, store)
  BY DEF Attempt
<1>2. /\ client'[Account].pc = pc /\ client'[Account].pair = store
      /\ \A d \in Clients \ {Account} : client'[d] = client[d]
  BY <1>0, <1>1, SteppedWith DEF Phase
<1>3. ~Joining /\ client'[Person] = client[Person]
  BY <1>2 DEF Joining, Clients
<1>4. ASSUME Alive PROVE (Own(Account)' => Keeps(Account)') /\ Recoverable' /\ GateHolds'
  <2>1. Current(store.refresh) => store.refresh \in renewable
    BY <1>4, StoreFits
  <2>2. Own(Account)' => Current(store.refresh)
    BY <1>2 DEF Own, Current, server
  <2>3. Own(Account)' => Keeps(Account)'
    BY <1>2, <2>1, <2>2 DEF Keeps, Holds, Leaves, Trusts, server
  <2>4. Unsaved \/ overtaken \/ Current(store.refresh)
    BY <1>4, Aliveness DEF Recoverable, Renewing
  <2>5. Recoverable'
    BY <1>3, <2>1, <2>4 DEF Recoverable, Unsaved, Current, server, stored
  <2>6. GateHolds'
    BY DEF GateHolds
  <2> QED  BY <2>3, <2>5, <2>6
<1> QED  BY <1>0, <1>2, <1>3, <1>4, MoveKeeps DEF stored

LEMMA LaunchKeeps == ASSUME SafeWorlds, IInv, Launch PROVE IInv'
<1>1. TypeOK' /\ At(Account, "idle") /\ At(Person, "idle") /\ gate = "off"
      /\ Account \in Clients \ {Person} /\ Person \in Clients
  BY NextType DEF IInv, StepInv, Launch, Next, AccountStep, Clients
<1>2. CASE store # NoPair
  BY <1>1, <1>2, AttemptKeeps DEF Launch
<1>3. CASE store = NoPair
  <2>1. UNCHANGED <<world, client, stored, server, kept>> /\ gate' = "locked"
    BY <1>3 DEF Launch
  <2>2. ~Joining
    BY <1>1 DEF Joining
  <2>3. ASSUME Alive PROVE (Own(Account)' => Keeps(Account)') /\ Recoverable' /\ GateHolds'
    <3>1. overtaken
      BY <1>1, <1>3, <2>3, Aliveness, NoPairIsNotCurrent DEF Recoverable, Renewing, Unsaved
    <3>2. ~Current(store.refresh)'
      BY <1>3, <2>1, NoPairIsNotCurrent DEF Current, stored, server
    <3>3. Keeps(Account)'
      BY <1>1, <2>1 DEF Keeps, Holds, Leaves, Trusts
    <3> QED  BY <2>1, <3>1, <3>2, <3>3 DEF Recoverable, GateHolds, stored
  <2> QED  BY <1>1, <2>1, <2>2, <2>3, MoveKeeps DEF stored
<1> QED  BY <1>2, <1>3

LEMMA RefreshKeeps == ASSUME SafeWorlds, IInv, Refresh PROVE IInv'
<1>1. TypeOK'
  BY NextType DEF IInv, Next, AccountStep
<1> QED  BY <1>1, AttemptKeeps DEF Refresh

\* A refresh that ends: with the gate open, locked before, or locked by it.
LEMMA EndKeeps ==
    ASSUME IInv, TypeOK', ~At(Account, "idle"), Step(Account, "idle"),
           store' \in {store, client[Account].pair, NoPair},
           UNCHANGED <<world, server, kept>>,
           gate' \in {gate, "open", "locked"},
           Alive => /\ Current(store'.refresh) => store'.refresh \in renewable
                    /\ Unsaved \/ overtaken' \/ Current(store'.refresh)
                    /\ overtaken => overtaken'
                    /\ (gate' = "locked" => (gate = "locked" /\ unsaved' = unsaved)
                                            \/ unsaved' \/ overtaken')
    PROVE  IInv'
<1>0. Account \in Clients \ {Person} /\ TypeOK
  BY DEF Clients, IInv
<1>1. /\ client'[Account].pc = "idle" /\ client'[Account].pair = client[Account].pair
      /\ \A d \in Clients \ {Account} : client'[d] = client[d]
  BY <1>0, Stepped DEF Phase
<1>2. client'[Person] = client[Person] /\ gate # "off" /\ (Joining => gate \in {"locked", "open"})
  BY <1>0, <1>1 DEF IInv, StepInv, Clients
<1>3. ASSUME Alive PROVE (Own(Account)' => Keeps(Account)') /\ Recoverable' /\ GateHolds'
  <2>1. Keeps(Account)'
    BY <1>1 DEF Keeps, Holds, Leaves, Trusts
  <2>2. Recoverable'
    <3>1. Current(store.refresh)' <=> Current(store'.refresh)
      BY DEF Current, server
    <3> QED  BY <1>2, <1>3, <3>1 DEF Recoverable, Unsaved, server
  <2>3. GateHolds'
    BY <1>2, <1>3, Aliveness DEF GateHolds, Joining
  <2> QED  BY <2>1, <2>2, <2>3
<1> QED  BY <1>0, <1>1, <1>2, <1>3, MoveKeeps

LEMMA GiveUpKeeps ==
    ASSUME SafeWorlds, IInv, GiveUp, ~At(Account, "idle")
    PROVE  IInv'
<1>1. TypeOK'
  BY FinishType DEF GiveUp, stored, TypeOK, IInv
<1>2. ~world.rotates
  BY Rotating DEF GiveUp, IInv
<1>3. /\ Step(Account, "idle") /\ store' = store /\ overtaken' = overtaken /\ unsaved' = unsaved
      /\ gate' \in {gate, "open"} /\ UNCHANGED <<world, server, kept>>
  BY DEF GiveUp, Finish, stored
<1>4. ASSUME Alive PROVE /\ Current(store.refresh) => store.refresh \in renewable
                         /\ Unsaved \/ overtaken \/ Current(store.refresh)
  BY <1>2, <1>4, Aliveness DEF Recoverable, Renewing
<1> QED  BY <1>1, <1>3, <1>4, EndKeeps

LEMMA CheckProfileKeeps == ASSUME SafeWorlds, IInv, CheckProfile PROVE IInv'
<1>0. Account \in Clients \ {Person} /\ Account \notin Adapters
  BY DEF Clients
<1>1. CASE GiveUp
  BY <1>1, GiveUpKeeps DEF CheckProfile
<1> QED  BY <1>0, <1>1, AnsweredKeeps DEF CheckProfile, Phase

LEMMA RefreshTokensKeeps == ASSUME SafeWorlds, IInv, RefreshTokens PROVE IInv'
<1>0. Account \in Clients \ {Person} /\ Account \notin Adapters /\ At(Account, "renewing")
  BY DEF Clients, RefreshTokens
<1>1. CASE GiveUp
  BY <1>0, <1>1, GiveUpKeeps
<1>2. CASE Answered(Account, "noting")
  BY <1>0, <1>2, AnsweredKeeps DEF Phase
<1>3. CASE ~Renews(client[Account].pair) /\ Answered(Account, "refused")
  <2>1. ~(Alive /\ Own(Account))
    BY <1>0, <1>3, HasTokens DEF Holds, Leaves, Renews
  <2> QED  BY <1>0, <1>3, <2>1, AnsweredKeeps DEF Phase
<1>4. CASE /\ Renews(client[Account].pair)
           /\ Exchange(client[Account].pair.refresh)
           /\ \/ StepWith(Account, "confirming", Renewed(client[Account].pair.refresh))
              \/ "lost answer" \in world.faults /\ Step(Account, "noting")
           /\ UNCHANGED <<stored, app, kept>>
  BY <1>0, <1>4, ExchangeKeeps DEF Phase
<1> QED  BY <1>1, <1>2, <1>3, <1>4 DEF RefreshTokens

LEMMA ConfirmProfileKeeps == ASSUME SafeWorlds, IInv, ConfirmProfile PROVE IInv'
<1>0. Account \in Clients \ {Person} /\ Account \notin Adapters /\ At(Account, "confirming")
  BY DEF Clients, ConfirmProfile
<1>1. CASE GiveUp
  BY <1>0, <1>1, GiveUpKeeps
<1>2. CASE Answered(Account, "saving")
  BY <1>0, <1>2, AnsweredKeeps DEF Phase
<1>3. CASE ~Accepts(client[Account].pair) /\ Answered(Account, "refused")
  <2>1. ~(Alive /\ Own(Account))
    BY <1>0, <1>3, Aliveness DEF Keeps, Trusts, Accepts
  <2> QED  BY <1>0, <1>3, <2>1, AnsweredKeeps DEF Phase
<1>4. CASE StepWith(Account, "noting", Offline(store, client[Account].pair))
           /\ UNCHANGED <<stored, app, server, kept>>
  <2>1. client \in [Clients -> Client] /\ client[Account] \in Client
    BY <1>0 DEF IInv, TypeOK
  <2>2. [client[Account] EXCEPT !.pc = "noting"]
            = [pc |-> "noting", pair |-> client[Account].pair]
    BY <2>1 DEF Client
  <2>3. Step(Account, "noting")
    <3>1. client' = [client EXCEPT ![Account] = [pc |-> "noting", pair |-> client[Account].pair]]
      BY <1>4 DEF StepWith, Offline
    <3>2. client' = [client EXCEPT ![Account] = [client[Account] EXCEPT !.pc = "noting"]]
      BY <2>2, <3>1
    <3> QED  BY <3>2 DEF Step
  <2> QED  BY <1>0, <1>4, <2>3, AnsweredKeeps DEF Answered, Phase
<1> QED  BY <1>1, <1>2, <1>3, <1>4 DEF ConfirmProfile

LEMMA SaveAccountKeeps == ASSUME SafeWorlds, IInv, SaveAccount PROVE IInv'
<1>0. Account \in Clients \ {Person} /\ TypeOK'
      /\ client[Account].pc \in {"saving", "noting"}
  BY NextType DEF Clients, IInv, Next, AccountStep, SaveAccount
<1>1. Save(Account) \/ SaveFails(Account)
  BY DEF SaveAccount
<1>2. store' \in {store, client[Account].pair}
  BY <1>1 DEF Save, SaveFails
<1>3. Alive => /\ Current(store'.refresh) => store'.refresh \in renewable
               /\ Unsaved \/ overtaken' \/ Current(store'.refresh)
               /\ overtaken => overtaken'
  BY <1>0, <1>1, SavedKeeps DEF Holds, Leaves
<1>4. /\ Step(Account, "idle") /\ UNCHANGED <<world, server, kept>>
      /\ \/ gate' \in {gate, "open"} /\ unsaved' = unsaved
         \/ gate' = "locked" /\ unsaved'
  BY DEF SaveAccount, Finish
<1> QED  BY <1>0, <1>2, <1>3, <1>4, EndKeeps

LEMMA DropAccountKeeps == ASSUME IInv, DropAccount PROVE IInv'
<1>0. Account \in Clients \ {Person} /\ TypeOK' /\ At(Account, "refused")
  BY NextType DEF Clients, IInv, Next, AccountStep, DropAccount
<1>1. Alive => overtaken' /\ (Current(store'.refresh) => store'.refresh \in renewable)
  BY <1>0, ClearedKeeps DEF DropAccount, Leaves
<1>2. /\ Step(Account, "idle") /\ store' \in {store, NoPair}
      /\ UNCHANGED <<world, server, kept>> /\ gate' = "locked"
  BY DEF DropAccount, Clear
<1> QED  BY <1>0, <1>1, <1>2, EndKeeps

LEMMA AccountKeeps == ASSUME SafeWorlds, IInv, AccountStep PROVE IInv'
BY LaunchKeeps, RefreshKeeps, CheckProfileKeeps, RefreshTokensKeeps,
   ConfirmProfileKeeps, SaveAccountKeeps, DropAccountKeeps DEF AccountStep

----------------------------------------------------------------------------
(* The person's steps preserve IInv. *)

LEMMA BeginSignInKeeps == ASSUME IInv, BeginSignIn PROVE IInv'
<1>0. Person \in Clients /\ TypeOK /\ TypeOK' /\ At(Person, "idle")
  BY NextType DEF Clients, IInv, Next, PersonStep, BeginSignIn
<1>1. PICK f : f = Fresh
  OBVIOUS
<1>2. PICK s : s = signIns + 1
  OBVIOUS
<1>3. /\ s \in 0 .. MaxSignIns /\ signIns' = s /\ IssueFor(s) /\ kept' = 0
      /\ gate' = gate /\ gate \in {"locked", "open"} /\ UNCHANGED <<world, stored>>
      /\ renewable' = renewable \cup {f}
      /\ StepWith(Person, "approved", [access |-> f, refresh |-> f])
  BY <1>0, <1>1, <1>2 DEF BeginSignIn, app, TypeOK
<1>4. /\ f \in Token /\ session'[f] = s /\ s # 0 /\ signIns \in Nat /\ s > signIns
      /\ \A n \in Token \ {f} : session'[n] = session[n]
  BY <1>0, <1>1, <1>2, <1>3, Issued DEF TypeOK
<1>5. /\ session[f] = 0
      /\ \A n \in Token : session'[n] <= signIns' /\ (n > issued' => session'[n] = 0)
  BY <1>1, <1>2, <1>3, <1>4, IssueEntry
<1>6. /\ client'[Person].pc = "approved"
      /\ client'[Person].pair.refresh = f /\ client'[Person].pair.access = f
      /\ \A c \in Clients \ {Person} : client'[c] = client[c]
  <2>1. [access |-> f, refresh |-> f] \in Pair
    BY <1>4 DEF Pair
  <2> QED  BY <1>0, <1>3, <2>1, SteppedWith DEF Phase
<1>7. \A n : Current(n)' => n = f
  <2>1. \A n \in Token : session[n] <= signIns
    BY DEF IInv, Ledger
  <2> QED  BY <1>0, <1>3, <1>4, <2>1 DEF Current, TypeOK
<1>8. Known(store)' /\ ~Current(store.refresh)'
  BY <1>0, <1>3, <1>4, <1>5, <1>7, IssueKeeps DEF IInv, Ledger, TypeOK, stored
<1>9. ASSUME NEW c \in Clients \ {Person} PROVE Known(client[c].pair)' /\ ~Own(c)'
  <2>1. PICK p \in Pair \cup {NoPair} : p = client[c].pair
    BY <1>0, ClientPair
  <2>2. Known(p)' /\ p.refresh # f
    BY <1>4, <1>5, <2>1, IssueKeeps DEF IInv, Ledger
  <2>3. client'[c].pair = p
    BY <1>6, <2>1
  <2> QED  BY <1>7, <2>2, <2>3 DEF Known, Own
<1>10. Known(client[Person].pair)' /\ Own(Person)'
  BY <1>3, <1>4, <1>6 DEF Known, Own, Current
<1>11. Ledger'
  BY <1>3, <1>4, <1>5, <1>8, <1>9, <1>10 DEF IInv, Ledger, TypeOK
<1>12. Joining' /\ Unsaved'
  BY <1>6 DEF Joining, Unsaved
<1>13. StepInv'
  BY <1>3, <1>4, <1>6, <1>8, <1>9, <1>10, <1>12 DEF IInv, StepInv, Clients
<1>14. AliveInv'
  <2>1. Keeps(Person)'
    BY <1>3, <1>6 DEF Keeps, Holds, Leaves, Trusts, Clients
  <2>2. Recoverable' /\ GateHolds'
    BY <1>8, <1>12 DEF Recoverable, GateHolds
  <2> QED  BY <1>9, <2>1, <2>2 DEF AliveInv
<1> QED  BY <1>0, <1>11, <1>13, <1>14 DEF IInv

\* A step after which the person holds no session.
LEMMA NoSession ==
    ASSUME IInv, TypeOK', NEW pc \in {"revoking", "clearing", "idle"},
           client'[Person].pc = pc,
           client'[Person].pair \in {client[Person].pair, store},
           \A c \in Clients \ {Person} : client'[c] = client[c],
           kept' = 0, UNCHANGED <<world, signIns, issued, session>>,
           gate' \in {gate, "locked"}, gate # "off",
           store' \in {store, client[Person].pair, NoPair},
           usable' \subseteq usable, renewable' \subseteq renewable
    PROVE  IInv'
<1>0. Person \in Clients /\ ~Joining' /\ ~Unsaved'
  BY DEF Joining, Unsaved, Clients
<1>1. Ledger'
  <2>1. \A p : Known(p)' <=> Known(p)
    BY DEF Known
  <2>2. Known(NoPair) /\ Known(store) /\ \A d \in Clients : Known(client[d].pair)
    BY DEF Known, IInv, Ledger
  <2>3. Known(store') /\ \A d \in Clients : Known(client'[d].pair)
    BY <1>0, <2>2
  <2> QED  BY <2>1, <2>3 DEF IInv, Ledger
<1>2. StepInv'
  BY <1>0 DEF IInv, StepInv, Clients
<1>3. AliveInv'
  BY <1>0 DEF AliveInv, Alive
<1> QED  BY <1>1, <1>2, <1>3 DEF IInv

\* While the person signs in, no session is held and the gate is not off.
LEMMA SigningIn ==
    ASSUME IInv, Joining
    PROVE  kept = 0 /\ signIns # 0 /\ gate \in {"locked", "open"} /\ Own(Person)
           /\ ~Own(Account)
BY DEF IInv, StepInv

LEMMA FinishSignInKeeps == ASSUME IInv, FinishSignIn PROVE IInv'
<1>0. Person \in Clients /\ TypeOK /\ TypeOK' /\ At(Person, "approved")
  BY NextType DEF Clients, IInv, Next, PersonStep, FinishSignIn
<1>1. PICK pc \in {"saving", "idle"} : Answered(Person, pc)
  BY DEF FinishSignIn
<1>2. /\ client'[Person].pc = pc /\ client'[Person].pair = client[Person].pair
      /\ \A c \in Clients \ {Person} : client'[c] = client[c]
      /\ UNCHANGED <<world, store, overtaken, unsaved, gate, kept>>
      /\ UNCHANGED <<issued, session, usable, renewable, signIns>>
  BY <1>0, <1>1, Stepped DEF Answered, Phase, app, stored, server
<1>3. Joining /\ Unsaved /\ kept = 0 /\ gate \in {"locked", "open"}
  BY <1>0, SigningIn DEF Joining, Unsaved
<1>4. CASE pc = "idle"
  BY <1>0, <1>2, <1>3, <1>4, NoSession
<1>5. CASE pc = "saving"
  <2>1. Joining' /\ Unsaved' /\ (Alive' <=> Alive)
    BY <1>2, <1>3, <1>5 DEF Joining, Unsaved, Alive, Current
  <2>2. (\A c \in Clients : client'[c].pair = client[c].pair) /\ \A n : Current(n)' <=> Current(n)
    BY <1>2 DEF Current
  <2>3. Ledger'
    BY <1>2, <2>2 DEF IInv, Ledger, Known
  <2>4. \A c \in Clients : Own(c)' <=> Own(c)
    BY <2>2 DEF Own
  <2>5. StepInv'
    BY <1>0, <1>2, <1>3, <1>5, <2>1, <2>2, <2>4 DEF IInv, StepInv, Clients
  <2>6. ASSUME Alive, NEW c \in Clients, Own(c) PROVE Keeps(c)'
    <3>1. Keeps(c)
      BY <2>6, Aliveness
    <3> QED  BY <1>0, <1>2, <1>5, <3>1 DEF Keeps, Holds, Leaves, Trusts, Clients
  <2>7. Recoverable' /\ GateHolds'
    <3>1. ~Current(store.refresh)'
      BY <1>2, <1>3, <2>2 DEF IInv, StepInv
    <3> QED  BY <2>1, <3>1 DEF Recoverable, GateHolds
  <2> QED  BY <1>0, <2>1, <2>3, <2>4, <2>5, <2>6, <2>7 DEF IInv, AliveInv
<1> QED  BY <1>4, <1>5

LEMMA SaveSignInKeeps == ASSUME IInv, SaveSignIn PROVE IInv'
<1>0. Person \in Clients /\ TypeOK /\ TypeOK' /\ At(Person, "saving")
  BY NextType DEF Clients, IInv, Next, PersonStep, SaveSignIn
<1>1. Joining /\ Unsaved /\ kept = 0 /\ gate \in {"locked", "open"} /\ Own(Person)
  BY <1>0, SigningIn DEF Joining, Unsaved
<1>2. UNCHANGED <<world, unsaved, gate, kept>>
      /\ UNCHANGED <<issued, session, usable, renewable, signIns>>
  BY DEF SaveSignIn, app, server
<1>3. CASE SaveFails(Person) /\ Step(Person, "idle")
  <2>1. /\ client'[Person].pc = "idle" /\ client'[Person].pair = client[Person].pair
        /\ \A c \in Clients \ {Person} : client'[c] = client[c]
        /\ store' \in {store, client[Person].pair}
    BY <1>0, <1>3, Stepped DEF SaveFails, Phase
  <2> QED  BY <1>0, <1>1, <1>2, <2>1, NoSession
<1>4. CASE store' = client[Person].pair /\ overtaken' = FALSE /\ Step(Person, "opening")
  <2>1. /\ client'[Person].pc = "opening" /\ client'[Person].pair = client[Person].pair
        /\ \A c \in Clients \ {Person} : client'[c] = client[c]
    BY <1>0, <1>4, Stepped DEF Phase
  <2>2. Joining' /\ ~Unsaved' /\ (Alive' <=> Alive)
    BY <1>1, <1>2, <2>1 DEF Joining, Unsaved, Alive, Current
  <2>3. (\A c \in Clients : client'[c].pair = client[c].pair) /\ \A n : Current(n)' <=> Current(n)
    BY <1>2, <2>1 DEF Current
  <2>4. Ledger'
    BY <1>0, <1>2, <1>4, <2>3 DEF IInv, Ledger, Known
  <2>5. \A c \in Clients : Own(c)' <=> Own(c)
    BY <2>3 DEF Own
  <2>6. StepInv'
    BY <1>0, <1>1, <1>2, <2>1, <2>2, <2>5, SigningIn DEF IInv, StepInv, Clients
  <2>7. ASSUME Alive, NEW c \in Clients, Own(c) PROVE Keeps(c)'
    <3>1. Keeps(c)
      BY <2>7, Aliveness
    <3> QED  BY <1>0, <1>2, <2>1, <3>1 DEF Keeps, Holds, Leaves, Trusts, Clients
  <2>8. Alive => Recoverable' /\ GateHolds'
    <3>1. Alive => store'.refresh \in renewable'
      BY <1>0, <1>1, <1>2, <1>4, HasTokens DEF Holds, Leaves
    <3>2. Current(store.refresh)'
      BY <1>1, <1>4, <2>3 DEF Own
    <3> QED  BY <2>2, <3>1, <3>2 DEF Recoverable, GateHolds
  <2> QED  BY <1>0, <2>2, <2>4, <2>5, <2>6, <2>7, <2>8 DEF IInv, AliveInv
<1> QED  BY <1>3, <1>4 DEF SaveSignIn

LEMMA OpenSessionKeeps == ASSUME IInv, OpenSession PROVE IInv'
<1>0. Person \in Clients /\ Account \in Clients /\ TypeOK /\ TypeOK' /\ At(Person, "opening")
  BY NextType DEF Clients, IInv, Next, PersonStep, OpenSession
<1>1. /\ client'[Person].pc = "idle" /\ client'[Person].pair = client[Person].pair
      /\ \A c \in Clients \ {Person} : client'[c] = client[c]
      /\ UNCHANGED <<world, store, overtaken>> /\ gate' = "open"
      /\ UNCHANGED <<issued, session, usable, renewable, signIns>>
  BY <1>0, Stepped DEF OpenSession, Phase, stored, server
<1>2. Joining /\ ~Joining' /\ ~Unsaved /\ ~Unsaved' /\ Own(Person)
  BY <1>0, <1>1, SigningIn DEF Joining, Unsaved
<1>3. kept' = IF OfSession(signIns) \cap renewable = {} THEN 0 ELSE signIns
  BY <1>2 DEF OpenSession, Own, Current
<1>4. (\A c \in Clients : client'[c].pair = client[c].pair) /\ \A n : Current(n)' <=> Current(n)
  BY <1>1 DEF Current
<1>5. Ledger'
  BY <1>1, <1>4 DEF IInv, Ledger, Known
<1>6. StepInv'
  BY <1>0, <1>1, <1>2, <1>3 DEF IInv, StepInv, Clients
<1>7. ASSUME Alive' PROVE (/\ \A c \in Clients : Own(c) => Keeps(c)
                           /\ Recoverable
                           /\ GateHolds)'
  <2>1. Alive
    BY <1>2, <1>3, <1>7 DEF Alive, OfSession, Current
  <2>2. (\A c \in Clients : Own(c) => Keeps(c)) /\ Recoverable
    BY <2>1, Aliveness
  <2>3. ASSUME NEW c \in Clients, Own(c)' PROVE Keeps(c)'
    <3>1. Own(c)
      BY <1>4, <2>3 DEF Own
    <3> QED  BY <1>0, <1>1, <2>2, <3>1 DEF Keeps, Holds, Leaves, Trusts, Clients
  <2>4. client'[Account] = client[Account] /\ (Own(Account)' <=> Own(Account))
    BY <1>0, <1>1, <1>4 DEF Own
  <2>5. Recoverable'
    BY <1>1, <1>2, <1>4, <2>2, <2>4 DEF Recoverable, Renewing
  <2>6. GateHolds'
    BY <1>1 DEF GateHolds
  <2> QED  BY <2>3, <2>5, <2>6
<1>8. AliveInv'
  BY <1>7 DEF AliveInv
<1> QED  BY <1>0, <1>5, <1>6, <1>8 DEF IInv

LEMMA SignOutKeeps == ASSUME IInv, SignOut PROVE IInv'
<1>0. Person \in Clients /\ TypeOK /\ TypeOK' /\ store \in Pair \cup {NoPair}
  BY NextType DEF Clients, IInv, Next, PersonStep, TypeOK
<1>1. PICK pc \in {"revoking", "clearing"} : StepWith(Person, pc, store)
  BY DEF SignOut
<1>2. client'[Person].pc = pc /\ client'[Person].pair = store
      /\ \A c \in Clients \ {Person} : client'[c] = client[c]
  BY <1>0, <1>1, SteppedWith DEF Phase
<1>3. /\ kept' = 0 /\ gate = "open" /\ UNCHANGED <<world, signIns, issued, session>>
      /\ gate' = gate /\ store' = store /\ usable' = usable /\ renewable' = renewable
  BY DEF SignOut, app, server, stored
<1> QED  BY <1>0, <1>2, <1>3, NoSession

\* A person who is signing out holds no session.
LEMMA LeavingSession ==
    ASSUME IInv, client[Person].pc \in {"revoking", "clearing"}
    PROVE  gate # "off" /\ kept = 0
BY DEF IInv, StepInv

LEMMA RevokeKeeps == ASSUME IInv, Revoke PROVE IInv'
<1>0. Person \in Clients /\ TypeOK /\ TypeOK' /\ At(Person, "revoking")
  BY NextType DEF Clients, IInv, Next, PersonStep, Revoke
<1>1. client'[Person].pc = "clearing" /\ client'[Person].pair = client[Person].pair
      /\ \A c \in Clients \ {Person} : client'[c] = client[c]
  BY <1>0, Stepped DEF Revoke, Phase
<1>2. /\ UNCHANGED <<world, gate, store, kept>> /\ UNCHANGED <<signIns, issued, session>>
      /\ usable' \subseteq usable /\ renewable' \subseteq renewable
  BY DEF Revoke, EndTokens, app, server, stored
<1> QED  BY <1>0, <1>1, <1>2, LeavingSession, NoSession

LEMMA ClearAccountKeeps == ASSUME IInv, ClearAccount PROVE IInv'
<1>0. Person \in Clients /\ TypeOK /\ TypeOK' /\ At(Person, "clearing")
  BY NextType DEF Clients, IInv, Next, PersonStep, ClearAccount
<1>1. client'[Person].pc = "idle" /\ client'[Person].pair = client[Person].pair
      /\ \A c \in Clients \ {Person} : client'[c] = client[c]
  BY <1>0, Stepped DEF ClearAccount, Phase
<1>2. /\ UNCHANGED <<world, kept, signIns, issued, session, usable, renewable>>
      /\ gate' = "locked" /\ store' \in {store, NoPair}
  BY DEF ClearAccount, Clear, server
<1> QED  BY <1>0, <1>1, <1>2, LeavingSession, NoSession

LEMMA PersonKeeps == ASSUME IInv, PersonStep PROVE IInv'
BY BeginSignInKeeps, FinishSignInKeeps, SaveSignInKeeps, OpenSessionKeeps,
   SignOutKeeps, RevokeKeeps, ClearAccountKeeps DEF PersonStep

----------------------------------------------------------------------------
(* The adapters' steps, the application's exit and the server's preserve   *)
(* IInv.                                                                   *)

LEMMA AdapterTypes == ASSUME IInv, NEW a \in Adapters, AdapterStep(a) PROVE TypeOK'
BY AdapterType DEF IInv

LEMMA AdapterClient ==
    ASSUME NEW a \in Adapters
    PROVE  a \in Clients \ {Person} /\ a # Account /\ a # Person
BY DEF Clients

\* An adapter's step that the server has no part in, where refresh tokens stay.
LEMMA AdapterMoves ==
    ASSUME IInv, TypeOK', NEW a \in Adapters, world.adapters, ~world.rotates,
           \A d \in Clients \ {a} : client'[d] = client[d],
           client'[a].pair \in {client[a].pair, store, NoPair},
           store' \in {store, client[a].pair, NoPair},
           UNCHANGED <<app, server, kept>>,
           Alive => /\ Own(a)' => Keeps(a)'
                    /\ Current(store'.refresh) => store'.refresh \in renewable
                    /\ Unsaved \/ overtaken' \/ Current(store'.refresh)
                    /\ overtaken => overtaken'
    PROVE  IInv'
<1>1. a \in Clients \ {Person} /\ a # Account /\ client'[Person] = client[Person]
  BY AdapterClient DEF Clients
<1>2. UNCHANGED <<world, gate, unsaved>>
  BY DEF app
<1>3. ASSUME Alive PROVE (Own(a)' => Keeps(a)') /\ Recoverable' /\ GateHolds'
  <2>1. Recoverable'
    <3>1. Current(store.refresh)' <=> Current(store'.refresh)
      BY DEF Current, server
    <3> QED  BY <1>1, <1>3, <3>1 DEF Recoverable, Unsaved, server
  <2>2. GateHolds'
    BY <1>1, <1>2, <1>3, Aliveness DEF GateHolds, Joining
  <2> QED  BY <1>3, <2>1, <2>2
<1> QED  BY <1>1, <1>2, <1>3, MoveKeeps

\* What an adapter finds in the store, where refresh tokens stay.
LEMMA StoreStays ==
    ASSUME IInv, Alive, ~world.rotates
    PROVE  /\ Current(store.refresh) => store.refresh \in renewable
           /\ Unsaved \/ overtaken \/ Current(store.refresh)
BY Aliveness DEF Recoverable, Renewing

LEMMA StartAdapterKeeps ==
    ASSUME SafeWorlds, IInv, NEW a \in Adapters, StartAdapter(a) PROVE IInv'
<1>0. a \in Clients \ {Person} /\ a # Account /\ TypeOK /\ TypeOK'
      /\ store \in Pair \cup {NoPair}
  BY AdapterClient, AdapterTypes DEF AdapterStep, IInv, TypeOK
<1>1. PICK pc \in {"ready", "starting"} : StepWith(a, pc, store)
  BY DEF StartAdapter
<1>2. /\ client'[a].pc = pc /\ client'[a].pair = store
      /\ \A d \in Clients \ {a} : client'[d] = client[d]
      /\ UNCHANGED <<stored, app, server, kept>> /\ world.adapters
  BY <1>0, <1>1, SteppedWith DEF StartAdapter, Phase
<1>3. ~world.rotates
  BY <1>0, <1>2, Rotating
<1>4. Own(a)' => Current(store.refresh)
  BY <1>2 DEF Own, Current, server
<1>5. ASSUME Alive, Own(a)' PROVE Keeps(a)'
  BY <1>2, <1>3, <1>4, <1>5, StoreStays DEF Keeps, Holds, Leaves, Trusts, server
<1> QED  BY <1>0, <1>2, <1>3, <1>5, StoreStays, AdapterMoves DEF stored

LEMMA StopAdapterKeeps ==
    ASSUME SafeWorlds, IInv, NEW a \in Adapters, StopAdapter(a) PROVE IInv'
<1>0. a \in Clients \ {Person} /\ a # Account /\ TypeOK /\ TypeOK'
      /\ NoPair \in Pair \cup {NoPair}
  BY AdapterClient, AdapterTypes DEF AdapterStep, IInv
<1>1. /\ client'[a].pc = "idle" /\ client'[a].pair = NoPair
      /\ \A d \in Clients \ {a} : client'[d] = client[d]
      /\ UNCHANGED <<stored, app, server, kept>> /\ ~At(a, "idle")
  BY <1>0, SteppedWith DEF StopAdapter, Phase
<1>2. world.adapters /\ ~world.rotates
  BY <1>0, <1>1, BusyAdapter
<1>3. Keeps(a)'
  BY <1>1 DEF Keeps, Holds, Leaves, Trusts
<1> QED  BY <1>0, <1>1, <1>2, <1>3, StoreStays, AdapterMoves DEF stored

LEMMA ToolRefusedKeeps ==
    ASSUME IInv, NEW a \in Adapters, ToolRefused(a) PROVE IInv'
BY AdapterClient, AnsweredKeeps DEF ToolRefused, Phase

LEMMA ExchangeRefreshKeeps ==
    ASSUME SafeWorlds, IInv, NEW a \in Adapters, ExchangeRefresh(a) PROVE IInv'
<1>0. /\ a \in Clients \ {Person} /\ a # Account
      /\ client[a].pc \in {"starting", "renewing"}
      /\ AfterError(a) \in {"idle", "ready"}
  BY AdapterClient DEF ExchangeRefresh, AfterError
<1>1. CASE /\ Renews(client[a].pair)
           /\ Exchange(client[a].pair.refresh)
           /\ StepWith(a, IF At(a, "starting") THEN "keeping" ELSE "saving",
                       Renewed(client[a].pair.refresh))
           /\ UNCHANGED <<stored, app, kept>>
  BY <1>0, <1>1, ExchangeKeeps DEF Phase
<1>2. CASE /\ Renews(client[a].pair) /\ "lost answer" \in world.faults
           /\ Exchange(client[a].pair.refresh)
           /\ Step(a, AfterError(a))
           /\ UNCHANGED <<stored, app, kept>>
  BY <1>0, <1>2, ExchangeKeeps DEF Phase
<1>3. CASE /\ ~Renews(client[a].pair)
           /\ Answered(a, IF At(a, "starting") THEN "leaving" ELSE "refused")
  <2>1. ~(Alive /\ Own(a))
    BY <1>0, <1>3, HasTokens DEF Holds, Leaves, Renews
  <2> QED  BY <1>0, <1>3, <2>1, AnsweredKeeps DEF Phase
<1>4. CASE Answered(a, AfterError(a))
  BY <1>0, <1>4, AnsweredKeeps DEF Phase
<1> QED  BY <1>1, <1>2, <1>3, <1>4 DEF ExchangeRefresh

LEMMA PersistRefreshKeeps ==
    ASSUME SafeWorlds, IInv, NEW a \in Adapters, PersistRefresh(a) PROVE IInv'
<1>0. a \in Clients \ {Person} /\ a # Account /\ TypeOK /\ TypeOK'
      /\ client[a].pc \in {"keeping", "saving"}
  BY AdapterClient, AdapterTypes DEF AdapterStep, IInv, PersistRefresh
<1>1. PICK pc \in {"ready", "rechecking", "idle"} :
          Step(a, pc) /\ (pc = "rechecking" => At(a, "saving"))
  BY <1>0 DEF PersistRefresh
<1>2. /\ client'[a].pc = pc /\ client'[a].pair = client[a].pair
      /\ \A d \in Clients \ {a} : client'[d] = client[d]
      /\ UNCHANGED <<app, server, kept>> /\ (Save(a) \/ SaveFails(a))
  BY <1>0, <1>1, Stepped DEF PersistRefresh, Phase
<1>3. world.adapters /\ ~world.rotates
  BY <1>0, BusyAdapter
<1>4. store' \in {store, client[a].pair}
  BY <1>2 DEF Save, SaveFails
<1>5. ASSUME Alive, Own(a)' PROVE Keeps(a)'
  <2>1. Own(a)
    BY <1>2, <1>5 DEF Own, Current, server
  <2>2. Keeps(a)
    BY <1>0, <1>5, <2>1, Aliveness
  <2> QED  BY <1>0, <1>1, <1>2, <2>2 DEF Keeps, Holds, Leaves, Trusts, server
<1>6. Alive => /\ Current(store'.refresh) => store'.refresh \in renewable
               /\ Unsaved \/ overtaken' \/ Current(store'.refresh)
               /\ overtaken => overtaken'
  BY <1>0, <1>2, SavedKeeps DEF Holds, Leaves
<1> QED  BY <1>0, <1>2, <1>3, <1>4, <1>5, <1>6, AdapterMoves

LEMMA RecheckKeeps ==
    ASSUME IInv, NEW a \in Adapters, Recheck(a) PROVE IInv'
<1>0. a \in Clients \ {Person} /\ a # Account /\ At(a, "rechecking")
  BY AdapterClient DEF Recheck
<1>1. CASE Answered(a, "ready")
  BY <1>0, <1>1, AnsweredKeeps DEF Phase
<1>2. CASE ~Accepts(client[a].pair) /\ Answered(a, "refused")
  <2>1. ~(Alive /\ Own(a))
    BY <1>0, <1>2, Aliveness DEF Keeps, Trusts, Accepts
  <2> QED  BY <1>0, <1>2, <2>1, AnsweredKeeps DEF Phase
<1> QED  BY <1>1, <1>2 DEF Recheck

LEMMA ClearDesktopSessionKeeps ==
    ASSUME SafeWorlds, IInv, NEW a \in Adapters, ClearDesktopSession(a) PROVE IInv'
<1>0. a \in Clients \ {Person} /\ a # Account /\ TypeOK /\ TypeOK'
      /\ client[a].pc \in {"refused", "leaving"}
  BY AdapterClient, AdapterTypes DEF AdapterStep, IInv, ClearDesktopSession
<1>1. world.adapters /\ ~world.rotates
  BY <1>0, BusyAdapter
<1>2. PICK pc \in {"ready", "idle"} : Step(a, pc)
  BY DEF ClearDesktopSession
<1>3. /\ client'[a].pc = pc /\ client'[a].pair = client[a].pair
      /\ \A d \in Clients \ {a} : client'[d] = client[d]
      /\ UNCHANGED <<app, server, kept>> /\ store' \in {store, NoPair}
  BY <1>0, <1>2, Stepped DEF ClearDesktopSession, Clear, Phase
<1>4. Alive => ~Own(a) /\ overtaken' /\ (Current(store'.refresh) => store'.refresh \in renewable)
  BY <1>0, <1>1, ClearedKeeps, NobodyLeaves DEF ClearDesktopSession, Leaves
<1>5. Own(a)' <=> Own(a)
  BY <1>3 DEF Own, Current, server
<1> QED  BY <1>0, <1>1, <1>3, <1>4, <1>5, AdapterMoves

LEMMA AdapterKeeps ==
    ASSUME SafeWorlds, IInv, NEW a \in Adapters, AdapterStep(a) PROVE IInv'
BY StartAdapterKeeps, StopAdapterKeeps, ToolRefusedKeeps, ExchangeRefreshKeeps,
   PersistRefreshKeeps, RecheckKeeps, ClearDesktopSessionKeeps DEF AdapterStep

\* What the application had in memory is not needed: the store keeps it.
LEMMA QuitKeeps == ASSUME SafeWorlds, IInv, Quit PROVE IInv'
<1>0. Person \in Clients /\ Account \in Clients /\ TypeOK /\ TypeOK'
      /\ Adapters \subseteq Clients \ {Account, Person}
  BY NextType DEF Clients, IInv, Next
<1>1. /\ client'[Account] = Idle /\ client'[Person] = Idle
      /\ \A c \in Clients \ {Account, Person} : client'[c] = client[c]
      /\ UNCHANGED <<world, store, overtaken, kept>> /\ gate' = "off"
      /\ UNCHANGED <<issued, session, usable, renewable, signIns>>
  BY <1>0 DEF Quit, TypeOK, stored, server
<1>2. (\A n : Current(n)' <=> Current(n)) /\ ~Joining' /\ ~Unsaved'
  BY <1>1 DEF Current, Joining, Unsaved, Idle
<1>3. Ledger'
  <2>1. \A c \in Clients : Known(client[c].pair)'
    BY <1>1 DEF IInv, Ledger, Known, Idle
  <2> QED  BY <1>1, <2>1 DEF IInv, Ledger, Known
<1>4. StepInv'
  BY <1>0, <1>1, <1>2 DEF IInv, StepInv, Idle
<1>5. ASSUME Alive' PROVE (/\ \A c \in Clients : Own(c) => Keeps(c)
                           /\ Recoverable
                           /\ GateHolds)'
  <2>1. Alive /\ ~Joining /\ ~Unsaved
    BY <1>1, <1>2, <1>5 DEF Alive, IInv, StepInv, Joining, Unsaved
  <2>2. world.rotates => At(Account, "idle")
    BY <1>0, Rotating DEF Quit
  <2>3. /\ \A c \in Clients : Own(c) => Keeps(c)
        /\ Current(store.refresh) => store.refresh \in renewable
        /\ overtaken \/ Current(store.refresh)
    BY <2>1, <2>2, Aliveness DEF Recoverable, Renewing
  <2>4. ASSUME NEW c \in Clients, Own(c)' PROVE Keeps(c)'
    <3>1. CASE c \in {Account, Person}
      BY <1>1, <3>1 DEF Keeps, Holds, Leaves, Trusts, Idle
    <3>2. CASE c \notin {Account, Person}
      <4>1. Own(c)
        BY <1>1, <1>2, <2>4, <3>2 DEF Own
      <4> QED  BY <1>1, <2>3, <3>2, <4>1 DEF Keeps, Holds, Leaves, Trusts
    <3> QED  BY <3>1, <3>2
  <2>5. Recoverable'
    BY <1>1, <1>2, <2>3 DEF Recoverable
  <2> QED  BY <1>1, <2>4, <2>5 DEF GateHolds
<1>6. AliveInv'
  BY <1>5 DEF AliveInv
<1> QED  BY <1>0, <1>3, <1>4, <1>6 DEF IInv

\* The server takes away tokens, and those of the session only with all of it.
LEMMA ServerTakes ==
    ASSUME IInv, TypeOK', kept' \in {0, kept},
           UNCHANGED <<stored, app, client, issued, session, signIns>>,
           usable' \subseteq usable, renewable' \subseteq renewable,
           Alive' => /\ \A n \in renewable : Current(n) => n \in renewable'
                     /\ \A c \in Clients : Own(c) /\ Trusts(c)
                                               /\ client[c].pair.access \in usable
                            => client[c].pair.access \in usable'
    PROVE  IInv'
<1>1. /\ \A n : Current(n)' <=> Current(n)
      /\ \A p : Known(p)' <=> Known(p)
      /\ \A c : (Own(c)' <=> Own(c)) /\ (Trusts(c)' <=> Trusts(c))
      /\ (Joining' <=> Joining) /\ (Unsaved' <=> Unsaved)
      /\ UNCHANGED <<world, gate, unsaved, store, overtaken>>
  BY DEF Current, Known, Own, Trusts, Joining, Unsaved, stored, app
<1>2. Ledger'
  BY <1>1 DEF IInv, Ledger
<1>3. StepInv'
  BY <1>1 DEF IInv, StepInv
<1>4. ASSUME Alive' PROVE (/\ \A c \in Clients : Own(c) => Keeps(c)
                           /\ Recoverable
                           /\ GateHolds)'
  <2>1. Alive
    BY <1>1, <1>4 DEF Alive
  <2>2. (\A c \in Clients : Own(c) => Keeps(c)) /\ Recoverable /\ GateHolds
    BY <2>1, Aliveness
  <2>3. ASSUME NEW c \in Clients, Own(c)' PROVE Keeps(c)'
    <3>1. Own(c) /\ Keeps(c) /\ Current(client[c].pair.refresh)
      BY <1>1, <2>2, <2>3 DEF Own
    <3> QED  BY <1>1, <1>4, <3>1 DEF Keeps, Holds, Leaves
  <2>4. Recoverable' /\ GateHolds'
    BY <1>1, <1>4, <2>2 DEF Recoverable, Renewing, GateHolds
  <2> QED  BY <2>3, <2>4
<1>5. AliveInv'
  BY <1>4 DEF AliveInv
<1> QED  BY <1>2, <1>3, <1>5 DEF IInv

LEMMA ServerEndsKeeps ==
    ASSUME IInv, NEW s \in 1 .. MaxSignIns, ServerEnds(s) PROVE IInv'
<1>0. TypeOK' /\ s # 0
  BY NextType DEF IInv, Next
<1>1. /\ usable' = usable \ OfSession(s) /\ renewable' = renewable \ OfSession(s)
      /\ kept' = (IF kept = s THEN 0 ELSE kept)
      /\ UNCHANGED <<stored, app, client, issued, session, signIns>>
  BY DEF ServerEnds, EndTokens
<1>2. CASE s = signIns
  <2>1. kept' = 0 /\ \A n \in renewable' : ~Current(n)'
    BY <1>0, <1>1, <1>2 DEF IInv, StepInv, OfSession, Current
  <2> QED  BY <1>0, <1>1, <2>1, ServerTakes DEF Alive
<1>3. CASE s # signIns
  <2>1. \A n \in renewable : Current(n) => n \in renewable'
    BY <1>1, <1>3 DEF OfSession, Current
  <2>2. ASSUME NEW c \in Clients, Own(c), client[c].pair.access \in usable
        PROVE  client[c].pair.access \in usable'
    <3>1. Known(client[c].pair) /\ session[client[c].pair.refresh] = signIns
          /\ client[c].pair # NoPair
      BY <2>2, NoPairIsNotCurrent DEF IInv, Ledger, Own, Current
    <3> QED  BY <1>1, <1>3, <2>2, <3>1 DEF Known, OfSession
  <2> QED  BY <1>0, <1>1, <2>1, <2>2, ServerTakes
<1> QED  BY <1>2, <1>3

LEMMA AccessExpiresKeeps ==
    ASSUME IInv, NEW n \in Token, AccessExpires(n) PROVE IInv'
<1>0. TypeOK' /\ usable' = usable \ {n} /\ n \notin FirstUse
      /\ UNCHANGED <<stored, app, client, issued, session, renewable, signIns, kept>>
  BY NextType DEF IInv, Next, AccessExpires
<1>1. \A c \in Clients : Trusts(c) => client[c].pair.access # n
  BY <1>0 DEF FirstUse, Trusts
<1> QED  BY <1>0, <1>1, ServerTakes

----------------------------------------------------------------------------
(* The theorems *)

LEMMA NextKeeps == ASSUME SafeWorlds, IInv, [Next]_vars PROVE IInv'
<1>1. CASE UNCHANGED vars
  <2>1. TypeOK'
    BY <1>1, NextType DEF IInv
  <2> QED  BY <1>1, <2>1, ServerTakes DEF vars, stored, app
<1> QED  BY <1>1, AccountKeeps, PersonKeeps, AdapterKeeps, QuitKeeps, ServerEndsKeeps,
            AccessExpiresKeeps DEF Next

\* The clients that have tokens of the session in memory can renew it and do
\* not drop it, and what renews it is stored, or about to be, until a client of
\* a former sign-in touches the store: along every behaviour, with any number
\* of sign-ins.
THEOREM Invariance == SafeWorlds /\ Spec => []IInv
<1> SUFFICES ASSUME SafeWorlds PROVE Spec => []IInv
  OBVIOUS
<1>1. Init => IInv
  <2> SUFFICES ASSUME Init PROVE IInv
    OBVIOUS
  <2>1. TypeOK
    BY InitType
  <2>2. \A c \in Clients : client[c] = Idle
    BY DEF Init
  <2>3. Person \in Clients /\ Account \in Clients /\ Adapters \subseteq Clients
    BY DEF Clients
  <2>4. ~Joining /\ ~Unsaved /\ kept = 0 /\ ~Alive
    BY <2>2, <2>3 DEF Init, Alive, Joining, Unsaved, Idle
  <2>5. Ledger
    BY <2>1, <2>2 DEF Init, Ledger, Known, Idle
  <2>6. StepInv
    BY <2>2, <2>3, <2>4 DEF Init, StepInv, Idle
  <2> QED  BY <2>1, <2>4, <2>5, <2>6 DEF IInv, AliveInv
<1>2. IInv /\ [Next]_vars => IInv'
  BY NextKeeps
<1> QED  BY <1>1, <1>2, PTL DEF Spec

\* While the server keeps the session of a person who is signed in, the store
\* or a client that is about to write it has a token that renews the session,
\* unless a client of a former sign-in has touched the store.
THEOREM SessionIsKept == SafeWorlds /\ Spec => []SessionSurvives
<1> SUFFICES ASSUME SafeWorlds PROVE Spec => []SessionSurvives
  OBVIOUS
<1>1. IInv => SessionSurvives
  <2> SUFFICES ASSUME IInv, kept # 0, ~overtaken PROVE SessionSurvives
    BY DEF SessionSurvives
  <2>1. Alive /\ ~Unsaved /\ kept = signIns /\ Account \in Clients
    BY DEF Alive, Unsaved, Joining, IInv, StepInv, Clients
  <2>2. CASE Current(store.refresh) /\ store.refresh \in renewable
    BY <2>1, <2>2 DEF SessionSurvives, Renews, Current
  <2>3. CASE Renewing
    <3>1. client[Account].pair.refresh \in renewable /\ Account \in Writing
          /\ session[client[Account].pair.refresh] = signIns
      BY <2>1, <2>3, HasTokens DEF Renewing, Holds, Leaves, Writing, Own, Current
    <3> QED  BY <2>1, <3>1 DEF SessionSurvives, Renews
  <2> QED  BY <2>1, <2>2, <2>3, Aliveness DEF Recoverable
<1>2. SafeWorlds /\ Spec => []IInv
  BY Invariance
<1> QED  BY <1>1, <1>2, PTL

\* The gate is not locked while the person holds a session that the server
\* keeps, unless the launch could not save the account or a client of a former
\* sign-in has touched the store.
THEOREM GateStaysOpen == SafeWorlds /\ Spec => []GateReturnsForCause
<1> SUFFICES ASSUME SafeWorlds PROVE Spec => []GateReturnsForCause
  OBVIOUS
<1>1. IInv => GateReturnsForCause
  BY Aliveness DEF GateReturnsForCause, GateHolds, IInv, StepInv, Alive
<1>2. SafeWorlds /\ Spec => []IInv
  BY Invariance
<1> QED  BY <1>1, <1>2, PTL

=============================================================================
