--------------------------- MODULE AccountSession ---------------------------
(***************************************************************************)
(* The Buwiz account of one computer: a stored session that the            *)
(* application (bir-shell/cloud_account.rs) and the MCP adapter (bir-mcp)  *)
(* both load, refresh over the network and write back or clear, with no    *)
(* lock between the load and the write (bir-core/cloud_account.rs).        *)
(*                                                                         *)
(* A token is the number under which the server issued it; the first       *)
(* access and refresh token of a sign-in have the same number.             *)
(* Simplifications:                                                        *)
(*  - Writing the keychain and the private file is one step.  One that     *)
(*    fails leaves the former account or, where the keychain takes it, the *)
(*    new one; a file cut short while it is written is left out.           *)
(*  - Account name, server address and the offline mark are left out: no   *)
(*    other step depends on them.                                          *)
(*  - The page starts at most one refresh per launch, and one sign-in or   *)
(*    sign-out at a time; it offers a sign-in when no account is stored.   *)
(*  - An access token does not expire between its issue and its first use. *)
(*                                                                         *)
(* X_Slip is X with a plausible mistake, used only to show that a property *)
(* notices it.                                                             *)
(***************************************************************************)
EXTENDS Naturals, FiniteSets

CONSTANTS
    Adapters,     \* running copies of bir-mcp
    Worlds,       \* the surroundings a behaviour may have, see World
    MaxSignIns,   \* bound: the most sign-ins of any of Worlds
    MaxIssued,    \* bound: how many tokens the server issues
    MaxQuits      \* bound: how often the application quits

\* rotates: does the server replace a refresh token when it is used?
\* faults: what may happen to a request, to its client or to the file of the account.
\* adapters: is the adapter used?
\* signIns: how often the person signs in.
World == [rotates: BOOLEAN,
          faults: SUBSET {"unreachable", "lost answer", "server error", "killed", "unwritable"},
          adapters: BOOLEAN,
          signIns: 0 .. MaxSignIns]
ASSUME WorldsAssumption == Worlds \subseteq World
ASSUME BoundsAssumption == MaxSignIns \in Nat /\ MaxIssued \in Nat /\ MaxQuits \in Nat

Account == "account"   \* the application's launch and its refreshes
Person == "person"     \* the person's sign-in and sign-out
ASSUME AdaptersAssumption == Account \notin Adapters /\ Person \notin Adapters

VARIABLES
    world,       \* which of Worlds this is
    store,       \* the stored account, or NoPair
    gate,        \* the application: not running, launching, or its gate
    refreshed,   \* freshStarted: has the page started its refresh?
    client,      \* client[c]: how far c is, and the tokens it has in memory
    issued,      \* external: how many tokens the server has issued
    session,     \* external: session[n], the sign-in token n descends from
    usable,      \* external: access tokens the server accepts
    renewable,   \* external: refresh tokens the server accepts
    signIns,     \* sign-ins the server approved
    kept,        \* history: the session the person holds, or 0
    overtaken,   \* history: has a client with the tokens of a former sign-in
                 \* written or cleared the store since the latest was saved?
    unsaved,     \* history: did this launch fail to save the account?
    quits

vars == <<world, store, gate, refreshed, client, issued, session, usable, renewable,
          signIns, kept, overtaken, unsaved, quits>>
app == <<world, gate, refreshed, unsaved, quits>>
server == <<issued, session, usable, renewable, signIns>>
stored == <<store, overtaken>>

Token == 1 .. MaxIssued
Pair == [access: Token, refresh: Token]
NoPair == [access |-> 0, refresh |-> 0]

Clients == {Account, Person} \cup Adapters
Client == [pc: {"idle", "ready", "starting", "checking", "renewing", "confirming",
                "saving", "noting", "keeping", "rechecking", "refused", "leaving",
                "approved", "opening", "revoking", "clearing"},
           pair: Pair \cup {NoPair}]
Idle == [pc |-> "idle", pair |-> NoPair]

Init == /\ world \in Worlds
        /\ store = NoPair
        /\ gate = "off" /\ refreshed = FALSE
        /\ client = [c \in Clients |-> Idle]
        /\ issued = 0 /\ signIns = 0
        /\ session = [n \in Token |-> 0]
        /\ usable = {} /\ renewable = {}
        /\ kept = 0 /\ overtaken = FALSE /\ unsaved = FALSE
        /\ quits = 0

----------------------------------------------------------------------------
(* External: the server *)

Fresh == issued + 1

Renewed_NoRefresh(m) == [access |-> Fresh, refresh |-> IF world.rotates THEN Fresh ELSE 0]

\* The tokens a refresh with token m is answered with; refresh_tokens keeps m
\* when the answer has no refresh token.
Renewed(m) == [access |-> Fresh, refresh |-> IF world.rotates THEN Fresh ELSE m]

Accepts(p) == p.access \in usable
Renews(p) == p.refresh \in renewable

IssueFor(s) ==
    /\ issued < MaxIssued
    /\ issued' = Fresh
    /\ session' = [session EXCEPT ![Fresh] = s]
    /\ usable' = usable \cup {Fresh}

\* A refresh with token m is carried out.
Exchange(m) ==
    /\ IssueFor(session[m])
    /\ renewable' = IF world.rotates THEN (renewable \ {m}) \cup {Fresh} ELSE renewable
    /\ UNCHANGED signIns

OfSession(s) == {n \in Token : session[n] = s}

EndTokens(s) ==
    /\ usable' = usable \ OfSession(s)
    /\ renewable' = renewable \ OfSession(s)
    /\ UNCHANGED <<issued, session, signIns>>

\* The server ends a session on its own.
ServerEnds(s) ==
    /\ OfSession(s) \cap renewable # {}
    /\ EndTokens(s)
    /\ kept' = IF kept = s THEN 0 ELSE kept
    /\ UNCHANGED <<stored, app, client>>

FirstUse == {client[c].pair.access :
                c \in {d \in Clients : client[d].pc \in {"approved", "confirming", "keeping",
                                                        "saving", "rechecking"}}}

AccessExpires(n) ==
    /\ n \in usable \ FirstUse
    /\ usable' = usable \ {n}
    /\ UNCHANGED <<stored, app, client, issued, session, renewable, signIns, kept>>

----------------------------------------------------------------------------
(* The steps of a client.  With a fault f, a request fails in that way.    *)

Step(c, pc) == client' = [client EXCEPT ![c].pc = pc]
StepWith(c, pc, p) == client' = [client EXCEPT ![c] = [pc |-> pc, pair |-> p]]
At(c, pc) == client[c].pc = pc

\* What a client does with an answer; nothing but its own state changes.
Answered(c, pc) == Step(c, pc) /\ UNCHANGED <<stored, app, server, kept>>

\* Client c writes or clears the store.
Touch(c) == overtaken' = (overtaken \/ client[c].pair.refresh \notin OfSession(signIns))

Save(c) == store' = client[c].pair /\ Touch(c)
SaveFails(c) == "unwritable" \in world.faults /\ store' \in {store, client[c].pair} /\ Touch(c)

\* clear_stored_account goes on when the file cannot be removed.
Clear == store' = NoPair \/ ("unwritable" \in world.faults /\ store' = store)

----------------------------------------------------------------------------
(* refresh_session, at a launch or from the page *)

\* The saved session is checked with /me, or renewed when it is about to expire.
Attempt == \E pc \in {"checking", "renewing"} : StepWith(Account, pc, store)

\* restore_saved_session
Launch ==
    /\ gate = "off"
    /\ refreshed' = FALSE
    /\ IF store = NoPair
       THEN gate' = "locked" /\ UNCHANGED client
       ELSE gate' = "launching" /\ Attempt
    /\ unsaved' = FALSE
    /\ UNCHANGED <<world, stored, server, kept, quits>>

\* refresh_account
Refresh ==
    /\ gate = "open" /\ ~refreshed
    /\ At(Account, "idle") /\ At(Person, "idle")
    /\ store # NoPair
    /\ refreshed' = TRUE
    /\ Attempt
    /\ UNCHANGED <<world, stored, gate, server, kept, unsaved, quits>>

\* A launch that gets no refusal opens the gate.
Finish ==
    /\ Step(Account, "idle")
    /\ gate' = IF gate = "launching" THEN "open" ELSE gate
    /\ UNCHANGED <<world, refreshed, server, kept, unsaved, quits>>

\* An answer that is neither a success nor a refusal.
GiveUp == "server error" \in world.faults /\ Finish /\ UNCHANGED stored

CheckProfile ==
    /\ At(Account, "checking")
    /\ \/ Accepts(client[Account].pair) /\ Answered(Account, "saving")
       \/ ~Accepts(client[Account].pair) /\ Answered(Account, "renewing")
       \/ "unreachable" \in world.faults /\ Answered(Account, "noting")
       \/ GiveUp

RefreshTokens ==
    LET old == client[Account].pair IN
    /\ At(Account, "renewing")
    /\ \/ /\ Renews(old)
          /\ Exchange(old.refresh)
          /\ \/ StepWith(Account, "confirming", Renewed(old.refresh))
             \/ "lost answer" \in world.faults /\ Step(Account, "noting")
          /\ UNCHANGED <<stored, app, kept>>
       \/ ~Renews(old) /\ Answered(Account, "refused")
       \/ "unreachable" \in world.faults /\ Answered(Account, "noting")
       \/ GiveUp

Offline_OldTokens(old, new) == old

\* The tokens that are kept when the server cannot be reached for the profile.
Offline(old, new) == new

ConfirmProfile ==
    LET new == client[Account].pair IN
    /\ At(Account, "confirming")
    /\ \/ Accepts(new) /\ Answered(Account, "saving")
       \/ ~Accepts(new) /\ Answered(Account, "refused")
       \/ /\ "unreachable" \in world.faults
          /\ StepWith(Account, "noting", Offline(store, new))
          /\ UNCHANGED <<stored, app, server, kept>>
       \/ GiveUp

SaveAccount_OfflineToo ==
    /\ client[Account].pc \in {"saving", "noting"}
    /\ \/ Save(Account) /\ Finish
       \/ SaveFails(Account) /\ gate # "launching" /\ Finish
       \/ /\ SaveFails(Account) /\ gate = "launching"
          /\ gate' = "locked" /\ unsaved' = At(Account, "saving")
          /\ Step(Account, "idle")
          /\ UNCHANGED <<world, refreshed, server, kept, quits>>

\* A launch that cannot store what an online check returned leaves the gate
\* locked; one that could not reach the server goes on.  A refresh from the
\* page reports the error.
SaveAccount ==
    /\ client[Account].pc \in {"saving", "noting"}
    /\ \/ Save(Account) /\ Finish
       \/ /\ SaveFails(Account)
          /\ At(Account, "noting") \/ gate # "launching"
          /\ Finish
       \/ /\ SaveFails(Account)
          /\ At(Account, "saving") /\ gate = "launching"
          /\ gate' = "locked" /\ unsaved' = TRUE
          /\ Step(Account, "idle")
          /\ UNCHANGED <<world, refreshed, server, kept, quits>>

\* SignedOut
DropAccount ==
    /\ At(Account, "refused")
    /\ Clear /\ Touch(Account)
    /\ gate' = "locked"
    /\ Step(Account, "idle")
    /\ UNCHANGED <<world, refreshed, server, kept, unsaved, quits>>

----------------------------------------------------------------------------
(* The person *)

\* begin_sign_in, until the server has approved the device.  The person gives
\* up the session held so far.
BeginSignIn ==
    /\ gate = "locked" \/ (gate = "open" /\ store = NoPair)
    /\ At(Person, "idle")
    /\ signIns < world.signIns
    /\ signIns' = signIns + 1
    /\ IssueFor(signIns + 1)
    /\ renewable' = renewable \cup {Fresh}
    /\ StepWith(Person, "approved", [access |-> Fresh, refresh |-> Fresh])
    /\ kept' = 0
    /\ UNCHANGED <<stored, app>>

\* finish_sign_in reads the profile; it fails whatever the fault.
FinishSignIn ==
    /\ At(Person, "approved")
    /\ \/ Accepts(client[Person].pair) /\ Answered(Person, "saving")
       \/ (world.faults # {} \/ ~Accepts(client[Person].pair)) /\ Answered(Person, "idle")

SaveSignIn ==
    /\ At(Person, "saving")
    /\ \/ /\ store' = client[Person].pair /\ overtaken' = FALSE
          /\ Step(Person, "opening")
       \/ SaveFails(Person) /\ Step(Person, "idle")
    /\ UNCHANGED <<app, server, kept>>

\* session_opened
OpenSession ==
    LET s == session[client[Person].pair.refresh] IN
    /\ At(Person, "opening")
    /\ gate' = "open"
    /\ kept' = IF OfSession(s) \cap renewable = {} THEN 0 ELSE s
    /\ unsaved' = FALSE
    /\ Step(Person, "idle")
    /\ UNCHANGED <<world, stored, refreshed, server, quits>>

\* sign_out
SignOut ==
    /\ gate = "open"
    /\ At(Person, "idle")
    /\ kept' = 0
    /\ StepWith(Person, IF store = NoPair THEN "clearing" ELSE "revoking", store)
    /\ UNCHANGED <<stored, app, server>>

\* revoke_session: its outcome is ignored.
Revoke ==
    LET p == client[Person].pair IN
    /\ At(Person, "revoking")
    /\ Step(Person, "clearing")
    /\ \/ Accepts(p) /\ EndTokens(session[p.access])
       \/ (world.faults # {} \/ ~Accepts(p)) /\ UNCHANGED server
    /\ UNCHANGED <<stored, app, kept>>

ClearAccount ==
    /\ At(Person, "clearing")
    /\ Clear
    /\ gate' = "locked"
    /\ Step(Person, "idle")
    /\ UNCHANGED <<world, refreshed, server, kept, overtaken, unsaved, quits>>

\* What the application had in memory is gone.
Quit ==
    /\ gate # "off"
    /\ quits < MaxQuits
    /\ "killed" \in world.faults \/ (At(Account, "idle") /\ At(Person, "idle"))
    /\ quits' = quits + 1
    /\ gate' = "off"
    /\ client' = [client EXCEPT ![Account] = Idle, ![Person] = Idle]
    /\ UNCHANGED <<world, stored, refreshed, server, kept, unsaved>>

----------------------------------------------------------------------------
(* bir-mcp keeps the pair it was started with, or last renewed, in memory. *)

\* ensure_fresh renews a pair that is about to expire first.
StartAdapter(a) ==
    /\ world.adapters
    /\ At(a, "idle")
    /\ store # NoPair
    /\ \E pc \in {"ready", "starting"} : StepWith(a, pc, store)
    /\ UNCHANGED <<stored, app, server, kept>>

StopAdapter(a) ==
    /\ At(a, "ready") \/ ("killed" \in world.faults /\ ~At(a, "idle"))
    /\ StepWith(a, "idle", NoPair)
    /\ UNCHANGED <<stored, app, server, kept>>

\* allow_desktop: a tool call is answered 401.
ToolRefused(a) ==
    /\ At(a, "ready")
    /\ ~Accepts(client[a].pair)
    /\ Answered(a, "renewing")

AfterError_Clears(a) == IF At(a, "starting") THEN "leaving" ELSE "refused"

\* An error other than a refused token ends the start, or the tool call.
AfterError(a) == IF At(a, "starting") THEN "idle" ELSE "ready"

\* exchange_refresh
ExchangeRefresh(a) ==
    LET old == client[a].pair IN
    /\ client[a].pc \in {"starting", "renewing"}
    /\ \/ /\ Renews(old)
          /\ Exchange(old.refresh)
          /\ StepWith(a, IF At(a, "starting") THEN "keeping" ELSE "saving", Renewed(old.refresh))
          /\ UNCHANGED <<stored, app, kept>>
       \/ /\ Renews(old) /\ "lost answer" \in world.faults
          /\ Exchange(old.refresh)
          /\ Step(a, AfterError(a))
          /\ UNCHANGED <<stored, app, kept>>
       \/ /\ ~Renews(old)
          /\ Answered(a, IF At(a, "starting") THEN "leaving" ELSE "refused")
       \/ /\ world.faults \cap {"unreachable", "server error"} # {}
          /\ Answered(a, AfterError(a))

\* DesktopStore.save writes its tokens over whatever is stored; an error ends
\* the start, or the tool call.
PersistRefresh(a) ==
    /\ client[a].pc \in {"keeping", "saving"}
    /\ \/ Save(a) /\ Step(a, IF At(a, "keeping") THEN "ready" ELSE "rechecking")
       \/ SaveFails(a) /\ Step(a, IF At(a, "keeping") THEN "idle" ELSE "ready")
    /\ UNCHANGED <<app, server, kept>>

\* The tool call is tried again.
Recheck(a) ==
    /\ At(a, "rechecking")
    /\ \/ Answered(a, IF Accepts(client[a].pair) THEN "ready" ELSE "refused")
       \/ world.faults # {} /\ Answered(a, "ready")

\* clear_desktop_session; a start that was refused ends.
ClearDesktopSession(a) ==
    /\ client[a].pc \in {"refused", "leaving"}
    /\ Clear /\ Touch(a)
    /\ Step(a, IF At(a, "refused") THEN "ready" ELSE "idle")
    /\ UNCHANGED <<app, server, kept>>

----------------------------------------------------------------------------

AccountStep == \/ Launch \/ Refresh \/ CheckProfile \/ RefreshTokens
               \/ ConfirmProfile \/ SaveAccount \/ DropAccount
PersonStep == \/ BeginSignIn \/ FinishSignIn \/ SaveSignIn \/ OpenSession
              \/ SignOut \/ Revoke \/ ClearAccount
AdapterStep(a) == \/ StartAdapter(a) \/ StopAdapter(a) \/ ToolRefused(a)
                  \/ ExchangeRefresh(a) \/ PersistRefresh(a) \/ Recheck(a)
                  \/ ClearDesktopSession(a)

Next == \/ AccountStep
        \/ PersonStep
        \/ Quit
        \/ \E a \in Adapters : AdapterStep(a)
        \/ \E s \in 1 .. MaxSignIns : ServerEnds(s)
        \/ \E n \in Token : AccessExpires(n)

Spec == Init /\ [][Next]_vars

----------------------------------------------------------------------------
(* What the clients promise *)

TypeOK ==
    /\ world \in Worlds
    /\ store \in Pair \cup {NoPair}
    /\ gate \in {"off", "launching", "locked", "open"} /\ refreshed \in BOOLEAN
    /\ client \in [Clients -> Client]
    /\ issued \in 0 .. MaxIssued /\ signIns \in 0 .. MaxSignIns
    /\ session \in [Token -> 0 .. MaxSignIns]
    /\ usable \subseteq Token /\ renewable \subseteq Token
    /\ kept \in 0 .. MaxSignIns /\ overtaken \in BOOLEAN /\ unsaved \in BOOLEAN
    /\ quits \in 0 .. MaxQuits

\* A client that will write its tokens to the store.
Writing == {c \in Clients : client[c].pc \in {"confirming", "saving", "noting", "keeping"}}

\* While the server keeps the session of a person who is signed in, this
\* computer can renew it: with what is stored, or what a client is about to
\* store.  No failed request or write costs the session (refresh_session,
\* ensure_fresh); a client that still has the tokens of a former sign-in does,
\* when it writes or clears the store (retry_desktop, DesktopStore.save).
SessionSurvives ==
    kept # 0 /\ ~overtaken =>
        \E p \in {store} \cup {client[c].pair : c \in Writing} :
            Renews(p) /\ session[p.refresh] = kept

\* The gate returns only when the person signs out, when the server ends the
\* session (gate_after_refresh) or, which that function's comment leaves out,
\* when a launch cannot save the account or a client of a former sign-in has
\* written or cleared the store.
GateReturnsForCause == gate = "locked" => kept = 0 \/ unsaved \/ overtaken

=============================================================================
