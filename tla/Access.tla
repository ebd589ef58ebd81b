-------------------------------- MODULE Access --------------------------------
(***************************************************************************)
(* Who may use the dashboard: the setup token that a process prints, the     *)
(* setup session it is exchanged for, the one account that such a session    *)
(* makes, and the sessions that its password opens.  The account and the     *)
(* token are files, sessions and the count of failed attempts are in the     *)
(* memory of the server, and requests overlap because deriving a key is      *)
(* slow.  What a signed-in browser does to the household is in Dashboard.    *)
(***************************************************************************)
EXTENDS FiniteSets, Integers, Sequences

CONSTANTS
  Browsers,    \* each with one request at a time
  Passwords,
  Nil,
  TokenLife, SetupLife, IdleLife,       \* SetupTokenTTL, SetupSessionTTL, SessionIdleTimeout
  AttemptLimit, LoginWindow, Lockout,   \* LoginAttemptLimit and the two periods
  LastHour,    \* bound: how long a behaviour goes
  MaxTokens,   \* bound: the tokens that are issued
  MaxStops     \* bound: how often the server is stopped and started

Absent == "absent"
Torn == "torn"
Steps == {"idle", "redeeming", "creating", "changing", "emptied", "written", "verifying"}

AccessAssumption ==
  /\ IsFiniteSet(Browsers)
  /\ Nil \notin Passwords \cup {"create", "change"} /\ {Absent, Torn} \cap Passwords = {}
  /\ TokenLife \in Nat /\ SetupLife \in Nat /\ IdleLife \in Nat
  /\ AttemptLimit \in Nat \ {0} /\ LoginWindow \in Nat /\ Lockout \in Nat
  /\ LastHour \in Nat /\ MaxTokens \in Nat \ {0} /\ MaxStops \in Nat

VARIABLES
  account,   \* admin.json: the password that opens it
  token,     \* setup-token.json: the one outstanding token
  issued,    \* the tokens so far
  table,     \* the sessions, of each browser's two cookies
  guard,     \* the failed attempts, and until when nobody signs in
  request,   \* of each browser
  command,   \* a `kenward setup-token`
  hour, stops,
  past       \* history: the accounts made, the sessions the last token bought, and whether at once

accessVars == <<account, token, issued, table, guard, request, command, hour, stops, past>>

NoToken == [n |-> 0, at |-> 0, late |-> FALSE]
SetupOver == [live |-> FALSE, at |-> 0, late |-> FALSE]
SignedOff == [live |-> FALSE, at |-> 0, password |-> Nil, stale |-> FALSE]
Unguarded == [failures |-> <<>>, until |-> 0, since |-> 0, many |-> FALSE]
Idle == [step |-> "idle", of |-> Nil, password |-> Nil, token |-> 0]

Hours == 0..LastHour
Token == [n : 0..MaxTokens, at : Hours, late : BOOLEAN]
Sessions == [setup : [live : BOOLEAN, at : Hours, late : BOOLEAN],
             admin : [live : BOOLEAN, at : Hours, password : Passwords \cup {Nil}, stale : BOOLEAN]]
Guard == [failures : Seq(Hours), until : Nat, since : Nat, many : BOOLEAN]
Request == [step : Steps, of : {"create", "change", Nil}, password : Passwords \cup {Nil},
            token : 0..MaxTokens]
Past == [made : 0..2, atOnce : BOOLEAN, redeemed : 0..2, together : BOOLEAN]

TypeOK ==
  /\ account \in {Absent, Torn} \cup Passwords
  /\ token \in Token /\ token.n \in {0, issued} /\ issued \in 1..MaxTokens
  /\ table \in [Browsers -> Sessions] /\ request \in [Browsers -> Request]
  /\ guard \in Guard /\ Len(guard.failures) < AttemptLimit
  /\ command \in {"none", "checked"} /\ hour \in Hours /\ stops \in 0..MaxStops /\ past \in Past
  /\ \A b \in Browsers :
       request[b].step \in {"emptied", "written"} => request[b].of \in {"create", "change"}

\* A server that was started where there is no account, and has printed a token.
Init ==
  /\ account = Absent /\ issued = 1 /\ token = [NoToken EXCEPT !.n = 1]
  /\ table = [b \in Browsers |-> [setup |-> SetupOver, admin |-> SignedOff]]
  /\ guard = Unguarded /\ request = [b \in Browsers |-> Idle] /\ command = "none"
  /\ hour = 0 /\ stops = 0
  /\ past = [made |-> 0, atOnce |-> FALSE, redeemed |-> 0, together |-> FALSE]

\* Asked of the file system each time.
Exists == account # Absent

Asks(b, step, r) == request[b].step = "idle" /\ request' = [request EXCEPT ![b] = [r EXCEPT !.step = step]]
Answered(b) == request' = [request EXCEPT ![b] = Idle]
Others(b) == Browsers \ {b}
-----------------------------------------------------------------------------
\* Whatever token was outstanding stops working.
Issue(late) ==
  /\ issued < MaxTokens /\ issued' = issued + 1
  /\ token' = [n |-> issued + 1, at |-> hour, late |-> late]
  /\ past' = [past EXCEPT !.redeemed = 0, !.together = FALSE]

\* `kenward setup-token`, in a process of its own: nothing for a household with an account.
CommandLooks ==
  /\ command = "none" /\ ~Exists /\ issued < MaxTokens /\ command' = "checked"
  /\ UNCHANGED <<account, token, issued, table, guard, request, hour, stops, past>>
CommandIssues ==
  /\ command = "checked" /\ command' = "none" /\ Issue(Exists)
  /\ UNCHANGED <<account, table, guard, request, hour, stops>>

\* The page for the token, which there is while there is no account.  What is wrong with a
\* token is said, and only an expired one is removed.
Redeem(b, n) ==
  /\ ~Exists /\ request[b].step = "idle" /\ token.n # 0
  /\ IF hour - token.at > TokenLife
     THEN token' = NoToken /\ UNCHANGED <<request, past>>
     ELSE /\ n = token.n /\ Asks(b, "redeeming", [Idle EXCEPT !.token = n])
          /\ past' = [past EXCEPT !.together = @ \/ \E a \in Others(b) : request[a].token = n]
          /\ UNCHANGED token
  /\ UNCHANGED <<account, issued, table, guard, command, hour, stops>>

\* The file is removed, if it is still there, before the session is made.
Redeemed(b) ==
  /\ request[b].step = "redeeming" /\ Answered(b) /\ token' = NoToken
  /\ table' = [table EXCEPT ![b].setup = [live |-> TRUE, at |-> hour, late |-> Exists]]
  /\ past' = IF request[b].token = issued /\ past.redeemed < 2
             THEN [past EXCEPT !.redeemed = @ + 1] ELSE past
  /\ UNCHANGED <<account, issued, guard, command, hour, stops>>

-----------------------------------------------------------------------------
\* A setup session lives from when it was made, an admin's from its last request.
InSetup(b) == table[b].setup.live /\ hour - table[b].setup.at <= SetupLife
SignedIn(b) == table[b].admin.live /\ hour - table[b].admin.at <= IdleLife

\* A mutant of MayCreate: the form is taken from whoever had a setup session.
MayCreateAnyway(b) == InSetup(b)

\* The wizard's step that makes the account asks first that there is none, and with none no
\* session but one of the setup.
MayCreate(b) == ~Exists /\ InSetup(b)

Create(b, p) ==
  /\ MayCreate(b) /\ Asks(b, "creating", [Idle EXCEPT !.of = "create", !.password = p])
  /\ past' = [past EXCEPT !.atOnce = @ \/ \E a \in Others(b) : request[a].step = "creating"]
  /\ UNCHANGED <<account, token, issued, table, guard, command, hour, stops>>

\* The password page: the old password opens the record, and a key is derived from the new.
Change(b, old, new) ==
  /\ SignedIn(b) /\ account = old
  /\ Asks(b, "changing", [Idle EXCEPT !.of = "change", !.password = new])
  /\ table' = [table EXCEPT ![b].admin.at = hour]
  /\ UNCHANGED <<account, token, issued, guard, command, hour, stops, past>>

\* writeJSON empties the file and then writes it.
Empties(b) ==
  /\ request[b].step \in {"creating", "changing"} /\ account' = Torn
  /\ request' = [request EXCEPT ![b].step = "emptied"]
  /\ UNCHANGED <<token, issued, table, guard, command, hour, stops, past>>
Fills(b) ==
  /\ request[b].step = "emptied" /\ account' = request[b].password
  /\ request' = [request EXCEPT ![b].step = "written"]
  /\ past' = IF request[b].of = "create" /\ past.made < 2 THEN [past EXCEPT !.made = @ + 1] ELSE past
  /\ UNCHANGED <<token, issued, table, guard, command, hour, stops>>

SessionFor(p) == [live |-> TRUE, at |-> hour, password |-> p, stale |-> account # p]

\* A mutant of AllOver: the setup session that made the account ends.
OwnOver(b) == [table EXCEPT ![b].setup = SetupOver]

\* destroyKind: every browser's setup session ends, whoever made the account.
AllOver(b) == [a \in Browsers |-> [table[a] EXCEPT !.setup = SetupOver]]

\* The account is there: the token goes, the setup sessions go, and the browser signs in.
Created(b) ==
  /\ request[b].step = "written" /\ request[b].of = "create" /\ Answered(b)
  /\ token' = NoToken /\ guard' = Unguarded
  /\ table' = [AllOver(b) EXCEPT ![b].admin = SessionFor(request[b].password)]
  /\ UNCHANGED <<account, issued, command, hour, stops, past>>

\* Every browser is signed out, this one too.
Changed(b) ==
  /\ request[b].step = "written" /\ request[b].of = "change" /\ Answered(b)
  /\ table' = [a \in Browsers |-> [table[a] EXCEPT !.admin = SignedOff]]
  /\ UNCHANGED <<account, token, issued, guard, command, hour, stops, past>>

-----------------------------------------------------------------------------
Verifying == {b \in Browsers : request[b].step = "verifying"}

\* Fewer failures than lock the account are kept, and those of the window: they are in
\* order, so these are the last.  "many" is history: as many attempts as lock it were being
\* looked at when it was locked.
Failed(b) ==
  LET old == Cardinality({i \in DOMAIN guard.failures : guard.failures[i] <= hour - LoginWindow})
      failures == Append(SubSeq(guard.failures, old + 1, Len(guard.failures)), hour)
      locked == hour < guard.until
  IN IF Len(failures) >= AttemptLimit
     THEN [failures |-> <<>>, until |-> hour + Lockout,
           since |-> IF locked THEN guard.since ELSE hour,
           many |-> IF locked THEN guard.many ELSE Cardinality(Verifying \ {b}) >= AttemptLimit]
     ELSE [guard EXCEPT !.failures = failures]

\* Nobody's password is looked at while the account is locked; then the record is read and
\* the key derived, which opens it or does not.
Login(b, p) ==
  /\ hour >= guard.until
  /\ Asks(b, "verifying", [Idle EXCEPT !.password = IF account = p THEN p ELSE Nil])
  /\ UNCHANGED <<account, token, issued, table, guard, command, hour, stops, past>>

\* A failure counts; a success gives the browser a session in place of what it had, and
\* clears the count.
Verified(b) ==
  /\ request[b].step = "verifying" /\ Answered(b)
  /\ IF request[b].password # Nil
     THEN /\ table' = [table EXCEPT ![b].admin = SessionFor(request[b].password)] /\ guard' = Unguarded
     ELSE guard' = Failed(b) /\ UNCHANGED table
  /\ UNCHANGED <<account, token, issued, command, hour, stops, past>>

\* A page that asks for a session: one that has expired goes.
Visit(b) ==
  /\ request[b].step = "idle" /\ table[b].admin.live
  /\ table' = [table EXCEPT ![b].admin = IF SignedIn(b) THEN [@ EXCEPT !.at = hour] ELSE SignedOff]
  /\ UNCHANGED <<account, token, issued, guard, request, command, hour, stops, past>>

Logout(b) ==
  /\ request[b].step = "idle" /\ SignedIn(b) /\ table' = [table EXCEPT ![b].admin = SignedOff]
  /\ UNCHANGED <<account, token, issued, guard, request, command, hour, stops, past>>

-----------------------------------------------------------------------------
\* The server ends and is started again: what was in its memory is gone, the request that was
\* writing has written what it has; and it prints a token, or discards the one there is.
Restart ==
  /\ stops < MaxStops /\ stops' = stops + 1
  /\ table' = [b \in Browsers |-> [setup |-> SetupOver, admin |-> SignedOff]]
  /\ guard' = Unguarded /\ request' = [b \in Browsers |-> Idle]
  /\ IF Exists THEN token' = NoToken /\ UNCHANGED <<issued, past>> ELSE Issue(FALSE)
  /\ UNCHANGED <<account, command, hour>>

Tick == hour < LastHour /\ hour' = hour + 1
        /\ UNCHANGED <<account, token, issued, table, guard, request, command, stops, past>>

Next ==
  \/ CommandLooks \/ CommandIssues \/ Restart \/ Tick
  \/ \E b \in Browsers :
       \/ Redeemed(b) \/ Empties(b) \/ Fills(b) \/ Created(b) \/ Changed(b)
       \/ Verified(b) \/ Visit(b) \/ Logout(b)
       \/ \E n \in 1..MaxTokens : Redeem(b, n)
       \/ \E p \in Passwords : Create(b, p) \/ Login(b, p)
       \/ \E old, new \in Passwords : Change(b, old, new)

Spec == Init /\ [][Next]_accessVars
-----------------------------------------------------------------------------
Writing(of) == \E b \in Browsers : request[b].step \in {"emptied", "written"} /\ request[b].of = of

\* There is one account, and no request replaces it: it is made once, unless two requests
\* were deriving their keys at once (AdminStore.Create).
AccountIsOne == past.made <= 1 \/ past.atOnce

\* A token buys one session, unless it was presented twice at once (SetupTokenStore.Redeem).
TokenIsForOne == past.redeemed <= 1 \/ past.together

\* Once the account is made there is no setup session and no token, but what came of a
\* request or a command that had found no account (handleAdminStep).
SetupIsOver ==
  Exists /\ ~Writing("create") =>
    /\ \A b \in Browsers : table[b].setup.live => table[b].setup.late
    /\ token.n # 0 => token.late

\* A browser that is signed in knows the password, once a change of it is over; but a
\* request whose password was looked at before (handlePasswordSubmit).
OneSigningIn ==
  \A b \in Browsers :
    table[b].admin.live =>
      \/ table[b].admin.password = account \/ table[b].admin.stale
      \/ Writing("change") \/ past.atOnce

\* A lockout is served once: no attempt makes it longer (loginGuard.fail), but of those
\* that were being looked at when it began, if they are as many as lock the account.
LockoutIsServedOnce == guard.until <= guard.since + Lockout \/ guard.many

AccessIsInOrder ==
  AccountIsOne /\ TokenIsForOne /\ SetupIsOver /\ OneSigningIn /\ LockoutIsServedOnce

\* Why they hold: who writes the account found none, or knew its password, so that while one
\* account is being made there is none and nobody changes it;
Making(b) == request[b].of = "create"
RequestsFit ==
  \A b \in Browsers :
    /\ request[b].of = "create" => request[b].step \in {"creating", "emptied", "written"}
    /\ request[b].of = "change" => request[b].step \in {"changing", "emptied", "written"}
    /\ request[b].step = "creating" => request[b].of = "create"
    /\ request[b].step = "changing" => request[b].of = "change"
    /\ request[b].of # Nil => request[b].password \in Passwords
    /\ request[b].step \in {"changing", "emptied", "written"} => Exists
    /\ request[b].token <= issued
    /\ table[b].admin.live => table[b].admin.password \in Passwords
OneCreates ==
  past.atOnce \/
  /\ \A a, b \in Browsers : Making(a) /\ Making(b) => a = b
  /\ past.made = 1 => Exists
  /\ \A b \in Browsers :
       /\ request[b].step = "creating" => ~Exists
       /\ Making(b) /\ request[b].step = "emptied" =>
            account = Torn /\ past.made = 0 /\ \A a \in Browsers : request[a].of # "change"

\* a token is gone, or has not been bought with;
Redeeming(b) == request[b].step = "redeeming" /\ request[b].token = issued
OneRedeems ==
  past.together \/
  /\ \A a, b \in Browsers : Redeeming(a) /\ Redeeming(b) => a = b
  /\ past.redeemed = 1 => token.n = 0 /\ \A b \in Browsers : ~Redeeming(b)

\* and while the account is locked each attempt that fails is one the fewer to come.
AttemptsAreFew ==
  hour < guard.until /\ ~guard.many => Len(guard.failures) + Cardinality(Verifying) < AttemptLimit

AccessInv ==
  TypeOK /\ AccessIsInOrder /\ RequestsFit /\ OneCreates /\ OneRedeems /\ AttemptsAreFew
=============================================================================
