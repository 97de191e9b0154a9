------------------------------ MODULE SmbTestCli ------------------------------
(***************************************************************************)
(* The test program src/main.go: flag parsing, the anonymous negotiation  *)
(* test, the authentication test with its IPC$ tree connect, the deferred *)
(* Close and TreeDisconnect calls, and the exit status.                   *)
(*                                                                         *)
(* Flags are abstracted to whether -show-dialects is set and whether a    *)
(* user name is given; output is left out.  The library calls            *)
(* smb.NewConnection, IsAuthenticated and TreeConnect are the environment: *)
(* each returns, with success or an error.  A called test function has a  *)
(* frame [fn, at, deferred, err]; deferred is its stack of deferred calls, *)
(* which Go runs last-in first-out when the function returns.             *)
(***************************************************************************)
EXTENDS Naturals, Sequences

CONSTANT None

VARIABLES
  pc,        \* where main is
  show,      \* -show-dialects
  user,      \* -user is not empty
  frame,     \* the running test function, or None
  conns,     \* each test's session: "none", "open" or "closed"
  tree,      \* the IPC$ tree: "none", "connected" or "disconnected"
  authErr,   \* the error testAuthentication returned, or None
  exitCode   \* the process exit status, or None

vars == << pc, show, user, frame, conns, tree, authErr, exitCode >>

Sessions == {"neg", "auth"}

Init == /\ pc = "start" /\ show = FALSE /\ user = FALSE /\ frame = None
        /\ conns = [s \in Sessions |-> "none"] /\ tree = "none"
        /\ authErr = None /\ exitCode = None

Call(fn) == [fn |-> fn, at |-> "connect", deferred |-> << >>, err |-> None]

(* The effect of one deferred call. *)
RunCall(c) == IF c = "TreeDisconnect"
              THEN tree' = "disconnected" /\ UNCHANGED conns
              ELSE conns' = [conns EXCEPT ![c] = "closed"] /\ UNCHANGED tree

---------------------------------------------------------------------------
(* main.                                                                   *)

(* flag.Parse and the banner; showSupportedDialects when asked. *)
Start == /\ pc = "start"
         /\ \E s, u \in BOOLEAN : show' = s /\ user' = u
         /\ pc' = IF show' THEN "dialects" ELSE "negotiate"
         /\ UNCHANGED << frame, conns, tree, authErr, exitCode >>

(* showSupportedDialects prints the dialect tables and changes nothing. *)
ShowSupportedDialects ==
  /\ pc = "dialects"
  /\ pc' = "negotiate"
  /\ UNCHANGED << show, user, frame, conns, tree, authErr, exitCode >>

CallTestNegotiation == /\ pc = "negotiate"
                       /\ frame' = Call("neg")
                       /\ pc' = "inNeg"
                       /\ UNCHANGED << show, user, conns, tree, authErr, exitCode >>

(* A failed negotiation is logged and main goes on (main.go:43). *)
AfterNegotiation == /\ pc = "negDone"
                    /\ pc' = IF user THEN "auth" ELSE "completed"
                    /\ UNCHANGED << show, user, frame, conns, tree, authErr, exitCode >>

(* Entry of testAuthentication: the options carry the user's credentials, *)
(* which only decide whether NewConnection succeeds.                        *)
AuthFrame == Call("auth")

CallTestAuthentication == /\ pc = "auth"
                          /\ frame' = AuthFrame
                          /\ pc' = "inAuth"
                          /\ UNCHANGED << show, user, conns, tree, authErr, exitCode >>

(* An authentication error ends the process with os.Exit(1). *)
AfterAuthentication == /\ pc = "authDone"
                       /\ authErr # None
                       /\ exitCode' = 1
                       /\ pc' = "exited"
                       /\ UNCHANGED << show, user, frame, conns, tree, authErr >>

Completed == /\ pc = "completed"
             /\ exitCode' = 0
             /\ pc' = "exited"
             /\ UNCHANGED << show, user, frame, conns, tree, authErr >>

---------------------------------------------------------------------------
(* The test functions.                                                     *)

(* Mutant of Connect: "defer session.Close()" left out. *)
ConnectNoDefer ==
  /\ frame # None /\ frame.at = "connect"
  /\ \E ok \in BOOLEAN :
       IF ok THEN /\ conns' = [conns EXCEPT ![frame.fn] = "open"]
                  /\ frame' = [frame EXCEPT !.at = "connected"]
       ELSE /\ frame' = [frame EXCEPT !.at = "return", !.err = TRUE]
            /\ UNCHANGED conns
  /\ UNCHANGED << pc, show, user, tree, authErr, exitCode >>

(* smb.NewConnection; on success "defer session.Close()". *)
Connect ==
  /\ frame # None /\ frame.at = "connect"
  /\ \E ok \in BOOLEAN :
       IF ok THEN /\ conns' = [conns EXCEPT ![frame.fn] = "open"]
                  /\ frame' = [frame EXCEPT !.at = "connected",
                                            !.deferred = Append(@, frame.fn)]
       ELSE /\ frame' = [frame EXCEPT !.at = "return", !.err = TRUE]
            /\ UNCHANGED conns
  /\ UNCHANGED << pc, show, user, tree, authErr, exitCode >>

(* testNegotiation after connecting: the log line, showNegotiationResult  *)
(* (output only), return nil.                                             *)
NegotiationShown == /\ frame # None /\ frame.fn = "neg" /\ frame.at = "connected"
                    /\ frame' = [frame EXCEPT !.at = "return", !.err = FALSE]
                    /\ UNCHANGED << pc, show, user, conns, tree, authErr, exitCode >>

(* testAuthentication: an unauthenticated session is an error. *)
CheckAuthenticated ==
  /\ frame # None /\ frame.fn = "auth" /\ frame.at = "connected"
  /\ \E authenticated \in BOOLEAN :
       frame' = IF authenticated THEN [frame EXCEPT !.at = "authenticated"]
                ELSE [frame EXCEPT !.at = "return", !.err = TRUE]
  /\ UNCHANGED << pc, show, user, conns, tree, authErr, exitCode >>

(* Mutant of TreeConnectIPC: the error of TreeConnect is not returned. *)
TreeConnectIPCIgnoreErr ==
  /\ frame # None /\ frame.at = "authenticated"
  /\ \E ok \in BOOLEAN :
       IF ok THEN /\ tree' = "connected"
                  /\ frame' = [frame EXCEPT !.at = "return", !.err = FALSE,
                                            !.deferred = Append(@, "TreeDisconnect")]
       ELSE /\ frame' = [frame EXCEPT !.at = "return", !.err = FALSE]
            /\ UNCHANGED tree
  /\ UNCHANGED << pc, show, user, conns, authErr, exitCode >>

(* showNegotiationResult, TreeConnect("IPC$"); on success                  *)
(* "defer session.TreeDisconnect", return nil.                            *)
TreeConnectIPC ==
  /\ frame # None /\ frame.at = "authenticated"
  /\ \E ok \in BOOLEAN :
       IF ok THEN /\ tree' = "connected"
                  /\ frame' = [frame EXCEPT !.at = "return", !.err = FALSE,
                                            !.deferred = Append(@, "TreeDisconnect")]
       ELSE /\ frame' = [frame EXCEPT !.at = "return", !.err = TRUE]
            /\ UNCHANGED tree
  /\ UNCHANGED << pc, show, user, conns, authErr, exitCode >>

(* On return, the last deferred call runs first. *)
RunDeferred ==
  /\ frame # None /\ frame.at = "return" /\ frame.deferred # << >>
  /\ RunCall(frame.deferred[Len(frame.deferred)])
  /\ frame' = [frame EXCEPT !.deferred = SubSeq(@, 1, Len(@) - 1)]
  /\ UNCHANGED << pc, show, user, authErr, exitCode >>

(* The function has returned: main receives its error. *)
Return == /\ frame # None /\ frame.at = "return" /\ frame.deferred = << >>
          /\ frame' = None
          /\ IF frame.fn = "neg"
             THEN pc' = "negDone" /\ UNCHANGED authErr
             ELSE /\ authErr' = IF frame.err THEN "error" ELSE None
                  /\ pc' = IF frame.err THEN "authDone" ELSE "completed"
          /\ UNCHANGED << show, user, conns, tree, exitCode >>

---------------------------------------------------------------------------

Next == \/ Start \/ ShowSupportedDialects \/ CallTestNegotiation \/ AfterNegotiation
        \/ CallTestAuthentication \/ AfterAuthentication \/ Completed
        \/ Connect \/ NegotiationShown \/ CheckAuthenticated \/ TreeConnectIPC
        \/ RunDeferred \/ Return

(* main is one goroutine; no fairness is assumed, as nothing bounds how  *)
(* long NewConnection or TreeConnect may block.                            *)
Spec == Init /\ [][Next]_vars

---------------------------------------------------------------------------
(* Properties.                                                             *)

(* When the process exits, on every path through the two tests and their  *)
(* early returns, each session it opened has been closed and the IPC$     *)
(* tree disconnected: the defers ran before os.Exit(1) could skip them.   *)
NoSessionLeak ==
  pc = "exited" => (\A s \in Sessions : conns[s] # "open") /\ tree # "connected"

(* Exit status 0 with credentials means the whole authentication test    *)
(* succeeded: the session was authenticated and IPC$ was connected.       *)
ExitZeroMeansAuthenticated ==
  (pc = "exited" /\ exitCode = 0 /\ user) => tree = "disconnected"

=============================================================================
