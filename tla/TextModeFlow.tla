------------------------------ MODULE TextModeFlow ------------------------------
(***************************************************************************)
(* The text-mode launcher on top of the login mediator: it asks for the    *)
(* user's credentials until a login succeeds, offers the characters,       *)
(* deletes one if told to, and hands a chosen row over to the game client. *)
(*                                                                         *)
(* It waits with an observer: a loop that drains the engine's queue and    *)
(* ends at the event it expects, at an error or at its deadline.  While    *)
(* the user types, nothing is polled.                                      *)
(*                                                                         *)
(* The stage "client" stands for the game client, or the graphical         *)
(* launcher, which call the mediator as they like and poll all the time.   *)
(***************************************************************************)
EXTENDS LoginMediator

CONSTANTS
    Open,           \* worlds this user may enter
    Playable        \* characters whose record has the status 0 or 7

ASSUME FlowAssumption ==
    /\ Open \subseteq Worlds
    /\ Playable \subseteq Characters

VARIABLES
    stage,      \* where the flow is
    observer,   \* TextModeBlockingLoginObserver
    row         \* the row chosen for deletion: index and name

flowVars == <<stage, observer, row>>

Waits == {"login", "close", "delete"}
NoRow == [index |-> 0, name |-> None]

\* Every variable holds a value of its type.
FlowTypeOK ==
    /\ TypeOK
    /\ stage \in {"prompt", "menu", "client", "over"} \cup Waits
    /\ observer \in [expected : {5, 1, 8}, waiting : BOOLEAN, error : BOOLEAN,
                     result : {"ok", "failed", "timeout"}]
    /\ row \in [index : Nat, name : Characters \cup {None}]

FlowInit ==
    /\ Init
    /\ stage \in {"prompt", "client"}
    /\ observer = [expected |-> 5, waiting |-> FALSE, error |-> FALSE, result |-> "ok"]
    /\ row = NoRow

-----------------------------------------------------------------------------
(* The rows of the menu                                                    *)

\* Nothing of the session is shown before there is one.
ListedWorlds == IF m.state > 2 THEN Worlds ELSE {}
ActiveEntries == IF m.state > 2 THEN Slots ELSE {}
SlotRecordStatusAllows(i) == i # None => m.slots[i + 1] \in Playable

EntriesOf(world) == {i \in ActiveEntries : WorldOf[m.slots[i + 1]] = world}

\* BuildTextModeSelectionRows: the characters of each world, and a placeholder
\* for a new one while there are fewer than three.
SelectionRows ==
    UNION {{[world |-> w, index |-> i] :
                i \in EntriesOf(w) \cup (IF Cardinality(EntriesOf(w)) < 3 THEN {None} ELSE {})} :
           w \in ListedWorlds}

ExistingRows == {r \in SelectionRows : r.index # None}

RowAllowsPrimaryAction(r) == r.world \in Open
RowResolves(r) == RowAllowsPrimaryAction(r) /\ SlotRecordStatusAllows(r.index)

-----------------------------------------------------------------------------
(* The observer                                                            *)

\* OnLoginEvent and OnLoginError, for each posting in turn: the last error says
\* whether there is one, 0 is not seen as one, and the last posting of either
\* kind makes the result.
Observe(o, r) ==
    LET p == Settled(r).posted
        errors == {i \in DOMAIN p : p[i].kind = "error"}
        ends == errors \cup {i \in DOMAIN p : p[i] = [kind |-> "event", id |-> o.expected]}
    IN  IF ends = {} THEN o
        ELSE [o EXCEPT !.waiting = FALSE,
                       !.result = IF Max(ends) \in errors THEN "failed" ELSE "ok",
                       !.error = IF errors = {} THEN @ ELSE p[Max(errors)].id # 0]

Registered(event) == [expected |-> event, waiting |-> TRUE, error |-> FALSE, result |-> "ok"]

\* RegisterForExpectedEvent, then the request, whose events the observer sees,
\* then the wait.
WaitFor(s, event, r, w) ==
    /\ Take(r, queue, w)
    /\ stage' = s
    /\ observer' = Observe(Registered(event), r)

SucceededAtDeadline == ~observer.error
Succeeded == ~observer.error /\ observer.result = "ok"

\* The user enters credentials.  A request the mediator refuses is waited for
\* as well.
SubmitCredentials ==
    /\ stage = "prompt"
    /\ MayCall
    /\ IF m.state \in 1 .. 4 \cup 6 .. 12 THEN WaitFor("login", 5, m, wish)
       ELSE WaitFor("login", 5, Switch(m, 2), [what |-> "login", who |-> None])
    /\ UNCHANGED row

\* RunCompletedOperationQueue inside the wait drains the queue.
WaitDelivers ==
    /\ stage \in Waits
    /\ m.ready
    /\ queue # <<>>
    /\ \E hashed \in BOOLEAN :
          /\ MayFault(~hashed)
          /\ LET r == Completed(m, Head(queue), hashed)
             IN  Take(r, Tail(queue), wish) /\ observer' = Observe(observer, r)
    /\ UNCHANGED <<account, calls, stage, row>>

\* 60, 5 or 30 seconds have passed after a drain.
WaitTimesOut ==
    /\ stage \in Waits
    /\ observer.waiting
    /\ queue = <<>>
    /\ observer' = [observer EXCEPT !.waiting = FALSE, !.result = "timeout"]
    /\ UNCHANGED <<vars, stage, row>>

WaitEnds(s) == stage = s /\ ~observer.waiting /\ queue = <<>>

\* A failed login is reset: the mediator goes to state 0, and the flow waits
\* for the connection to close.
LoginEnds ==
    /\ WaitEnds("login")
    /\ IF Succeeded THEN stage' = "menu" /\ UNCHANGED <<vars, observer>>
       ELSE /\ WaitFor("close", 1, Switch(RequestAuthClose(m), 0), NoWish)
            /\ UNCHANGED <<account, calls, faults>>
    /\ UNCHANGED row

CloseEnds ==
    /\ WaitEnds("close")
    /\ stage' = "prompt"
    /\ UNCHANGED <<vars, observer, row>>

\* The user picks the row to delete and confirms it.
DeleteRow(r) ==
    /\ stage = "menu"
    /\ MayCall
    /\ row' = [index |-> r.index, name |-> m.slots[r.index + 1]]
    /\ WaitFor("delete", 8, Switch([m EXCEPT !.current = r.index], 7),
               [what |-> "delete", who |-> m.slots[r.index + 1]])

\* RemoveSlotRecordAndCompactRouteStateByIndex, after the profile's directory.
RemoveRow(r, i) ==
    IF r.state <= 2 \/ r.slots = <<>> THEN r
    ELSE [r EXCEPT !.slots = RemoveAt(@, IF i < Len(@) THEN i + 1 ELSE Len(@))]

\* The flow does not tell the mediator when it gives up.
DeleteEnds ==
    /\ WaitEnds("delete")
    /\ stage' = "menu"
    /\ Take(IF Succeeded THEN RemoveRow(m, row.index) ELSE m, queue, wish)
    /\ UNCHANGED <<account, calls, faults, observer, row>>

\* A row is chosen: a character, or the placeholder of a new one.
SelectRow(r) ==
    /\ stage = "menu"
    /\ RowResolves(r)
    /\ stage' = "client"
    /\ UNCHANGED <<vars, observer, row>>

\* A menu without rows ends the launcher.
NoRows ==
    /\ stage = "menu"
    /\ SelectionRows = {}
    /\ stage' = "over"
    /\ UNCHANGED <<vars, observer, row>>

Flow ==
    \/ SubmitCredentials
    \/ WaitDelivers
    \/ WaitTimesOut
    \/ LoginEnds
    \/ CloseEnds
    \/ \E r \in ExistingRows : DeleteRow(r)
    \/ DeleteEnds
    \/ \E r \in SelectionRows : SelectRow(r)
    \/ NoRows

FlowNext ==
    \/ Flow
    \/ stage = "client" /\ (Client \/ Deliver) /\ UNCHANGED flowVars
    \/ ((\E l \in Links : Network(l)) \/ CopyExpires) /\ UNCHANGED flowVars

allVars == <<vars, flowVars>>

\* The loops poll, a wait that is over is left, connects are resolved, servers
\* answer, and a connection that is being closed ends.  The first two are weak
\* fairness with the guard written out: ENABLED would unfold every handler.
FlowFairness ==
    /\ \/ []<>(queue = <<>> \/ ~m.ready \/ stage \in {"prompt", "menu", "over"})
       \/ []<><<Len(queue') < Len(queue)>>_allVars
    /\ \/ []<>(stage \notin Waits \/ observer.waiting \/ queue # <<>>)
       \/ []<><<stage' # stage>>_allVars
    /\ \A l \in Links :
          /\ WF_allVars((Connected(l) \/ ConnectFails(l)) /\ UNCHANGED flowVars)
          /\ WF_allVars(ServerAnswers(l) /\ UNCHANGED flowVars)
          /\ WF_allVars(m.link[l].st = "Closing" /\ Ends(l) /\ UNCHANGED flowVars)

FlowSpec == FlowInit /\ [][FlowNext]_allVars /\ FlowFairness

-----------------------------------------------------------------------------
(* Properties                                                              *)

\* The row and the profile the flow removes are those of a character that the
\* server has deleted, unless a wait was given up before.
RemovedRowsAreDeleted ==
    [][m'.ready /\ "request" \notin left =>
          \A c \in Characters : c \in ToSet(m.slots) /\ c \notin ToSet(m'.slots) => c \notin account]_allVars

\* Every request is answered, by its event or an error, while the client
\* waits for it.
EveryRequestIsAnswered ==
    wish # NoWish /\ left = {} ~>
        \/ wish = NoWish
        \/ left # {}
        \/ ~m.ready
        \/ NotAnswered
        \/ stage # "client" /\ ~observer.waiting

=============================================================================
