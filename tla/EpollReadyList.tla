--------------------------- MODULE EpollReadyList ---------------------------
(***************************************************************************)
(* The file descriptors of EpollServer                                     *)
(* (net/tools/epoll_server/epoll_server.cc): the map of registrations, the *)
(* ready list threaded through its nodes, and the loop that calls OnEvent. *)
(*                                                                         *)
(* There is one CBAndEventMask node per descriptor at most, so that a      *)
(* descriptor names its node, and a node that is not in cb_map_ is freed   *)
(* memory.  What a callback does to the server is a sequence of actions    *)
(* between its call and its return; the notifications OnRegistration,      *)
(* OnModification, OnUnregistration and OnShutdown, which do nothing in    *)
(* QuicServer and QuicClient, are left out.                                *)
(***************************************************************************)
EXTENDS Integers, Sequences, Functions

CONSTANTS
  FDs, NoFD,    \* file descriptors, none
  Callbacks,    \* EpollCallbackInterface objects
  NoCallback,   \* NULL
  Unwatched,    \* a descriptor that is not in the interest list
  Events,       \* EPOLLIN, EPOLLOUT...; a mask is a set of events
  ErrorEvents   \* EPOLLERR and EPOLLHUP

ASSUME CallbacksAssumption ==
  NoCallback \notin Callbacks /\ NoFD \notin FDs

VARIABLES
  cb_map_,           \* the descriptors that have a node
  node,              \* the fields of each node: a CBAndEventMask
  ready_list_, tmp_list_,   \* descriptors, first to last
  ready_list_size_,
  epoll,             \* the kernel's interest list: fd -> mask or Unwatched
  phase,             \* "idle", "waited" (HandleEvent), "calling", "destroyed"
  running,           \* the fd whose OnEvent is on the stack, if any
  stale              \* history: events_asserted is from before the present
                     \* callback of the descriptor was registered

vars == <<cb_map_, node, ready_list_, tmp_list_, ready_list_size_, epoll,
          phase, running, stale>>
listVars == <<ready_list_, tmp_list_, ready_list_size_>>
loopVars == <<phase, running>>

Masks == SUBSET Events
Reports == SUBSET (Events \cup ErrorEvents)

\* listed: entry.le_prev is not NULL.
CBAndEventMask ==
  [cb : Callbacks \cup {NoCallback}, event_mask : Masks,
   events_asserted : Reports, events_to_fake : Masks, in_use : BOOLEAN,
   listed : BOOLEAN]

NewNode(cb, mask) ==
  [cb |-> cb, event_mask |-> mask, events_asserted |-> {},
   events_to_fake |-> {}, in_use |-> FALSE, listed |-> FALSE]

Registered(fd) == fd \in cb_map_ /\ node[fd].cb # NoCallback

Init ==
  /\ cb_map_ = {}
  /\ node = [fd \in FDs |-> NewNode(NoCallback, {})]
  /\ ready_list_ = <<>> /\ tmp_list_ = <<>> /\ ready_list_size_ = 0
  /\ epoll = [fd \in FDs |-> Unwatched]
  /\ phase = "idle" /\ running = NoFD
  /\ stale = [fd \in FDs |-> FALSE]

-----------------------------------------------------------------------------
(* The ready list.                                                         *)

\* Mutant: one list, which the running loop goes on to.
AddToRunningList(fd, fields) ==
  /\ node' = [node EXCEPT ![fd] = [fields EXCEPT !.listed = TRUE]]
  /\ IF fields.listed
     THEN UNCHANGED listVars
     ELSE /\ IF phase = "calling"
             THEN tmp_list_' = <<fd>> \o tmp_list_ /\ UNCHANGED ready_list_
             ELSE ready_list_' = <<fd>> \o ready_list_ /\ UNCHANGED tmp_list_
          /\ ready_list_size_' = ready_list_size_ + 1

\* LIST_INSERT_HEAD unless the node is listed; fields: the node otherwise.
AddToReadyList(fd, fields) ==
  /\ node' = [node EXCEPT ![fd] = [fields EXCEPT !.listed = TRUE]]
  /\ IF fields.listed
     THEN UNCHANGED listVars
     ELSE /\ ready_list_' = <<fd>> \o ready_list_
          /\ ready_list_size_' = ready_list_size_ + 1
          /\ UNCHANGED tmp_list_

EraseFD(list, fd) ==
  LET n == CHOOSE k \in DOMAIN list : list[k] = fd IN
  IF fd \in Range(list)
  THEN SubSeq(list, 1, n - 1) \o SubSeq(list, n + 1, Len(list))
  ELSE list

\* Mutant: the size is counted down for a node that is not listed.
RemoveCountsAlways(fd) ==
  /\ ready_list_' = EraseFD(ready_list_, fd)
  /\ tmp_list_' = EraseFD(tmp_list_, fd)
  /\ ready_list_size_' = ready_list_size_ - 1

\* LIST_REMOVE takes the node out of whichever list it is in.
RemoveFromReadyList(fd) ==
  IF node[fd].listed
  THEN /\ ready_list_' = EraseFD(ready_list_, fd)
       /\ tmp_list_' = EraseFD(tmp_list_, fd)
       /\ ready_list_size_' = ready_list_size_ - 1
  ELSE UNCHANGED listVars

-----------------------------------------------------------------------------
(* epoll_ctl: ADD of a descriptor that is watched, and MOD or DEL of one    *)
(* that is not, fail and end the program (see InterestAgrees).             *)

\* Errors are reported whatever the mask is.
Watched(mask) == mask \cup ErrorEvents

AddFD(fd, mask) == epoll' = [epoll EXCEPT ![fd] = Watched(mask)]
ModFD(fd, mask) == epoll' = [epoll EXCEPT ![fd] = Watched(mask)]
DelFD(fd) == epoll' = [epoll EXCEPT ![fd] = Unwatched]

-----------------------------------------------------------------------------
(* What code outside the loop, or in OnEvent, may call.                    *)

UserCode == phase = "idle" \/ running # NoFD

\* Mutant: a new mask is not passed on to epoll_ctl.
RegisterWithoutMod(fd, cb, mask) ==
  /\ UserCode
  /\ \/ /\ fd \notin cb_map_
        /\ cb_map_' = cb_map_ \cup {fd}
        /\ node' = [node EXCEPT ![fd] = NewNode(cb, mask)]
        /\ epoll' = [epoll EXCEPT ![fd] = Watched(mask)]
        /\ UNCHANGED listVars
     \/ /\ fd \in cb_map_
        /\ node' = [node EXCEPT ![fd].cb = cb, ![fd].event_mask = mask,
                                ![fd].events_to_fake = {},
                                ![fd].listed = @ /\ ~Registered(fd)]
        /\ IF Registered(fd) THEN RemoveFromReadyList(fd)
                             ELSE UNCHANGED listVars
        /\ UNCHANGED <<cb_map_, epoll>>
  /\ UNCHANGED <<loopVars, stale>>

RegisterFD(fd, cb, mask) ==
  /\ UserCode
  /\ \/ /\ fd \notin cb_map_
        /\ cb_map_' = cb_map_ \cup {fd}
        /\ node' = [node EXCEPT ![fd] = NewNode(cb, mask)]
        /\ stale' = [stale EXCEPT ![fd] = FALSE]
        /\ AddFD(fd, mask)
        /\ UNCHANGED listVars
     \/ /\ fd \in cb_map_
        /\ node' = [node EXCEPT ![fd].cb = cb, ![fd].event_mask = mask,
                                ![fd].events_to_fake = {},
                                ![fd].listed = @ /\ ~Registered(fd)]
        /\ stale' = [stale EXCEPT ![fd] = node[fd].events_asserted # {}]
        /\ IF Registered(fd)
           THEN RemoveFromReadyList(fd) /\ ModFD(fd, mask)
           ELSE AddFD(fd, mask) /\ UNCHANGED listVars
        /\ UNCHANGED cb_map_
  /\ UNCHANGED loopVars

\* Mutant: the node stays on the list.
UnregisterKeepsListed(fd) ==
  /\ UserCode
  /\ Registered(fd)
  /\ DelFD(fd)
  /\ IF node[fd].in_use
     THEN /\ node' = [node EXCEPT ![fd].cb = NoCallback,
                                  ![fd].event_mask = {},
                                  ![fd].events_to_fake = {}]
          /\ UNCHANGED cb_map_
     ELSE /\ cb_map_' = cb_map_ \ {fd}
          /\ node' = [node EXCEPT ![fd] = NewNode(NoCallback, {})]
  /\ UNCHANGED <<listVars, loopVars, stale>>

\* Mutant: in_use is not consulted.
UnregisterErases(fd) ==
  /\ UserCode
  /\ Registered(fd)
  /\ RemoveFromReadyList(fd)
  /\ DelFD(fd)
  /\ cb_map_' = cb_map_ \ {fd}
  /\ node' = [node EXCEPT ![fd] = NewNode(NoCallback, {})]
  /\ UNCHANGED <<loopVars, stale>>

UnregisterFD(fd) ==
  /\ UserCode
  /\ Registered(fd)
  /\ RemoveFromReadyList(fd)
  /\ DelFD(fd)
  /\ IF node[fd].in_use
     THEN /\ node' = [node EXCEPT ![fd].cb = NoCallback,
                                  ![fd].event_mask = {},
                                  ![fd].events_to_fake = {},
                                  ![fd].listed = FALSE]
          /\ UNCHANGED cb_map_
     ELSE /\ cb_map_' = cb_map_ \ {fd}
          /\ node' = [node EXCEPT ![fd] = NewNode(NoCallback, {})]
  /\ UNCHANGED <<loopVars, stale>>

\* What ModifyCallback, StopRead, StopWrite, StartRead and StartWrite remove
\* from a mask and add to it.
Modifications ==
  {<<Events, mask>> : mask \in Masks}
    \cup {<<{e}, {}>> : e \in Events} \cup {<<{}, {e}>> : e \in Events}

ModifyFD(fd, remove, add) ==
  LET mask == (node[fd].event_mask \ remove) \cup add IN
  /\ UserCode
  /\ Registered(fd)
  /\ node' = [node EXCEPT ![fd].event_mask = mask]
  /\ ModFD(fd, mask)
  /\ UNCHANGED <<cb_map_, listVars, loopVars, stale>>

SetFDReady(fd, mask) ==
  /\ UserCode
  /\ Registered(fd)
  /\ AddToReadyList(fd, [node[fd] EXCEPT !.events_to_fake = mask])
  /\ UNCHANGED <<cb_map_, epoll, loopVars, stale>>

SetFDNotReady(fd) ==
  /\ UserCode
  /\ fd \in cb_map_
  /\ RemoveFromReadyList(fd)
  /\ node' = [node EXCEPT ![fd].listed = FALSE]
  /\ UNCHANGED <<cb_map_, epoll, loopVars, stale>>

-----------------------------------------------------------------------------
(* WaitForEventsAndCallHandleEvents.                                       *)

EpollWait ==
  /\ phase = "idle"
  /\ phase' = "waited"
  /\ UNCHANGED <<cb_map_, node, listVars, epoll, running, stale>>

\* One of the events that epoll_wait returned, or one that code outside the
\* loop or a callback fakes; those that name no registration are ignored.  A
\* new one replaces what was asserted.
HandleEvent(fd, mask) ==
  /\ Registered(fd)
  /\ \/ phase = "waited" /\ mask # {} /\ mask \subseteq epoll[fd]
     \/ UserCode
  /\ AddToReadyList(fd, [node[fd] EXCEPT !.events_asserted = mask])
  /\ stale' = [stale EXCEPT ![fd] = FALSE]
  /\ UNCHANGED <<cb_map_, epoll, loopVars>>

\* CallReadyListCallbacks swaps the lists, so that what becomes ready during
\* the loop waits for the next round.
CallReadyListCallbacks ==
  /\ phase = "waited"
  /\ phase' = "calling"
  /\ ready_list_' = tmp_list_ /\ tmp_list_' = ready_list_
  /\ UNCHANGED <<cb_map_, node, ready_list_size_, epoll, running,
                 stale>>

CallOnEvent ==
  LET fd == Head(tmp_list_) IN
  /\ phase = "calling" /\ running = NoFD
  /\ tmp_list_ # <<>>
  /\ RemoveFromReadyList(fd)
  /\ node' = [node EXCEPT ![fd].events_asserted = {},
                          ![fd].events_to_fake = {},
                          ![fd].in_use = TRUE, ![fd].listed = FALSE]
  /\ running' = fd
  /\ UNCHANGED <<cb_map_, epoll, phase, stale>>

\* OnEvent returns with out_ready_mask.
OnEventReturns(out_ready_mask) ==
  LET fields == [node[running] EXCEPT !.in_use = FALSE] IN
  /\ running # NoFD
  /\ \/ /\ fields.cb = NoCallback
        /\ cb_map_' = cb_map_ \ {running}
        /\ node' = [node EXCEPT ![running] = NewNode(NoCallback, {})]
        /\ UNCHANGED listVars
     \/ /\ fields.cb # NoCallback /\ out_ready_mask # {}
        /\ AddToReadyList(running,
                          [fields EXCEPT !.events_to_fake = out_ready_mask])
        /\ UNCHANGED cb_map_
     \/ /\ fields.cb # NoCallback /\ out_ready_mask = {}
        /\ node' = [node EXCEPT ![running] = fields]
        /\ UNCHANGED <<cb_map_, listVars>>
  /\ running' = NoFD
  /\ UNCHANGED <<epoll, phase, stale>>

\* Mutant: the loop stops before the list is empty.
EndRoundEarly ==
  /\ phase = "calling" /\ running = NoFD
  /\ phase' = "idle"
  /\ UNCHANGED <<cb_map_, node, listVars, epoll, running, stale>>

EndRound ==
  /\ phase = "calling" /\ running = NoFD
  /\ tmp_list_ = <<>>
  /\ phase' = "idle"
  /\ UNCHANGED <<cb_map_, node, listVars, epoll, running, stale>>

\* ~EpollServer: the nodes are erased, then the lists are emptied.
Destroy ==
  /\ phase = "idle"
  /\ phase' = "destroyed"
  /\ cb_map_' = {}
  /\ node' = [fd \in FDs |-> NewNode(NoCallback, {})]
  /\ ready_list_' = <<>> /\ tmp_list_' = <<>>
  /\ UNCHANGED <<ready_list_size_, epoll, running, stale>>

Next ==
  \/ \E fd \in FDs :
       \/ \E cb \in Callbacks, mask \in Masks : RegisterFD(fd, cb, mask)
       \/ UnregisterFD(fd)
       \/ \E m \in Modifications : ModifyFD(fd, m[1], m[2])
       \/ SetFDNotReady(fd)
       \/ \E mask \in Masks : SetFDReady(fd, mask)
       \/ \E mask \in Reports : HandleEvent(fd, mask)
  \/ EpollWait \/ CallReadyListCallbacks \/ CallOnEvent
  \/ \E mask \in Masks : OnEventReturns(mask)
  \/ EndRound \/ Destroy

Spec == Init /\ [][Next]_vars

\* Callbacks return, and the loop goes on to its end.
Fairness ==
  /\ WF_vars(EpollWait) /\ WF_vars(CallReadyListCallbacks)
  /\ WF_vars(CallOnEvent) /\ WF_vars(EndRound)
  /\ WF_vars(\E mask \in Masks : OnEventReturns(mask))

FairSpec == Spec /\ Fairness

-----------------------------------------------------------------------------
(* Properties.                                                             *)

TypeOK ==
  /\ cb_map_ \in SUBSET FDs
  /\ node \in [FDs -> CBAndEventMask]
  /\ ready_list_ \in Seq(FDs) /\ tmp_list_ \in Seq(FDs)
  /\ ready_list_size_ \in Nat
  /\ epoll \in [FDs -> Reports \cup {Unwatched}]
  /\ phase \in {"idle", "waited", "calling", "destroyed"}
  /\ running \in FDs \cup {NoFD}
  /\ stale \in [FDs -> BOOLEAN]

Listed == ready_list_ \o tmp_list_

\* The two lists together hold each node whose le_prev is set, once, and
\* nothing else, and ready_list_size_ counts them: the CHECK of
\* VerifyReadyList and the DCHECKs of the loop.  None of them is freed or
\* without a callback, also when callbacks unregister, replace and withdraw
\* each other's descriptors while the loop is between them: what
\* CallReadyListCallbacks dereferences exists.
ReadyListAgrees ==
  phase # "destroyed" =>
    /\ \A j, k \in DOMAIN Listed : Listed[j] = Listed[k] => j = k
    /\ Range(Listed) = {fd \in FDs : node[fd].listed}
    /\ ready_list_size_ = Len(Listed)
    /\ phase # "calling" => tmp_list_ = <<>>
    /\ \A k \in DOMAIN Listed : Registered(Listed[k])

\* The node whose OnEvent is on the stack outlives the call, whatever the
\* callback unregisters and registers again, and no other is marked in use.
RunningNodeSurvives ==
  \A fd \in FDs : fd = running <=> fd \in cb_map_ /\ node[fd].in_use

\* The kernel watches exactly the registered descriptors, with their masks and
\* for errors, so that EPOLL_CTL_ADD, MOD and DEL, whose failure is fatal, never fail; and a
\* node without a callback exists only until its OnEvent returns.
InterestAgrees ==
  phase # "destroyed" =>
    \A fd \in FDs :
      /\ epoll[fd] = IF Registered(fd) THEN Watched(node[fd].event_mask)
                                       ELSE Unwatched
      /\ fd \in cb_map_ /\ ~Registered(fd) => fd = running

\* A round ends although callbacks keep putting descriptors on the ready list:
\* they go to the list of the next round.
RoundEnds == phase = "calling" ~> phase = "idle"

\* A descriptor on the ready list is served or leaves the list: none is passed
\* over for ever.
ReadyIsServed == \A fd \in FDs : node[fd].listed ~> ~node[fd].listed

\* A callback is given only events that occurred, or were faked, since it was
\* registered for the descriptor.
OnlyOwnEvents ==
  [][\A fd \in FDs : running = NoFD /\ running' = fd /\ stale[fd] =>
       node[fd].events_asserted \subseteq node[fd].events_to_fake]_vars

=============================================================================
