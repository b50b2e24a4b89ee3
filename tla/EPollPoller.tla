----------------------------- MODULE EPollPoller -----------------------------
(***************************************************************************)
(* A Channel and what the EPollPoller of its loop does with it             *)
(* (src/src/net/Channel.h, src/src/net/EPollPoller.cc), as operators from  *)
(* a channel to a channel.  All of them run in the loop's thread.          *)
(*                                                                         *)
(* A channel is a record: events (events_, what the owner wants), index    *)
(* (index_, the poller's bookkeeping), mapped (the channel is in the map   *)
(* channels_), added and interest (the kernel's epoll set: whether the fd  *)
(* is in it, and for which events).                                        *)
(***************************************************************************)

Event == {"read", "write"}

Index == {"kNew", "kAdded", "kDeleted"}

Channel == [events : SUBSET Event, index : Index, mapped : BOOLEAN,
            added : BOOLEAN, interest : SUBSET Event]

NewChannel == [events |-> {}, index |-> "kNew", mapped |-> FALSE,
               added |-> FALSE, interest |-> {}]

isNoneEvent(ch) == ch.events = {}

isWriting(ch) == "write" \in ch.events

-----------------------------------------------------------------------------
(* EPollPoller::update: epoll_ctl *)

Ctl(ch) == [ch EXCEPT !.added = TRUE, !.interest = ch.events]

CtlDel(ch) == [ch EXCEPT !.added = FALSE, !.interest = {}]

\* A bug to tell apart: a channel taken out of the epoll set is not marked
UpdateForgetsIndex(ch) ==
    IF ch.index # "kAdded"
    THEN Ctl([ch EXCEPT !.index = "kAdded", !.mapped = TRUE])
    ELSE IF isNoneEvent(ch) THEN CtlDel(ch) ELSE Ctl(ch)

\* EPollPoller::updateChannel.  A channel that is kNew or kDeleted is added even
\* when it wants no event.
updateChannel(ch) ==
    IF ch.index # "kAdded"
    THEN Ctl([ch EXCEPT !.index = "kAdded",
                        !.mapped = IF ch.index = "kNew" THEN TRUE ELSE @])
    ELSE IF isNoneEvent(ch)
         THEN [CtlDel(ch) EXCEPT !.index = "kDeleted"]
         ELSE Ctl(ch)

\* A bug to tell apart: the map forgets the channel and epoll does not
RemoveFromMapOnly(ch) == [ch EXCEPT !.mapped = FALSE, !.index = "kNew"]

\* EPollPoller::removeChannel
removeChannel(ch) ==
    LET unmapped == [ch EXCEPT !.mapped = FALSE]
    IN  [(IF ch.index = "kAdded" THEN CtlDel(unmapped) ELSE unmapped) EXCEPT !.index = "kNew"]

-----------------------------------------------------------------------------
(* Channel::enableReading and its siblings, each with its update() *)

enableReading(ch) == updateChannel([ch EXCEPT !.events = @ \cup {"read"}])

enableWriting(ch) == updateChannel([ch EXCEPT !.events = @ \cup {"write"}])

disableWriting(ch) == updateChannel([ch EXCEPT !.events = @ \ {"write"}])

disableAll(ch) == updateChannel([ch EXCEPT !.events = {}])

-----------------------------------------------------------------------------
\* The poller's books agree with the kernel's epoll set: index_ is kAdded exactly
\* for a registered fd, registered for exactly the events the owner wants, and
\* a registered or parked channel is in the map.
BooksAgree(ch) ==
    /\ ch.added <=> ch.index = "kAdded"
    /\ ch.added => ch.interest = ch.events
    /\ ch.mapped <=> ch.index # "kNew"
=============================================================================
