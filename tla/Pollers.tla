------------------------------- MODULE Pollers -------------------------------
(***************************************************************************)
(* The two pollers of an event loop, for the channels of one loop. A        *)
(* channel is its fd; when it is removed, another one may come with the     *)
(* same fd. First the poller on epoll.                                      *)
(***************************************************************************)
EXTENDS Integers, SequencesExt

CONSTANTS Channel,  \* fds
          Event     \* what a channel asks for: POLLIN (with POLLPRI), POLLOUT

VARIABLES events,     \* Channel::events_
          index,      \* Channel::index_
          channels,   \* channels_
          kernel,     \* the fds in the epoll set, with their events
          activeChannels      \* activeChannels_

epollVars == <<events, index, channels, kernel, activeChannels>>

kNew == -1
kAdded == 1
kDeleted == 2

Add(c, ev) == [d \in DOMAIN kernel \cup {c} |-> IF d = c THEN ev ELSE kernel[d]]
Del(c) == [d \in DOMAIN kernel \ {c} |-> kernel[d]]

\* The faulty update that only marks the channel.
MarkOnly(c) == kernel

\* epoll_ctl with EPOLL_CTL_DEL, for a channel without interest.
Ignore(c) == Del(c)

\* updateChannel after enableReading, enableWriting, disableAll and so on; a channel that
\* is ignored and asks for nothing again is watched, for hang-ups.
UpdateChannel(c, ev) ==
    /\ events' = [events EXCEPT ![c] = ev]
    /\ \/ /\ index[c] # kAdded
          /\ kernel' = Add(c, ev)
          /\ index' = [index EXCEPT ![c] = kAdded]
       \/ /\ index[c] = kAdded /\ ev = {}
          /\ kernel' = Ignore(c)
          /\ index' = [index EXCEPT ![c] = kDeleted]
       \/ /\ index[c] = kAdded /\ ev # {}
          /\ kernel' = Add(c, ev)
          /\ UNCHANGED index
    /\ channels' = channels \cup {c}
    /\ UNCHANGED activeChannels

\* removeChannel; no other channel of the batch is removed from a handler.
RemoveChannel(c) ==
    /\ c \in channels /\ events[c] = {}
    /\ channels' = channels \ {c}
    /\ kernel' = IF index[c] = kAdded THEN Del(c) ELSE kernel
    /\ index' = [index EXCEPT ![c] = kNew]
    /\ activeChannels' = activeChannels \ {c} /\ UNCHANGED events

\* The faulty poll that also gives what was ready last time.
FillOnTop(ready) == activeChannels \cup ready

\* fillActiveChannels
Fill(ready) == ready

\* poll; a hang-up or an error is reported whatever the events are.
EPoll(ready) ==
    /\ ready \subseteq DOMAIN kernel
    /\ activeChannels' = Fill(ready)
    /\ UNCHANGED <<events, index, channels, kernel>>

EPollInit ==
    /\ events = [c \in Channel |-> {}] /\ index = [c \in Channel |-> kNew]
    /\ channels = {} /\ kernel = [c \in {} |-> {}] /\ activeChannels = {}

EPollNext ==
    \/ \E c \in Channel : \/ \E ev \in SUBSET Event : UpdateChannel(c, ev)
                          \/ RemoveChannel(c)
    \/ \E ready \in SUBSET Channel : EPoll(ready)

EPollSpec == EPollInit /\ [][EPollNext]_epollVars

-----------------------------------------------------------------------------
(* Correctness.                                                             *)

EPollTypeOK ==
    /\ events \in [Channel -> SUBSET Event] /\ index \in [Channel -> {kNew, kAdded, kDeleted}]
    /\ DOMAIN kernel = {c \in channels : index[c] = kAdded}

Watched(c) == IF c \in DOMAIN kernel THEN kernel[c] ELSE {}
EPollInterest == INSTANCE Interest WITH
    watched <- [c \in Channel |-> Watched(c)],
    idle <- {c \in DOMAIN kernel : kernel[c] = {}},
    given <- activeChannels

\* The epoll set follows the channels through the three values of their index, and
\* what poll gives are channels that asked.
EPollGivesInterest == EPollInterest!InterestSpec

-----------------------------------------------------------------------------
(***************************************************************************)
(* Poller on poll(2). The index of a channel is its place in pollfds_; the  *)
(* fd of one that asks for nothing is stored as -fd-1, which poll ignores.  *)
(***************************************************************************)
VARIABLES pollEvents,   \* Channel::events_
          pollIndex,    \* Channel::index_, from 1; 0 for a new channel
          pollfds,      \* pollfds_: [fd, events, ignored]
          pollActive    \* activeChannels_

pollVars == <<pollEvents, pollIndex, pollfds, pollActive>>

NewChannel == 0
\* The faulty pollfd that is never ignored.
PollFdStays(c, ev) == [fd |-> c, events |-> ev, ignored |-> FALSE]

\* A pollfd; that of a channel without interest is ignored.
PollFd(c, ev) == [fd |-> c, events |-> ev, ignored |-> ev = {}]

\* updateChannel: a new channel is never ignored, even if it asks for nothing.
PollUpdate(c, ev) ==
    /\ pollEvents' = [pollEvents EXCEPT ![c] = ev]
    /\ \/ /\ pollIndex[c] = NewChannel
          /\ pollfds' = Append(pollfds, [PollFd(c, ev) EXCEPT !.ignored = FALSE])
          /\ pollIndex' = [pollIndex EXCEPT ![c] = Len(pollfds) + 1]
       \/ /\ pollIndex[c] # NewChannel
          /\ pollfds' = [pollfds EXCEPT ![pollIndex[c]] = PollFd(c, ev)]
          /\ UNCHANGED pollIndex
    /\ UNCHANGED pollActive

\* The faulty removal that leaves the index of the channel at the end.
LeaveIndex(c, last) == pollIndex

\* set_index for the channel that takes the place of the removed one; the index of
\* that one keeps its value, but its Channel is destroyed.
MoveIndex(c, last) == [pollIndex EXCEPT ![last] = pollIndex[c]]

\* removeChannel: the last pollfd is moved to the place of the removed one.
PollRemove(c) ==
    /\ pollIndex[c] # NewChannel /\ pollEvents[c] = {}
    /\ LET last == Last(pollfds) IN
       /\ pollfds' = Front([pollfds EXCEPT ![pollIndex[c]] = last])
       /\ pollIndex' = [MoveIndex(c, last.fd) EXCEPT ![c] = NewChannel]
    /\ pollActive' = pollActive \ {c} /\ UNCHANGED pollEvents

\* poll and fillActiveChannels.
PollPoll(ready) ==
    /\ \A c \in ready : \E i \in DOMAIN pollfds : pollfds[i].fd = c /\ ~ pollfds[i].ignored
    /\ pollActive' = ready
    /\ UNCHANGED <<pollEvents, pollIndex, pollfds>>

PollInit ==
    /\ pollEvents = [c \in Channel |-> {}] /\ pollIndex = [c \in Channel |-> NewChannel]
    /\ pollfds = <<>> /\ pollActive = {}

PollNext ==
    \/ \E c \in Channel : PollRemove(c) \/ \E ev \in SUBSET Event : PollUpdate(c, ev)
    \/ \E ready \in SUBSET Channel : PollPoll(ready)

PollSpec == PollInit /\ [][PollNext]_pollVars

-----------------------------------------------------------------------------
(* Correctness.                                                             *)

\* Each known channel has the pollfd that its index says, and no other: the
\* assertions of updateChannel and removeChannel.
PollTypeOK ==
    /\ Len(pollfds) = Cardinality({c \in Channel : pollIndex[c] # NewChannel})
    /\ \A c \in Channel : pollIndex[c] # NewChannel =>
          /\ pollIndex[c] \in DOMAIN pollfds /\ pollfds[pollIndex[c]].fd = c
          /\ pollfds[pollIndex[c]].events = pollEvents[c]

Listened == {i \in DOMAIN pollfds : ~ pollfds[i].ignored}
PollInterest == INSTANCE Interest WITH
    watched <- [c \in Channel |-> UNION {pollfds[i].events : i \in {j \in Listened : pollfds[j].fd = c}}],
    idle <- {pollfds[i].fd : i \in {j \in Listened : pollfds[j].events = {}}},
    given <- pollActive

\* Whatever channels are added, ignored and removed in whatever order, poll is
\* asked about what each channel asked for last.
PollGivesInterest == PollInterest!InterestSpec
=============================================================================
