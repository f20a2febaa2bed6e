-------------------------- MODULE ConnectionsProofs -------------------------
(***************************************************************************)
(* Proofs about Connections, for any set of connections and of descriptor  *)
(* numbers, any limit and any point at which the poller is changed.        *)
(***************************************************************************)
EXTENDS Connections, FiniteSetTheorems, TLAPS

Els(s) == {s[i] : i \in 1..Len(s)}

(* What a connection may have at each place of its life.                   *)
LifeInv ==
    \A c \in Conns :
        /\ st[c] = "free" => c \notin open /\ c \notin misread
        /\ st[c] \in {"free", "new"} => \A d \in Dirs : <<c, d>> \notin events
        /\ <<c, "read">> \in events => st[c] \in {"parked", "ready", "failed"}

(* A number is open for one connection.                                    *)
OpenOnce == \A c, d \in open : num[c] = num[d] => c = d

LEMMA ScheduleType ==
    ASSUME TypeOK, NEW c \in Conns, NEW d \in Dirs
    PROVE  /\ events \cup {<<c, d>>} \subseteq Conns \X Dirs
           /\ events \ {<<c, d>>} \subseteq Conns \X Dirs
           /\ num[c] \in Fds
  BY DEF TypeOK

LEMMA RelistType ==
    ASSUME TypeOK, NEW fd \in Fds, NEW ev \in SUBSET (Conns \X Dirs),
           Relist(ev, fd, open)
    PROVE  /\ events' \subseteq Conns \X Dirs
           /\ interest' \in [Fds -> SUBSET Dirs]
           /\ stale' \subseteq Fds
  <1>1. Flags(ev, fd) \subseteq Dirs
    BY DEF Flags
  <1> QED
    BY <1>1 DEF Relist, TypeOK

LEMMA ListType ==
    ASSUME NEW s \in Seq(Conns), NEW c \in Conns
    PROVE  /\ Unlink(s, c) \in Seq(Conns)
           /\ PushBack(s, c) \in Seq(Conns)
           /\ Els(s) \ {c} \subseteq Els(Unlink(s, c))
           /\ Els(s) \subseteq Els(PushBack(s, c))
           /\ c \in Els(PushBack(s, c))
  <1>1. Unlink(s, c) \in Seq(Conns) /\ Els(s) \ {c} \subseteq Els(Unlink(s, c))
    <2>1. CASE \E i \in 1..Len(s) : s[i] = c
      <3> DEFINE k == CHOOSE i \in 1..Len(s) : s[i] = c
                 t == [i \in 1..(Len(s) - 1) |-> IF i < k THEN s[i] ELSE s[i + 1]]
      <3>1. k \in 1..Len(s) /\ s[k] = c
        BY <2>1
      <3>2. Unlink(s, c) = t
        BY <2>1 DEF Unlink
      <3> HIDE DEF k
      <3>3. Len(s) - 1 \in Nat
        BY <3>1
      <3>4. t \in Seq(Conns) /\ Len(t) = Len(s) - 1
        <4>1. \A i \in 1..(Len(s) - 1) : (IF i < k THEN s[i] ELSE s[i + 1]) \in Conns
          BY <3>1
        <4> QED
          BY <3>3, <4>1
      <3>5. ASSUME NEW x \in Els(s) \ {c} PROVE x \in Els(t)
        <4>1. PICK i \in 1..Len(s) : x = s[i]
          BY <3>5 DEF Els
        <4>2. CASE i < k
          <5>1. i \in 1..(Len(s) - 1) /\ t[i] = x
            BY <4>1, <4>2, <3>1
          <5> HIDE DEF t
          <5> QED
            BY <5>1, <3>4 DEF Els
        <4>3. CASE i > k
          <5>1. i - 1 \in 1..(Len(s) - 1) /\ t[i - 1] = x
            BY <4>1, <4>3, <3>1
          <5> HIDE DEF t
          <5> QED
            BY <5>1, <3>4 DEF Els
        <4> QED
          BY <4>1, <4>2, <4>3, <3>1, <3>5
      <3> QED
        BY <3>2, <3>4, <3>5
    <2>2. CASE ~\E i \in 1..Len(s) : s[i] = c
      BY <2>2 DEF Unlink
    <2> QED
      BY <2>1, <2>2
  <1> DEFINE u == Unlink(s, c)
             t == Append(u, c)
  <1> HIDE DEF u
  <1>2. u \in Seq(Conns) /\ Els(s) \ {c} \subseteq Els(u)
    BY <1>1 DEF u
  <1>3. /\ t \in Seq(Conns) /\ Len(t) = Len(u) + 1 /\ Len(u) \in Nat
        /\ \A i \in 1..Len(u) : t[i] = u[i]
        /\ t[Len(u) + 1] = c
    BY <1>2
  <1> HIDE DEF t
  <1>4. c \in Els(t)
    <2>1. Len(u) + 1 \in 1..Len(t)
      BY <1>3
    <2> QED
      BY <2>1, <1>3 DEF Els
  <1>5. ASSUME NEW x \in Els(u) PROVE x \in Els(t)
    <2>1. PICK i \in 1..Len(u) : x = u[i]
      BY <1>5 DEF Els
    <2>2. i \in 1..Len(t) /\ x = t[i]
      BY <2>1, <1>3
    <2> QED
      BY <2>2 DEF Els
  <1>6. PushBack(s, c) = t
    BY DEF PushBack, t, u
  <1> QED
    BY <1>1, <1>2, <1>3, <1>4, <1>5, <1>6

LEMMA SeqCardinality ==
    ASSUME NEW s \in Seq(Conns)
    PROVE  Cardinality(Els(s)) <= Len(s) /\ IsFiniteSet(Els(s))
  <1>1. s \in Surjection(1..Len(s), Els(s))
    BY DEF Surjection, Els
  <1>2. Len(s) \in Nat /\ ExistsSurjection(1..Len(s), Els(s))
    BY <1>1 DEF ExistsSurjection
  <1>3. Els(s) \subseteq Conns
    BY DEF Els
  <1> QED
    BY <1>2, <1>3, FS_SurjCardinalityBound, FS_Subset, FiniteAssumption

-----------------------------------------------------------------------------
(* What a report may be, as one case.                                      *)
LEMMA ReportCases ==
    ASSUME NEW fd \in Fds, PollReports(fd)
    PROVE  \E dirs \in SUBSET Dirs, err \in BOOLEAN : Report(fd, dirs, err)
  <1>1. CASE \E dirs \in SUBSET interest[fd] : dirs # {} /\ Report(fd, dirs, FALSE)
    <2>1. PICK dirs \in SUBSET interest[fd] : Report(fd, dirs, FALSE)
      BY <1>1, Zenon
    <2>2. Report(fd, dirs \cap Dirs, FALSE)
      BY <2>1, ZenonT(60) DEF Report, Dirs
    <2> QED
      BY <2>2, Zenon
  <1>2. CASE Report(fd, Dirs, TRUE)
    BY <1>2, ZenonT(60)
  <1> QED
    BY <1>1, <1>2, Zenon DEF PollReports

(* Every variable keeps to its type.                                       *)
LEMMA TypeStep ==
    ASSUME TypeOK, [Next]_vars
    PROVE  TypeOK'
  <1> USE DEF TypeOK
  <1>1. ASSUME NEW c \in Conns, NEW fd \in Fds, OnAcceptFull(c, fd) PROVE TypeOK'
    <2>1. list' \in Seq(Conns)
      BY <1>1, LimitAssumption DEF OnAcceptFull, Excess
    <2>2. interest' \in [Fds -> SUBSET Dirs]
      BY <1>1 DEF OnAcceptFull, Forgotten
    <2>3. stale' \subseteq Fds
      BY <1>1 DEF OnAcceptFull, LeftBehind
    <2>4. canceled' \in BOOLEAN
      BY <1>1 DEF OnAcceptFull
    <2> QED
      BY <1>1, <2>1, <2>2, <2>3, <2>4, Zenon DEF OnAcceptFull, logVars
  <1>2. ASSUME NEW c \in Conns, Start(c) PROVE TypeOK'
    BY <1>2 DEF Start, ioVars, logVars
  <1>3. ASSUME NEW c \in Conns, Send(c) PROVE TypeOK'
    <2>1. events' \subseteq Conns \X Dirs /\ interest' \in [Fds -> SUBSET Dirs] /\ stale' \subseteq Fds
      BY <1>3, RelistType, ScheduleType DEF Send, Dirs
    <2>2. list' \in Seq(Conns)
      BY <1>3, ListType, SMTT(60) DEF Send
    <2> QED
      BY <1>3, <2>1, <2>2 DEF Send, logVars
  <1>4. ASSUME NEW c \in Conns, Park(c) PROVE TypeOK'
    <2>1. events' \subseteq Conns \X Dirs /\ interest' \in [Fds -> SUBSET Dirs] /\ stale' \subseteq Fds
      BY <1>4, RelistType, ScheduleType DEF Park, Dirs
    <2> QED
      BY <1>4, <2>1, SMTT(60) DEF Park, logVars
  <1>5. ASSUME NEW c \in Conns, ResumeError(c) PROVE TypeOK'
    <2>1. events' \subseteq Conns \X Dirs /\ interest' \in [Fds -> SUBSET Dirs] /\ stale' \subseteq Fds
      BY <1>5, RelistType, ScheduleType DEF ResumeError, Dirs
    <2>2. fault' \in BOOLEAN
      BY <1>5 DEF ResumeError, Refused
    <2> QED
      BY <1>5, <2>1, <2>2, SMTT(60) DEF ResumeError, logVars
  <1>6. ASSUME NEW c \in Conns, ResumeRead(c) PROVE TypeOK'
    <2>1. events' \subseteq Conns \X Dirs /\ interest' \in [Fds -> SUBSET Dirs] /\ stale' \subseteq Fds
      BY <1>6, RelistType, ScheduleType, SMTT(60) DEF ResumeRead, Dirs
    <2>2. fault' \in BOOLEAN
      BY <1>6 DEF ResumeRead, Refused
    <2> QED
      BY <1>6, <2>1, <2>2, SMTT(60) DEF ResumeRead
  <1>7. ASSUME NEW c \in Conns, ResumePark(c) PROVE TypeOK'
    <2>1. Flags(events, num[c]) \subseteq Dirs
      BY SMTT(60) DEF Flags
    <2> QED
      BY <1>7, <2>1, SMTT(60) DEF ResumePark, logVars
  <1>8. ASSUME NEW c \in Conns, ConnectionEnds(c) \/ RunThrows(c) PROVE TypeOK'
    <2>1. Close(c)
      BY <1>8 DEF ConnectionEnds, RunThrows
    <2>2. list' \in Seq(Conns)
      BY <2>1, ListType DEF Close
    <2>3. Flags(LeftByOutput(c), num[c]) \subseteq Dirs
      BY DEF Flags
    <2>4. interest' \in [Fds -> SUBSET Dirs]
      BY <2>1, <2>3, SMTT(60) DEF Close
    <2>5. fault' \in BOOLEAN
      BY <2>1, SMTT(60) DEF Close, Refused
    <2>6. events' \subseteq Conns \X Dirs /\ stale' \subseteq Fds
      BY <2>1 DEF Close, LeftByOutput
    <2>7. /\ st' \in [Conns -> {"free", "new", "run", "parked", "ready", "failed"}]
          /\ orphans' \subseteq Conns
      BY <1>8, SMTT(60) DEF ConnectionEnds, RunThrows
    <2> QED
      BY <2>1, <2>2, <2>4, <2>5, <2>6, <2>7, SMTT(60) DEF Close
  <1>9. ASSUME NEW fd \in Fds, PollReports(fd) PROVE TypeOK'
    <2>1. PICK dirs \in SUBSET Dirs, err \in BOOLEAN : Report(fd, dirs, err)
      BY <1>9, ReportCases, SMTT(60)
    <2>2. PICK done \in SUBSET Conns : Relist(events \ (done \X {"write"}), fd, open)
      BY <2>1, ZenonT(60) DEF Report
    <2>3. events' \subseteq Conns \X Dirs /\ interest' \in [Fds -> SUBSET Dirs] /\ stale' \subseteq Fds
      BY <2>2, RelistType
    <2>4. st' \in [Conns -> {"free", "new", "run", "parked", "ready", "failed"}]
      BY <2>1 DEF Report
    <2>5. miswritten' \subseteq Conns
      BY <2>1 DEF Report
    <2> QED
      BY <2>1, <2>3, <2>4, <2>5, SMTT(60) DEF Report
  <1>10. CASE SwitchPoller
    BY <1>10 DEF SwitchPoller, ioVars, logVars
  <1>11. CASE Abort
    BY <1>11 DEF Abort, ioVars, logVars
  <1>12. CASE UNCHANGED vars
    BY <1>12 DEF vars, ioVars, logVars
  <1>13. ASSUME NEW c \in Conns, OrphanRuns(c) PROVE TypeOK'
    BY <1>13 DEF OrphanRuns, ioVars, logVars
  <1> QED
    BY <1>1, <1>2, <1>3, <1>4, <1>5, <1>6, <1>7, <1>8, <1>9, <1>10, <1>11, <1>12, <1>13
       DEF Next

-----------------------------------------------------------------------------
(* Connections and their sockets.                                          *)
OwnInv == LifeInv /\ OpenOnce /\ OwnSocketOnly

LEMMA OwnStep ==
    ASSUME TypeOK, OwnInv, [Next]_vars
    PROVE  OwnInv'
  <1> USE DEF TypeOK, OwnInv
  <1>1. ASSUME NEW c \in Conns, NEW fd \in Fds, OnAcceptFull(c, fd) PROVE OwnInv'
    <2> DEFINE victims == {list[i] : i \in 1 .. Excess}
    <2>1. /\ open' = (open \ victims) \cup {c}
          /\ st[c] = "free" /\ Owned(open, fd) = {}
          /\ st' = [st EXCEPT ![c] = "new"] /\ num' = [num EXCEPT ![c] = fd]
          /\ events' = events /\ misread' = misread /\ miswritten' = miswritten
      BY <1>1 DEF OnAcceptFull, logVars
    <2> HIDE DEF victims
    <2>2. LifeInv'
      BY <2>1, Zenon DEF LifeInv
    <2>3. OpenOnce'
      BY <2>1 DEF OpenOnce, Owned
    <2>4. OwnSocketOnly'
      BY <2>1, Zenon DEF OwnSocketOnly, LifeInv
    <2> QED
      BY <2>2, <2>3, <2>4, SMTT(60)
  <1>2. ASSUME NEW c \in Conns, Start(c) PROVE OwnInv'
    BY <1>2 DEF Start, ioVars, logVars, LifeInv, OpenOnce, OwnSocketOnly
  <1>3. ASSUME NEW c \in Conns, Send(c) PROVE OwnInv'
    BY <1>3, SMTT(60) DEF Send, Lives, Relist, logVars, LifeInv, OpenOnce, OwnSocketOnly
  <1>4. ASSUME NEW c \in Conns, Park(c) PROVE OwnInv'
    BY <1>4 DEF Park, Relist, logVars, LifeInv, OpenOnce, OwnSocketOnly
  <1>5. ASSUME NEW c \in Conns, ResumeError(c) PROVE OwnInv'
    BY <1>5 DEF ResumeError, Relist, logVars, LifeInv, OpenOnce, OwnSocketOnly
  <1>6. ASSUME NEW c \in Conns, ResumeRead(c) PROVE OwnInv'
    <2>1. /\ st[c] = "ready" /\ st' = [st EXCEPT ![c] = "run"]
          /\ events' = events \ {<<c, "read">>}
          /\ misread' = IF Owned(open, num[c]) \ {c} # {} THEN misread \cup {c} ELSE misread
          /\ UNCHANGED <<num, open, miswritten>>
      BY <1>6 DEF ResumeRead, Relist
    <2>2. LifeInv'
      BY <2>1, Zenon DEF LifeInv
    <2>3. c \in open => Owned(open, num[c]) \ {c} = {}
      BY DEF OpenOnce, Owned
    <2>4. OwnSocketOnly'
      BY <2>1, <2>3, SMTT(60) DEF OwnSocketOnly
    <2> QED
      BY <2>1, <2>2, <2>4 DEF OpenOnce
  <1>7. ASSUME NEW c \in Conns, ResumePark(c) PROVE OwnInv'
    BY <1>7 DEF ResumePark, logVars, LifeInv, OpenOnce, OwnSocketOnly
  <1>8. ASSUME NEW c \in Conns, ConnectionEnds(c) \/ RunThrows(c) PROVE OwnInv'
    <2>1. /\ events' = events \ {<<c, "write">>}
          /\ open' = open \ {c} /\ misread' = misread \ {c}
          /\ UNCHANGED <<num, miswritten>>
      BY <1>8, SMTT(60) DEF ConnectionEnds, RunThrows, Close, LeftByOutput
    <2>2. \/ /\ st[c] = "run" \/ (st[c] = "new" /\ c \notin open)
             /\ st' = [st EXCEPT ![c] = "free"] /\ orphans' = orphans
          \/ st[c] \notin {"free", "new"} /\ st' = st /\ orphans' = orphans \cup {c}
      BY <1>8 DEF ConnectionEnds, RunThrows, Lives
    <2>3. ASSUME NEW b \in Conns, b # c
          PROVE  /\ st'[b] = st[b]
                 /\ b \in open' <=> b \in open
                 /\ b \in misread' <=> b \in misread
                 /\ \A d \in Dirs : <<b, d>> \in events' <=> <<b, d>> \in events
      BY <2>1, <2>2, <2>3
    <2>4. c \notin open' /\ c \notin misread' /\ <<c, "write">> \notin events'
      BY <2>1
    <2>5. <<c, "read">> \in events' => <<c, "read">> \in events
      BY <2>1
    <2>6. /\ st'[c] \in {"free", "new"} => st[c] \in {"run", "new"}
          /\ st'[c] # st[c] => st[c] \in {"run", "new"}
      BY <2>2
    <2>7. /\ st'[c] \in {"free", "new"} => <<c, "read">> \notin events'
          /\ <<c, "read">> \in events' => st'[c] \in {"parked", "ready", "failed"}
      BY <2>5, <2>6 DEF LifeInv, Dirs
    <2>8. LifeInv'
      <3> SUFFICES ASSUME NEW b \in Conns
                   PROVE  /\ st'[b] = "free" => b \notin open' /\ b \notin misread'
                          /\ st'[b] \in {"free", "new"} => \A d \in Dirs : <<b, d>> \notin events'
                          /\ <<b, "read">> \in events' => st'[b] \in {"parked", "ready", "failed"}
        BY DEF LifeInv
      <3>1. CASE b = c
        BY <3>1, <2>4, <2>7 DEF Dirs
      <3>2. CASE b # c
        BY <3>2, <2>3 DEF LifeInv, Dirs
      <3> QED
        BY <3>1, <3>2
    <2> QED
      BY <2>1, <2>8, SMTT(60) DEF OpenOnce, OwnSocketOnly
  <1>9. ASSUME NEW fd \in Fds, PollReports(fd) PROVE OwnInv'
    <2>1. PICK dirs \in SUBSET Dirs, err \in BOOLEAN : Report(fd, dirs, err)
      BY <1>9, ReportCases, SMTT(60)
    <2>2. UNCHANGED <<num, open, misread>>
      BY <2>1 DEF Report
    <2>3. \A c \in Conns : Target(c) # {} => Owned(open \ {c}, num[c]) = {}
      BY SMTT(60) DEF OpenOnce, Owned, Target
    <2>4. miswritten' = {}
      <3>1. \A c \in Conns : \A n \in Target(c) : Owned(open \ {c}, n) = {}
        BY <2>3, SMTT(60) DEF Target
      <3> QED
        BY <2>1, <3>1, SMTT(60) DEF Report, OwnSocketOnly
    <2>5. events' \subseteq events
      BY <2>1, SMTT(60) DEF Report, Relist
    <2>6. \A c \in Conns : \/ st'[c] = st[c]
                           \/ <<c, "read">> \in events /\ st'[c] \in {"ready", "failed"}
      BY <2>1, Zenon DEF Report
    <2>7. LifeInv'
      BY <2>2, <2>5, <2>6, ZenonT(60) DEF LifeInv
    <2> QED
      BY <2>2, <2>4, <2>7, SMTT(60) DEF OpenOnce, OwnSocketOnly
  <1>10. CASE SwitchPoller
    BY <1>10, SMTT(60) DEF SwitchPoller, ioVars, logVars, LifeInv, OpenOnce, OwnSocketOnly
  <1>11. CASE Abort
    BY <1>11, SMTT(60) DEF Abort, ioVars, logVars, LifeInv, OpenOnce, OwnSocketOnly
  <1>12. CASE UNCHANGED vars
    BY <1>12 DEF vars, ioVars, logVars, LifeInv, OpenOnce, OwnSocketOnly
  <1>13. ASSUME NEW c \in Conns, OrphanRuns(c) PROVE OwnInv'
    BY <1>13, SMTT(60) DEF OrphanRuns, ioVars, logVars, LifeInv, OpenOnce, OwnSocketOnly
  <1> QED
    BY <1>1, <1>2, <1>3, <1>4, <1>5, <1>6, <1>7, <1>8, <1>9, <1>10, <1>11, <1>12, <1>13
       DEF Next

-----------------------------------------------------------------------------
(* The poller and the lists of TContPoller.                                *)
InSync == \A fd \in Fds : fd \notin stale => interest[fd] = Flags(events, fd)

(* Until a connection is evicted or leaves a worker every connection has   *)
(* its socket.                                                             *)
Stray == canceled \/ orphans # {}
NoStray ==
    ~Stray => /\ stale = {}
              /\ ~fault
              /\ \A c \in Conns : st[c] # "free" => c \in open

LEMMA RelistSync ==
    ASSUME TypeOK, InSync, num' = num,
           NEW fd \in Fds, NEW ev \in SUBSET (Conns \X Dirs), Relist(ev, fd, open),
           \A c \in Conns, d \in Dirs : num[c] # fd => (<<c, d>> \in ev <=> <<c, d>> \in events)
    PROVE  InSync'
  <1> SUFFICES ASSUME NEW g \in Fds, g \notin stale' PROVE interest'[g] = Flags(events, g)'
    BY DEF InSync
  <1>1. Flags(events, g)' = Flags(ev, g)
    BY SMTT(60) DEF Relist, Flags
  <1>2. CASE g # fd
    <2>1. Flags(ev, g) = Flags(events, g)
      BY <1>2, Zenon DEF Flags
    <2> QED
      BY <1>1, <1>2, <2>1 DEF Relist, InSync, TypeOK
  <1>3. CASE g = fd
    <2> HIDE DEF Flags
    <2> QED
      BY <1>1, <1>3 DEF Relist, InSync, TypeOK, Changed
  <1> QED
    BY <1>2, <1>3, SMTT(60)

(* Without a stray epoll never refuses a number: an event of the list is   *)
(* an event of a connection whose socket is open.                          *)
LEMMA NotRefused ==
    ASSUME TypeOK, NoStray, ~Stray, NEW fd \in Fds, NEW ev \in SUBSET (Conns \X Dirs),
           \A c \in Conns, d \in Dirs : <<c, d>> \in ev => st[c] # "free"
    PROVE  ~Refused(ev, fd, open)
  BY ZenonT(60) DEF TypeOK, NoStray, Refused, Flags, Owned

LEMMA RelistNoStray ==
    ASSUME TypeOK, NoStray, ~Stray, NEW fd \in Fds, NEW ev \in SUBSET (Conns \X Dirs),
           \A c \in Conns, d \in Dirs : <<c, d>> \in ev => st[c] # "free",
           Relist(ev, fd, open)
    PROVE  stale' = {}
  BY NotRefused DEF NoStray, Relist

LEMMA SyncStep ==
    ASSUME TypeOK, OwnInv, InSync, [Next]_vars
    PROVE  InSync'
  <1> USE DEF TypeOK
  <1>1. ASSUME NEW c \in Conns, NEW fd \in Fds, OnAcceptFull(c, fd) PROVE InSync'
    <2> SUFFICES ASSUME NEW g \in Fds, g \notin stale' PROVE interest'[g] = Flags(events, g)'
      BY SMTT(60) DEF InSync
    <2>1. PICK gone : interest' = Forgotten(gone) /\ stale' = stale \cup LeftBehind(gone)
      BY <1>1, Zenon DEF OnAcceptFull
    <2>2. Flags(events, g)' = Flags(events, g)
      <3>1. \A d \in Dirs : <<c, d>> \notin events
        BY <1>1, Zenon DEF OnAcceptFull, OwnInv, LifeInv
      <3>2. events' = events /\ \A b \in Conns \ {c} : num'[b] = num[b]
        BY <1>1 DEF OnAcceptFull
      <3> QED
        BY <3>1, <3>2, Zenon DEF Flags
    <2>3. interest[g] = Flags(events, g)
      BY <2>1 DEF InSync
    <2> HIDE DEF Flags
    <2> QED
      BY <2>1, <2>2, <2>3, SMTT(60) DEF Forgotten, LeftBehind
  <1>2. ASSUME NEW c \in Conns, Start(c) PROVE InSync'
    BY <1>2, ZenonT(60) DEF Start, ioVars, InSync, Flags
  <1>3. ASSUME NEW c \in Conns, Send(c) PROVE InSync'
    <2>1. Relist(events \cup {<<c, "write">>}, num[c], open) /\ num' = num
      BY <1>3 DEF Send
    <2>2. \A b \in Conns, d \in Dirs : num[b] # num[c] =>
              (<<b, d>> \in events \cup {<<c, "write">>} <=> <<b, d>> \in events)
      OBVIOUS
    <2>3. "write" \in Dirs
      BY DEF Dirs
    <2>4. events \cup {<<c, "write">>} \in SUBSET (Conns \X Dirs) /\ num[c] \in Fds
      BY <2>3, ScheduleType
    <2> HIDE DEF TypeOK
    <2> QED
      BY <2>1, <2>2, <2>4, RelistSync
  <1>4. ASSUME NEW c \in Conns, Park(c) PROVE InSync'
    <2>1. Relist(events \cup {<<c, "read">>}, num[c], open) /\ num' = num
      BY <1>4, SMTT(60) DEF Park
    <2>2. \A b \in Conns, d \in Dirs : num[b] # num[c] =>
              (<<b, d>> \in events \cup {<<c, "read">>} <=> <<b, d>> \in events)
      OBVIOUS
    <2>3. "read" \in Dirs
      BY SMTT(60) DEF Dirs
    <2>4. events \cup {<<c, "read">>} \in SUBSET (Conns \X Dirs) /\ num[c] \in Fds
      BY <2>3, ScheduleType, SMTT(60)
    <2> HIDE DEF TypeOK
    <2> QED
      BY <2>1, <2>2, <2>4, RelistSync, SMTT(60)
  <1>5. ASSUME NEW c \in Conns, ResumeError(c) \/ ResumeRead(c) PROVE InSync'
    <2>1. Relist(events \ {<<c, "read">>}, num[c], open) /\ num' = num
      BY <1>5, SMTT(60) DEF ResumeError, ResumeRead
    <2>2. \A b \in Conns, d \in Dirs : num[b] # num[c] =>
              (<<b, d>> \in events \ {<<c, "read">>} <=> <<b, d>> \in events)
      BY SMTT(60)
    <2>3. "read" \in Dirs
      BY DEF Dirs
    <2>4. events \ {<<c, "read">>} \in SUBSET (Conns \X Dirs) /\ num[c] \in Fds
      BY <2>3, ScheduleType, SMTT(60)
    <2> HIDE DEF TypeOK
    <2> QED
      BY <2>1, <2>2, <2>4, RelistSync, SMTT(60)
  <1>6. ASSUME NEW c \in Conns, ResumePark(c) PROVE InSync'
    <2>1. \A g \in Fds : Flags(events, g)' = Flags(events, g)
      BY <1>6 DEF ResumePark, Flags
    <2> HIDE DEF Flags
    <2> QED
      BY <1>6, <2>1, SMTT(60) DEF ResumePark, InSync
  <1>7. ASSUME NEW c \in Conns, ConnectionEnds(c) \/ RunThrows(c) PROVE InSync'
    <2> SUFFICES ASSUME NEW g \in Fds, g \notin stale' PROVE interest'[g] = Flags(events, g)'
      BY SMTT(60) DEF InSync
    <2> DEFINE ev == LeftByOutput(c)
               closes == c \in open /\ mode = "epoll"
               told == Changed(ev, num[c]) /\ ~fault'
    <2>1. /\ num' = num /\ events' = ev
          /\ fault' = Refused(ev, num[c], open)
          /\ interest' = [interest EXCEPT ![num[c]] = IF closes THEN {}
                               ELSE IF told THEN Flags(ev, num[c]) ELSE @]
          /\ stale' = IF (closes /\ Flags(ev, num[c]) # {}) \/ fault' THEN stale \cup {num[c]}
                       ELSE IF closes \/ told THEN stale \ {num[c]} ELSE stale
      BY <1>7, SMTT(60) DEF ConnectionEnds, RunThrows, Close
    <2>2. Flags(events, g)' = Flags(ev, g)
      BY <2>1, SMTT(60) DEF Flags
    <2>3. CASE g # num[c]
      <3>1. Flags(ev, g) = Flags(events, g)
        BY <2>3, ZenonT(60) DEF Flags, LeftByOutput
      <3> HIDE DEF ev, closes, told
      <3> QED
        BY <2>1, <2>2, <2>3, <3>1, SMTT(60) DEF InSync
    <2>4. CASE g = num[c]
      <3>1. closes => interest'[g] = Flags(ev, g)
        BY <2>1, <2>4
      <3>2. ~closes /\ told => interest'[g] = Flags(ev, g)
        BY <2>1, <2>4
      <3>3. ~closes /\ ~told => interest'[g] = interest[g] /\ ~Changed(ev, g) /\ g \notin stale
        BY <2>1, <2>4, SMTT(60)
      <3> HIDE DEF ev, closes
      <3> QED
        BY <2>2, <3>1, <3>2, <3>3 DEF InSync, Changed
    <2> QED
      BY <2>3, <2>4, SMTT(60)
  <1>8. ASSUME NEW fd \in Fds, PollReports(fd) PROVE InSync'
    <2>1. PICK dirs \in SUBSET Dirs, err \in BOOLEAN : Report(fd, dirs, err)
      BY <1>8, ReportCases, SMTT(60)
    <2>2. PICK done \in SUBSET {c \in Conns : num[c] = fd} :
              Relist(events \ (done \X {"write"}), fd, open)
      BY <2>1, Zenon DEF Report
    <2>3. num' = num
      BY <2>1 DEF Report
    <2> QED
      BY <2>2, <2>3, RelistSync, SMTT(60)
  <1>9. CASE SwitchPoller
    BY <1>9, ZenonT(60) DEF SwitchPoller, ioVars, InSync, Flags
  <1>10. CASE Abort
    BY <1>10, Zenon DEF Abort, ioVars, InSync, Flags
  <1>11. CASE UNCHANGED vars
    BY <1>11, ZenonT(60) DEF vars, ioVars, InSync, Flags
  <1>12. ASSUME NEW c \in Conns, OrphanRuns(c) PROVE InSync'
    BY <1>12, ZenonT(60) DEF OrphanRuns, ioVars, InSync, Flags
  <1> QED
    BY <1>1, <1>2, <1>3, <1>4, <1>5, <1>6, <1>7, <1>8, <1>9, <1>10, <1>11, <1>12 DEF Next

LEMMA NoStrayStep ==
    ASSUME TypeOK, OwnInv, InSync, NoStray, [Next]_vars
    PROVE  NoStray'
  <1> USE DEF TypeOK
  <1>1. ASSUME NEW c \in Conns, NEW fd \in Fds, OnAcceptFull(c, fd) PROVE NoStray'
    <2> DEFINE victims == {list[i] : i \in 1 .. Excess}
               gone == {num[v] : v \in victims \cap open}
    <2>1. /\ open' = (open \ victims) \cup {c}
          /\ stale' = stale \cup LeftBehind(gone)
          /\ canceled' = (canceled \/ victims # {}) /\ orphans' = orphans
          /\ st' = [st EXCEPT ![c] = "new"] /\ fault' = fault
      BY <1>1 DEF OnAcceptFull
    <2>2. ~Stray' => LeftBehind(gone) = {}
      BY <2>1, Zenon DEF LeftBehind, Stray
    <2> HIDE DEF victims, gone
    <2> QED
      BY <2>1, <2>2, Zenon DEF NoStray, Stray
  <1>2. ASSUME NEW c \in Conns, Start(c) PROVE NoStray'
    BY <1>2 DEF Start, ioVars, NoStray, Stray
  <1>3. ASSUME NEW c \in Conns, Send(c) PROVE NoStray'
    <2>1. "write" \in Dirs
      BY DEF Dirs
    <2>2. \A b \in Conns, d \in Dirs : <<b, d>> \in events \cup {<<c, "write">>} => st[b] # "free"
      BY <1>3, ZenonT(60) DEF Send, Lives, OwnInv, LifeInv
    <2>3. ~Stray => stale' = {} /\ ~Refused(events \cup {<<c, "write">>}, num[c], open)
      BY <1>3, <2>1, <2>2, RelistNoStray, NotRefused, ScheduleType DEF Send
    <2> QED
      BY <1>3, <2>3 DEF Send, NoStray, Stray
  <1>4. ASSUME NEW c \in Conns, Park(c) PROVE NoStray'
    <2>1. "read" \in Dirs
      BY SMTT(60) DEF Dirs
    <2>2. \A b \in Conns, d \in Dirs : <<b, d>> \in events \cup {<<c, "read">>} => st[b] # "free"
      BY <1>4, ZenonT(60) DEF Park, OwnInv, LifeInv
    <2>3. ~Stray => stale' = {} /\ ~Refused(events \cup {<<c, "read">>}, num[c], open)
      BY <1>4, <2>1, <2>2, RelistNoStray, NotRefused, ScheduleType, SMTT(60) DEF Park
    <2> QED
      BY <1>4, <2>3, SMTT(60) DEF Park, NoStray, Stray
  <1>5. ASSUME NEW c \in Conns, ResumeError(c) PROVE NoStray'
    <2>1. "read" \in Dirs
      BY DEF Dirs
    <2>2. \A b \in Conns, d \in Dirs : <<b, d>> \in events \ {<<c, "read">>} => st[b] # "free"
      BY <1>5, ZenonT(60) DEF ResumeError, OwnInv, LifeInv
    <2>3. Relist(events \ {<<c, "read">>}, num[c], open)
      BY <1>5 DEF ResumeError
    <2>4. ~Stray => stale' = {} /\ ~Refused(events \ {<<c, "read">>}, num[c], open)
      BY <2>1, <2>2, <2>3, RelistNoStray, NotRefused, ScheduleType, SMTT(60)
    <2> QED
      BY <1>5, <2>4, SMTT(60) DEF ResumeError, NoStray, Stray
  <1>6. ASSUME NEW c \in Conns, ResumeRead(c) PROVE NoStray'
    <2>1. "read" \in Dirs
      BY DEF Dirs
    <2>2. \A b \in Conns, d \in Dirs : <<b, d>> \in events \ {<<c, "read">>} => st[b] # "free"
      BY <1>6, ZenonT(60) DEF ResumeRead, OwnInv, LifeInv
    <2>3. ~Stray => stale' = {} /\ ~Refused(events \ {<<c, "read">>}, num[c], open)
      BY <1>6, <2>1, <2>2, RelistNoStray, NotRefused, ScheduleType DEF ResumeRead
    <2> QED
      BY <1>6, <2>3, SMTT(60) DEF ResumeRead, NoStray, Stray
  <1>7. ASSUME NEW c \in Conns, ResumePark(c) PROVE NoStray'
    BY <1>7, SMTT(60) DEF ResumePark, NoStray, Stray
  <1>8. ASSUME NEW c \in Conns, ConnectionEnds(c) PROVE NoStray'
    <2> DEFINE ev == LeftByOutput(c)
    <2>1. /\ canceled' = canceled /\ orphans' = orphans
          /\ st' = [st EXCEPT ![c] = "free"] /\ open' = open \ {c}
          /\ fault' = Refused(ev, num[c], open)
          /\ stale' \subseteq stale \/ Flags(ev, num[c]) # {} \/ fault'
          /\ st[c] \in {"run", "new"}
      BY <1>8, SMTT(60) DEF ConnectionEnds, Close
    <2>2. ev \in SUBSET (Conns \X Dirs) /\ num[c] \in Fds
      BY SMTT(60) DEF LeftByOutput
    <2>3. \A b \in Conns, d \in Dirs : <<b, d>> \in ev => st[b] # "free" /\ b # c
      BY <2>1, Zenon DEF LeftByOutput, OwnInv, LifeInv, Dirs
    <2>4. ~Stray => ~fault'
      BY <2>1, <2>2, <2>3, NotRefused
    <2>5. ~Stray => Flags(ev, num[c]) = {}
      <3> SUFFICES ASSUME ~Stray, NEW b \in Conns, NEW d \in Dirs,
                          <<b, d>> \in ev, num[b] = num[c]
                   PROVE  FALSE
        BY ZenonT(60) DEF Flags
      <3>1. b \in open /\ c \in open /\ b # c
        BY <2>1, <2>3 DEF NoStray, Stray
      <3> QED
        BY <3>1 DEF OwnInv, OpenOnce
    <2> HIDE DEF ev
    <2> QED
      BY <2>1, <2>4, <2>5, SMTT(60) DEF NoStray, Stray
  <1>9. ASSUME NEW fd \in Fds, PollReports(fd) PROVE NoStray'
    <2>1. PICK dirs \in SUBSET Dirs, err \in BOOLEAN : Report(fd, dirs, err)
      BY <1>9, ReportCases
    <2>2. PICK done \in SUBSET Conns : Relist(events \ (done \X {"write"}), fd, open)
      BY <2>1, Zenon DEF Report
    <2>3. \A c \in Conns, d \in Dirs :
              <<c, d>> \in events \ (done \X {"write"}) => st[c] # "free"
      BY ZenonT(60) DEF OwnInv, LifeInv
    <2>4. ~Stray => stale' = {}
      BY <2>2, <2>3, RelistNoStray
    <2>5. \A c \in Conns : st'[c] # "free" => st[c] # "free"
      BY <2>1, SMTT(60) DEF Report, OwnInv, LifeInv
    <2>6. UNCHANGED <<open, canceled, orphans, fault>>
      BY <2>1, SMTT(60) DEF Report
    <2> QED
      BY <2>4, <2>5, <2>6 DEF NoStray, Stray
  <1>10. CASE SwitchPoller
    <2>1. ASSUME ~Stray, NEW fd \in Fds, interest[fd] # {} PROVE Owned(open, fd) # {}
      <3>1. Flags(events, fd) # {}
        BY <2>1, SMTT(60) DEF InSync, NoStray, Stray
      <3>2. PICK c \in Conns, d \in Dirs : <<c, d>> \in events /\ num[c] = fd
        BY <3>1, Zenon DEF Flags
      <3>3. c \in open
        BY <2>1, <3>2, ZenonT(60) DEF NoStray, OwnInv, LifeInv
      <3> QED
        BY <3>2, <3>3, SMTT(60) DEF Owned
    <2>2. ~Stray => ~fault'
      BY <1>10, <2>1 DEF SwitchPoller
    <2> QED
      BY <1>10, <2>2, SMTT(60) DEF SwitchPoller, ioVars, NoStray, Stray
  <1>11. CASE Abort
    BY <1>11, SMTT(60) DEF Abort, ioVars, NoStray, Stray
  <1>12. CASE UNCHANGED vars
    BY <1>12, SMTT(60) DEF vars, ioVars, NoStray, Stray
  <1>13. ASSUME NEW c \in Conns, RunThrows(c) \/ OrphanRuns(c) PROVE NoStray'
    <2>1. orphans' # {}
      BY <1>13 DEF RunThrows, OrphanRuns
    <2> QED
      BY <2>1 DEF NoStray, Stray
  <1> QED
    BY <1>1, <1>2, <1>3, <1>4, <1>5, <1>6, <1>7, <1>8, <1>9, <1>10, <1>11, <1>12, <1>13
       DEF Next

-----------------------------------------------------------------------------
(* Every open connection is in the list, so a limit on the list is a limit *)
(* on the sockets; the converse is not true.                               *)
ListInv == open \subseteq Els(list) /\ OpenBound

LEMMA AcceptBound ==
    ASSUME TypeOK, ListInv, NEW c \in Conns, NEW fd \in Fds, OnAcceptFull(c, fd)
    PROVE  open' \subseteq Els(list') /\ (MaxConnections > 0 => Len(list') <= MaxConnections + 1)
  <1> DEFINE victims == {list[i] : i \in 1 .. Excess}
             rest == SubSeq(list, Excess + 1, Len(list))
  <1>1. list' = Append(rest, c) /\ open' = (open \ victims) \cup {c}
    BY DEF OnAcceptFull
  <1>2. Len(list) \in Nat /\ list \in Seq(Conns)
    BY DEF TypeOK
  <1>3. Excess \in 0..Len(list) /\ (MaxConnections > 0 => Len(list) - Excess <= MaxConnections)
    BY <1>2, LimitAssumption, SMTT(60) DEF Excess
  <1>4. /\ rest \in Seq(Conns) /\ Len(rest) = Len(list) - Excess
        /\ \A i \in 1..Len(rest) : rest[i] = list[i + Excess]
    BY <1>2, <1>3, SMTT(60)
  <1> HIDE DEF rest
  <1>5. /\ Len(list') = Len(rest) + 1
        /\ \A i \in 1..Len(rest) : list'[i] = rest[i]
        /\ list'[Len(rest) + 1] = c
    BY <1>1, <1>4, SMTT(60)
  <1>6. ASSUME NEW b \in open \ victims PROVE b \in Els(list')
    <2>1. PICK i \in 1..Len(list) : b = list[i]
      BY <1>6 DEF ListInv, Els
    <2>2. i > Excess
      BY <1>3, <1>6, <2>1, SMTT(60)
    <2>3. i - Excess \in 1..Len(list') /\ b = list'[i - Excess]
      BY <1>2, <1>3, <1>4, <1>5, <2>1, <2>2, SMTT(60)
    <2> QED
      BY <2>3 DEF Els
  <1>7. c \in Els(list')
    <2>1. Len(rest) + 1 \in 1..Len(list')
      BY <1>4, <1>5, SMTT(60)
    <2> QED
      BY <1>5, <2>1, SMTT(60) DEF Els
  <1>8. MaxConnections > 0 => Len(list') <= MaxConnections + 1
    BY <1>2, <1>3, <1>4, <1>5, LimitAssumption, SMTT(60)
  <1> QED
    BY <1>1, <1>6, <1>7, <1>8, SMTT(60)

LEMMA ListStep ==
    ASSUME TypeOK, TypeOK', ListInv, [Next]_vars
    PROVE  ListInv'
  <1>1. ASSUME NEW c \in Conns, NEW fd \in Fds, OnAcceptFull(c, fd) PROVE ListInv'
    <2>1. list' \in Seq(Conns) /\ Len(list') \in Nat
      BY SMTT(60) DEF TypeOK
    <2>2. open' \subseteq Els(list') /\ (MaxConnections > 0 => Len(list') <= MaxConnections + 1)
      BY <1>1, AcceptBound, SMTT(60)
    <2>3. Cardinality(Els(list')) <= Len(list') /\ IsFiniteSet(Els(list'))
      BY <2>1, SeqCardinality, SMTT(60)
    <2>4. Cardinality(open') <= Cardinality(Els(list')) /\ IsFiniteSet(open')
      BY <2>2, <2>3, FS_Subset, SMTT(60)
    <2>5. Cardinality(open') \in Nat /\ Cardinality(Els(list')) \in Nat
      BY <2>3, <2>4, FS_CardinalityType, SMTT(60)
    <2>6. MaxConnections > 0 => Cardinality(open') <= MaxConnections + 1
      BY <2>1, <2>2, <2>3, <2>4, <2>5, LimitAssumption, SMTT(60)
    <2>7. Els(list)' = Els(list')
      BY DEF Els
    <2> QED
      BY <2>2, <2>6, <2>7, SMTT(60) DEF ListInv, OpenBound
  <1>2. ASSUME NEW c \in Conns, Send(c) PROVE ListInv'
    <2>1. list' = list \/ list' = PushBack(list, c)
      BY <1>2, ZenonT(60) DEF Send
    <2>2. Els(list) \subseteq Els(list')
      BY <2>1, ListType, ZenonT(60) DEF TypeOK
    <2>3. Els(list)' = Els(list') /\ open' = open
      BY <1>2 DEF Els, Send
    <2> QED
      BY <2>2, <2>3, SMTT(60) DEF ListInv, OpenBound
  <1>3. ASSUME NEW c \in Conns, ConnectionEnds(c) \/ RunThrows(c) PROVE ListInv'
    <2>1. list' = Unlink(list, c) /\ open' = open \ {c}
      BY <1>3, ZenonT(60) DEF ConnectionEnds, RunThrows, Close
    <2>2. Els(list) \ {c} \subseteq Els(list')
      BY <2>1, ListType DEF TypeOK
    <2>3. Els(list)' = Els(list')
      BY SMTT(60) DEF Els
    <2>4. IsFiniteSet(open) /\ open' \in SUBSET open
      BY <2>1, FS_Subset, FiniteAssumption, SMTT(60) DEF TypeOK
    <2>5. /\ Cardinality(open') <= Cardinality(open) /\ IsFiniteSet(open')
      BY <2>4, FS_Subset
    <2>6. Cardinality(open) \in Nat /\ Cardinality(open') \in Nat
      BY <2>4, <2>5, FS_CardinalityType, SMTT(60)
    <2>7. OpenBound'
      BY <2>5, <2>6, LimitAssumption, SMTT(60) DEF ListInv, OpenBound
    <2> QED
      BY <2>1, <2>2, <2>3, <2>7 DEF ListInv
  <1>4. CASE UNCHANGED <<list, open>>
    BY <1>4, SMTT(60) DEF ListInv, OpenBound, Els
  <1>5. ASSUME NEW c \in Conns,
               \/ Start(c) \/ Park(c) \/ ResumeError(c) \/ ResumeRead(c) \/ ResumePark(c)
               \/ OrphanRuns(c)
        PROVE  UNCHANGED <<list, open>>
    BY <1>5, ZenonT(60) DEF Start, Park, ResumeError, ResumeRead, ResumePark, OrphanRuns
  <1>6. ASSUME NEW fd \in Fds, PollReports(fd) PROVE UNCHANGED <<list, open>>
    BY <1>6, ReportCases, ZenonT(60) DEF Report
  <1>7. SwitchPoller \/ Abort \/ UNCHANGED vars => UNCHANGED <<list, open>>
    BY Zenon DEF SwitchPoller, Abort, vars
  <1> QED
    BY <1>1, <1>2, <1>3, <1>4, <1>5, <1>6, <1>7, SMTT(60) DEF Next

-----------------------------------------------------------------------------
IInv == TypeOK /\ OwnInv /\ InSync /\ NoStray /\ ListInv

LEMMA Initially == Init => IInv
  <1> SUFFICES ASSUME Init PROVE IInv
    OBVIOUS
  <1>1. TypeOK
    <2>1. canceled \in BOOLEAN /\ aborted \in BOOLEAN /\ fault \in BOOLEAN
      BY Zenon DEF Init
    <2>2. list \in Seq(Conns) /\ num \in [Conns -> Fds]
      BY DEF Init
    <2>3. interest \in [Fds -> SUBSET Dirs]
      BY DEF Init
    <2>4. st \in [Conns -> {"free", "new", "run", "parked", "ready", "failed"}]
      BY DEF Init
    <2>5. /\ open \subseteq Conns /\ orphans \subseteq Conns
          /\ events \subseteq Conns \X Dirs /\ stale \subseteq Fds
          /\ misread \subseteq Conns /\ miswritten \subseteq Conns
      BY DEF Init
    <2>6. mode \in {"poll", "epoll"}
      BY DEF Init
    <2> QED
      BY <2>1, <2>2, <2>3, <2>4, <2>5, <2>6 DEF TypeOK
  <1>2. OwnInv
    BY SMTT(60) DEF Init, OwnInv, LifeInv, OpenOnce, OwnSocketOnly
  <1>3. InSync /\ NoStray
    BY DEF Init, InSync, NoStray, Stray, Flags
  <1>4. ListInv
    <2>1. Cardinality({}) = 0
      BY FS_EmptySet
    <2> QED
      BY <2>1, LimitAssumption DEF Init, ListInv, OpenBound
  <1> QED
    BY <1>1, <1>2, <1>3, <1>4 DEF IInv

(* The inductive invariant holds in every state.                           *)
THEOREM Invariance == Spec => []IInv
  <1>1. IInv /\ [Next]_vars => IInv'
    <2> SUFFICES ASSUME IInv, [Next]_vars PROVE IInv'
      OBVIOUS
    <2>1. TypeOK /\ OwnInv /\ InSync /\ NoStray /\ ListInv
      BY DEF IInv
    <2>2. TypeOK'
      BY <2>1, TypeStep
    <2>3. OwnInv'
      BY <2>1, OwnStep
    <2>4. InSync'
      BY <2>1, SyncStep
    <2>5. NoStray'
      BY <2>1, NoStrayStep
    <2>6. ListInv'
      BY <2>1, <2>2, ListStep
    <2> QED
      BY <2>2, <2>3, <2>4, <2>5, <2>6, SMTT(60) DEF IInv
  <1> QED
    BY <1>1, Initially, PTL DEF Spec

(* Every variable keeps to its type.                                       *)
THEOREM TypeCorrect == Spec => []TypeOK
  <1>1. IInv => TypeOK
    BY DEF IInv
  <1> QED
    BY <1>1, Invariance, PTL

(* With any limit, at most one socket beyond it is open.                   *)
THEOREM SocketsBounded == Spec => []OpenBound
  <1>1. IInv => OpenBound
    BY SMTT(60) DEF IInv, ListInv
  <1> QED
    BY <1>1, Invariance, PTL

(* The poller knows what every open connection waits for, except on a      *)
(* number inherited with the events of an evicted connection or of an      *)
(* orphaned worker.                                                        *)
THEOREM ListenersAreHeard == Spec => []Heard
  <1>1. IInv => Heard
    BY ZenonT(60) DEF IInv, TypeOK, InSync, Heard, Flags
  <1> QED
    BY <1>1, Invariance, PTL

(* No connection writes to another's socket, and no open one reads it.     *)
THEOREM OwnSockets == Spec => []OwnSocketOnly
  <1>1. IInv => OwnSocketOnly
    BY DEF IInv, OwnInv
  <1> QED
    BY <1>1, Invariance, PTL

(* Unless a connection is evicted or a worker outlives its connection, the *)
(* poller is never out of step with the kernel and epoll never makes the   *)
(* server throw.                                                           *)
THEOREM OnlyStraysTrouble == Spec => []TroubleNeedsStray
  <1>1. IInv => TroubleNeedsStray
    BY DEF IInv, NoStray, Stray, TroubleNeedsStray
  <1> QED
    BY <1>1, Invariance, PTL
=============================================================================
