---------------------------- MODULE CardsProofs ----------------------------
(***************************************************************************)
(* Theorems about Cards for every number of channels and queue capacity,   *)
(* whatever the periods of the timer, with their proofs.                   *)
(*                                                                         *)
(* Three invariants, each inductive beside WindowInv (ConsoleProofs):      *)
(*   ShownInv   between two handlers every cache entry is valid, and its   *)
(*              card shows it under the connection as it is;               *)
(*   LogInv     an entry that says busy is of a busy channel, and if the   *)
(*              request on the wire is the last one of a busy channel, the *)
(*              entry of that channel says busy;                           *)
(*   TimeInv    what the odometer has counted, and what it would add now,  *)
(*              is covered by the time the channel has been on.            *)
(* The calls of a handler matter only in that they settle nothing and make *)
(* a channel busy only by a request that waits (Called, ConsoleProofs).    *)
(***************************************************************************)
EXTENDS Cards, ConsoleProofs, FiniteSetTheorems

-----------------------------------------------------------------------------
(* A loop over the channels that has at most one line to write. *)
LEMMA OneLine ==
  ASSUME NEW T, NEW f \in [Channels -> Seq(T)], NEW d \in Channels,
         \A c \in Channels : c # d => f[c] = <<>>
  PROVE  EachInTurn(f) = f[d]
<1>1. NumChannels \in Nat \ {0} /\ Channels = 1 .. NumChannels
  BY ChannelsAssumption DEF Channels
<1>2. PICK g : Partial(f, NumChannels, g) /\ EachInTurn(f) = g[NumChannels]
  BY EachInTurnIsPartial
<1>3. \A k \in Channels : g[k] = IF k = 1 THEN f[k] ELSE g[k - 1] \o f[k]
  <2> SUFFICES ASSUME NEW k \in 1 .. NumChannels
               PROVE  g[k] = IF k = 1 THEN f[k] ELSE g[k - 1] \o f[k]
    BY <1>1
  <2>1. g = [i \in 1 .. NumChannels |-> IF i = 1 THEN f[i] ELSE g[i - 1] \o f[i]]
    BY <1>2 DEF Partial
  <2>2. [i \in 1 .. NumChannels |-> IF i = 1 THEN f[i] ELSE g[i - 1] \o f[i]][k]
          = IF k = 1 THEN f[k] ELSE g[k - 1] \o f[k]
    OBVIOUS
  <2>. QED
    BY <2>1, <2>2, Zenon
<1> DEFINE Good(k) == g[k] = IF k < d THEN <<>> ELSE f[d]
           S == {k \in Nat : k \in Channels => Good(k)}
<1>4. 0 \in S
  BY <1>1
<1>5. ASSUME NEW k \in Nat, k \in S PROVE k + 1 \in S
  <2> SUFFICES ASSUME k + 1 \in Channels PROVE Good(k + 1)
    OBVIOUS
  <2>1. f[d] \in Seq(T) /\ <<>> \in Seq(T) /\ f[d] \o <<>> = f[d]
          /\ <<>> \o f[d] = f[d]
          /\ <<>> \o <<>> = <<>>
    BY ConcatEmptySeq
  <2>2. CASE k = 0
    <3>1. g[k + 1] = f[k + 1]
      BY <1>3, <2>2
    <3>. QED
      BY <1>1, <2>2, <3>1
  <2>3. CASE k # 0
    <3>1. k \in Channels /\ (k + 1) - 1 = k
      BY <1>1, <2>3
    <3>2. Good(k)
      BY <1>5, <3>1
    <3>3. g[k + 1] = g[k] \o f[k + 1]
      <4>1. k + 1 # 1
        BY <2>3
      <4>. QED
        BY <1>3, <3>1, <4>1, Zenon
    <3>4. CASE k + 1 < d
      <4>1. g[k] = <<>> /\ f[k + 1] = <<>>
        BY <1>1, <3>1, <3>2, <3>4
      <4>2. g[k + 1] = <<>>
        BY <2>1, <3>3, <4>1, Zenon
      <4>. QED
        BY <3>4, <4>2
    <3>5. CASE k + 1 = d
      <4>1. g[k] = <<>> /\ f[k + 1] = f[d]
        BY <1>1, <3>1, <3>2, <3>5
      <4>2. g[k + 1] = f[d]
        BY <2>1, <3>3, <4>1, Zenon
      <4>. QED
        BY <1>1, <3>5, <4>2
    <3>6. CASE k + 1 > d
      <4>1. g[k] = f[d] /\ f[k + 1] = <<>>
        BY <1>1, <3>1, <3>2, <3>6
      <4>2. g[k + 1] = f[d]
        BY <2>1, <3>3, <4>1, Zenon
      <4>. QED
        BY <1>1, <3>6, <4>2
    <3>. QED
      BY <1>1, <3>4, <3>5, <3>6
  <2>. QED
    BY <2>2, <2>3
<1> HIDE DEF S
<1>6. Nat \subseteq S
  BY <1>4, <1>5, SetInduction
<1>7. NumChannels \in Channels /\ ~(NumChannels < d)
  BY <1>1
<1>. QED
  BY <1>1, <1>2, <1>6, <1>7 DEF S

(* What may be logged. *)
Kinds == {"none", "on", "off", "resume", "level", "mode"}
LogLine == Channels \X Kinds

Lines(drawn, r, commands) ==
  [c \in Channels |-> IF Settles(drawn, r, c) THEN <<<<c, commands[c]>>>>
    ELSE <<>>]

LEMMA LinesLogged ==
  ASSUME NEW lines \in Seq(LogLine), NEW commands \in [Channels -> Kinds],
         NEW drawn, NEW r, NEW d \in Channels,
         \A c \in Channels : c # d => ~Settles(drawn, r, c)
  PROVE  lines \o EachInTurn(Lines(drawn, r, commands))
           = IF Settles(drawn, r, d) THEN Append(lines, <<d, commands[d]>>)
             ELSE lines
<1> DEFINE f == Lines(drawn, r, commands)
<1>1. \A c \in Channels : <<c, commands[c]>> \in LogLine
  BY DEF LogLine
<1>2. f \in [Channels -> Seq(LogLine)]
  BY <1>1 DEF Lines
<1>3. \A c \in Channels : c # d => f[c] = <<>>
  BY DEF Lines
<1>4. f[d] = IF Settles(drawn, r, d) THEN <<<<d, commands[d]>>>> ELSE <<>>
  BY DEF Lines
<1> HIDE DEF f
<1>5. EachInTurn(f) = f[d]
  BY <1>2, <1>3, OneLine
<1>6. lines \o <<>> = lines
        /\ Append(lines, <<d, commands[d]>>) = lines \o <<<<d, commands[d]>>>>
  BY <1>1, ConcatEmptySeq, AppendIsConcat
<1>7. lines \o EachInTurn(f)
        = IF Settles(drawn, r, d) THEN Append(lines, <<d, commands[d]>>)
          ELSE lines
  <2>1. CASE Settles(drawn, r, d)
    BY <1>4, <1>5, <1>6, <2>1, Zenon
  <2>2. CASE ~Settles(drawn, r, d)
    BY <1>4, <1>5, <1>6, <2>2, Zenon
  <2>. QED
    BY <2>1, <2>2
<1>. QED
  BY <1>7 DEF f

LEMMA NothingLogged ==
  ASSUME NEW lines \in Seq(LogLine), NEW commands \in [Channels -> Kinds],
         NEW drawn, NEW r, \A c \in Channels : ~Settles(drawn, r, c)
  PROVE  lines \o EachInTurn(Lines(drawn, r, commands)) = lines
<1>1. PICK d \in Channels : TRUE
  BY ChannelsAssumption DEF Channels
<1>. QED
  BY <1>1, LinesLogged

-----------------------------------------------------------------------------
(* The text of a card, as it follows from its cache entry. *)
TextOf(key, up) ==
  CASE key.tripped              -> "TRIPPED"
    [] ~key.tripped /\ key.busy -> "SENDING"
    [] OTHER -> IF key.output_on /\ up THEN LEVEL_LABELS[key.level] ELSE "STANDBY"

LEMMA KeyIsEntry ==
  ASSUME NEW r \in RackType, NEW c \in Channels
  PROVE  /\ Key(r, c) \in Entry
         /\ Key(r, c) # Stale
         /\ Key(r, c).busy = r.chan[c].busy
         /\ \A up : StatusText(r, c, up) = TextOf(Key(r, c), up)
<1>1. r.chan[c] \in Chan
  BY DEF RackType
<1>2. Key(r, c) \in Entry
  BY <1>1 DEF Key, Entry, Chan
<1>3. ASSUME NEW up PROVE StatusText(r, c, up) = TextOf(Key(r, c), up)
  <2>1. /\ Key(r, c).tripped = (c \in tripped)
        /\ Key(r, c).busy = r.chan[c].busy
        /\ Key(r, c).output_on = r.chan[c].output_on
        /\ Key(r, c).level = r.chan[c].level
    BY DEF Key
  <2>2. (c \notin tripped) = ~(c \in tripped)
    OBVIOUS
  <2>. QED
    BY <2>1, <2>2, Zenon DEF StatusText, TextOf
<1>. QED
  BY <1>2, <1>3, CardsAssumption DEF Key

(* What a card drawn anew shows, if it showed what its entry said before.    *)
LEMMA DrawnShows ==
  ASSUME NEW r \in RackType, NEW drawn, NEW text, NEW lines, NEW up, NEW commands,
         SetDrawn(Drawn(drawn, text, lines, r, up, commands)),
         \A c \in Channels : drawn[c] # Stale => text[c] = TextOf(drawn[c], up)
  PROVE  /\ \A c \in Channels : /\ cache'[c] = Key(r, c)
                                /\ status'[c] = StatusText(r, c, up)
         /\ log' = lines \o EachInTurn(Lines(drawn, r, commands))
<1>1. /\ cache' = [c \in Channels |-> Key(r, c)]
      /\ status' = [c \in Channels |-> IF drawn[c] = Key(r, c) THEN text[c]
                                       ELSE StatusText(r, c, up)]
      /\ log' = lines \o EachInTurn(Lines(drawn, r, commands))
  BY DEF SetDrawn, Drawn, Lines
<1>2. ASSUME NEW c \in Channels PROVE status'[c] = StatusText(r, c, up)
  <2>1. status'[c] = IF drawn[c] = Key(r, c) THEN text[c]
          ELSE StatusText(r, c, up)
    BY <1>1, Zenon
  <2>2. drawn[c] = Key(r, c) => text[c] = StatusText(r, c, up)
    BY KeyIsEntry, Zenon
  <2>. QED
    BY <2>1, <2>2, Zenon
<1>3. \A c \in Channels : cache'[c] = Key(r, c)
  BY <1>1, Zenon
<1>. QED
  BY <1>1, <1>2, <1>3, Zenon

-----------------------------------------------------------------------------
(* The invariants. *)
ShownInv ==
  \A c \in Channels : /\ cache[c] \in Entry
                      /\ status[c] = TextOf(cache[c], connected)

LogInv ==
  /\ last \in [Channels -> Kinds]
  /\ log \in Seq(LogLine)
  /\ \A c \in Channels :
       /\ cache[c] # Stale /\ cache[c].busy => chan[c].busy
       /\ /\ inflight # NoRequest /\ inflight.channel = c
          /\ chan[c].busy /\ ~Waits(Rack, c)
          => cache[c] # Stale /\ cache[c].busy

(* Calls keep the last part, for entries that stay or are drawn from a rack  *)
(* on the way.                                                               *)
Tracks(drawn, r) ==
  \A c \in Channels :
    /\ drawn[c] # Stale /\ drawn[c].busy => r.chan[c].busy
    /\ /\ r.inflight # NoRequest /\ r.inflight.channel = c
       /\ r.chan[c].busy /\ ~Waits(r, c)
       => drawn[c] # Stale /\ drawn[c].busy

LEMMA LogInvIs ==
  LogInv <=> last \in [Channels -> Kinds] /\ log \in Seq(LogLine)
    /\ Tracks(cache, Rack)
  BY DEF LogInv, Tracks, Rack

LEMMA CallsTrack ==
  ASSUME NEW drawn, NEW r, NEW r2, Tracks(drawn, r), Called(r, r2)
  PROVE  Tracks(drawn, r2)
  BY DEF Tracks, Called

LEMMA KeysTrack ==
  ASSUME NEW drawn, NEW r \in RackType, \A c \in Channels : drawn[c] = Key(r, c)
  PROVE  Tracks(drawn, r)
<1>1. \A c \in Channels : Key(r, c) # Stale /\ Key(r, c).busy = r.chan[c].busy
  BY KeyIsEntry
<1>. QED
  BY <1>1 DEF Tracks

LEMMA StaleNeverSettles ==
  \A r : \A c \in Channels : ~Settles(AllStale, r, c)
  BY DEF Settles, AllStale

(* The handlers that call back draw every card from a stale cache.           *)
LEMMA CalledBackShows ==
  ASSUME NEW r \in RackType, NEW up, log \in Seq(LogLine),
         last \in [Channels -> Kinds],
         SetDrawn(Drawn(AllStale, status, log, r, up, last))
  PROVE  /\ \A c \in Channels : /\ cache'[c] = Key(r, c)
                                /\ status'[c] = StatusText(r, c, up)
         /\ log' = log
<1>1. \A c \in Channels : AllStale[c] = Stale
  BY DEF AllStale
<1>2. log \o EachInTurn(Lines(AllStale, r, last)) = log
  BY NothingLogged, StaleNeverSettles
<1>. QED
  BY <1>1, <1>2, DrawnShows

-----------------------------------------------------------------------------
(* One poll, as far as busy goes. *)
LEMMA PollSettlesOne ==
  ASSUME NEW r \in RackType, NEW ripe \in BOOLEAN, NEW up \in BOOLEAN,
         NEW r2, r2 = Poll(r, ripe, up)
  PROVE  /\ r.inflight = NoRequest \/ ~ripe => r2.chan = r.chan
         /\ r.inflight # NoRequest /\ ~ripe => r2.inflight = r.inflight
         /\ r.inflight # NoRequest /\ ripe =>
              /\ r2.inflight = NoRequest
              /\ ~r2.chan[r.inflight.channel].busy
              /\ \A c \in Channels :
                   c # r.inflight.channel => r2.chan[c] = r.chan[c]
<1>1. CASE r.inflight = NoRequest
  <2>1. CASE r.queue # <<>>
    <3>1. r2 = Send(r, up)
      BY <1>1, <2>1 DEF Poll
    <3>. QED
      BY <1>1, <3>1 DEF Send, RackType
  <2>2. CASE r.queue = <<>>
    <3>1. r2 = r
      BY <1>1, <2>2 DEF Poll
    <3>. QED
      BY <1>1, <3>1
  <2>. QED
    BY <2>1, <2>2
<1>2. CASE r.inflight # NoRequest /\ ~ripe
  <2>1. r2 = r
    BY <1>2 DEF Poll
  <2>. QED
    BY <1>2, <2>1
<1>3. CASE r.inflight # NoRequest /\ ripe
  <2>1. r2 = Settle(r)
    BY <1>3 DEF Poll
  <2>2. r.inflight.channel \in Channels /\ r.chan \in [Channels -> Chan]
    BY <1>3 DEF RackType, Request
  <2>3. r2.inflight = NoRequest
    BY <2>1 DEF Settle, RackType
  <2>4. r2.chan = [r.chan EXCEPT ![r.inflight.channel] = Settled(@, r.inflight)]
    BY <2>1 DEF Settle, RackType
  <2>5. ~Settled(r.chan[r.inflight.channel], r.inflight).busy
    BY <2>2 DEF Settled, Chan
  <2>. QED
    BY <1>3, <2>2, <2>3, <2>4, <2>5
<1>. QED
  BY <1>1, <1>2, <1>3

(* And when the send of a request is due, that request's channel settles and *)
(* no other changes.                                                         *)
SettledOnly(r, r2) ==
  /\ ~r2.chan[r.inflight.channel].busy
  /\ r2.inflight = NoRequest
  /\ \A c \in Channels : c # r.inflight.channel => r2.chan[c] = r.chan[c]

LEMMA RipeSettlesOnly ==
  ASSUME NEW r \in RackType, NEW ripe \in BOOLEAN, NEW up \in BOOLEAN,
         r.inflight # NoRequest, ripe
  PROVE  SettledOnly(r, Poll(r, ripe, up))
BY PollSettlesOne DEF SettledOnly

(* A tick: what was asked before the poll, and what is true after it.        *)
LEMMA TickGives ==
  ASSUME WindowInv, NEW ripe \in BOOLEAN, NEW hot \in BOOLEAN, Tick(ripe, hot)
  PROVE  /\ connected' \in BOOLEAN
         /\ ~CallsBack => connected' = connected
         /\ \E asked \in RackType : /\ Called(Rack, asked)
                                    /\ Sent(ripe) = Poll(asked, ripe, connected')
         /\ Sent(ripe) \in RackType
         /\ Called(Sent(ripe), Rack')
         /\ IF hot THEN tripped' = Channels
                   ELSE tripped' = tripped /\ Rack' = Sent(ripe)
<1>0. WindowFields
  BY WindowInvIs
<1>1. PICK count, up, asked, sent :
        /\ count = RetryCount(connected /\ plugged)
        /\ up = (plugged /\ (connected \/ count = RetryTicks))
        /\ asked = OnConnectedChanged(Rack, up /\ ~connected)
        /\ sent = Poll(asked, ripe, up)
        /\ connected' = up
        /\ SetRack(IF hot THEN TripAll(sent) ELSE sent)
        /\ tripped' = IF hot THEN Channels ELSE tripped
  BY DEF Tick
<1>2. up \in BOOLEAN
  BY <1>0, <1>1 DEF WindowFields
<1>3. Sound(asked) /\ Called(Rack, asked)
  BY <1>1, ConnectedChangedSound
<1>4. Sound(sent)
  BY <1>1, <1>2, <1>3, PollSound
<1>5. Sent(ripe) = sent
  BY <1>1, Zenon DEF Sent
<1>6. ~CallsBack => connected' = connected
  BY <1>0, <1>1 DEF CallsBack, WindowFields
<1>7. PICK r : r = IF hot THEN TripAll(sent) ELSE sent
  OBVIOUS
<1>8. Sound(r) /\ Called(sent, r)
  BY <1>4, <1>7, TurnOffAllSound, CalledNothing DEF TripAll
<1>9. SetRack(r)
  BY <1>1, <1>7, Zenon
<1>10. Rack' = r
  BY <1>8, <1>9 DEF SetRack, Rack, RackType, Sound
<1>11. \E a \in RackType : /\ Called(Rack, a)
                           /\ Sent(ripe) = Poll(a, ripe, connected')
  <2>1. asked \in RackType
    BY <1>3 DEF Sound
  <2>2. Sent(ripe) = Poll(asked, ripe, connected')
    BY <1>1, <1>5, Zenon
  <2>. QED
    BY <1>3, <2>1, <2>2, Zenon
<1>. QED
  BY <1>1, <1>2, <1>4, <1>5, <1>6, <1>7, <1>8, <1>10, <1>11 DEF Sound

(* What the cards are drawn from in a tick: the cache, or, when the          *)
(* connection called back, the rack as it was before.                        *)
Commands(ripe) ==
  IF SettlesNow(ripe) THEN [last EXCEPT ![inflight.channel] = inflight.kind]
    ELSE last

DrawsFrom(ripe, drawn, text) ==
  /\ SetDrawn(Drawn(drawn, text, log, Sent(ripe), connected', Commands(ripe)))
  /\ \A c \in Channels : drawn[c] # Stale
       => text[c] = TextOf(drawn[c], connected')
  /\ Tracks(drawn, Rack)

LEMMA TickDrawsFrom ==
  ASSUME WindowInv, ShownInv, LogInv,
         NEW ripe \in BOOLEAN, NEW hot \in BOOLEAN, CardsTick(ripe, hot)
  PROVE  \E drawn, text : DrawsFrom(ripe, drawn, text)
<1>0. Rack \in RackType
  BY WindowInvIs DEF Sound
<1>1. Tick(ripe, hot) /\ TickDraws(ripe)
  BY DEF CardsTick
<1>2. CASE CallsBack
  <2> DEFINE d == CalledBack(connected')
  <2>1. /\ d.cache = [c \in Channels |-> Key(Rack, c)]
        /\ d.status = [c \in Channels |-> IF AllStale[c] = Key(Rack, c)
             THEN status[c]
                                          ELSE StatusText(Rack, c, connected')]
        /\ d.log = log \o EachInTurn(Lines(AllStale, Rack, last))
    BY DEF CalledBack, Drawn, Lines
  <2>2. d.log = log
    BY <2>1, NothingLogged, StaleNeverSettles DEF LogInv
  <2>3. SetDrawn(Drawn(d.cache, d.status, d.log, Sent(ripe), connected', Commands(ripe)))
    BY <1>1, <1>2, Zenon DEF TickDraws, Commands
  <2>4. ASSUME NEW c \in Channels
        PROVE  d.cache[c] = Key(Rack, c)
                 /\ d.status[c] = TextOf(d.cache[c], connected')
    <3>1. AllStale[c] = Stale /\ Key(Rack, c) # Stale
            /\ StatusText(Rack, c, connected') = TextOf(Key(Rack, c), connected')
      BY <1>0, KeyIsEntry DEF AllStale
    <3> HIDE DEF d
    <3>2. d.cache[c] = Key(Rack, c)
      BY <2>1, Zenon
    <3>3. d.status[c] = IF AllStale[c] = Key(Rack, c) THEN status[c]
                        ELSE StatusText(Rack, c, connected')
      BY <2>1, Zenon
    <3>. QED
      BY <3>1, <3>2, <3>3, Zenon
  <2> HIDE DEF d
  <2>5. Tracks(d.cache, Rack)
    BY <1>0, <2>4, KeysTrack
  <2>6. SetDrawn(Drawn(d.cache, d.status, log, Sent(ripe), connected', Commands(ripe)))
    BY <2>2, <2>3, Zenon
  <2>7. DrawsFrom(ripe, d.cache, d.status)
    BY <2>4, <2>5, <2>6, Zenon DEF DrawsFrom
  <2>. QED
    BY <2>7, Zenon
<1>3. CASE ~CallsBack
  <2>1. SetDrawn(Drawn(cache, status, log, Sent(ripe), connected', Commands(ripe)))
    <3> DEFINE b == [cache |-> cache, status |-> status, log |-> log]
    <3>1. SetDrawn(Drawn(b.cache, b.status, b.log, Sent(ripe), connected',
                         Commands(ripe)))
      BY <1>1, <1>3, Zenon DEF TickDraws, Commands
    <3>2. b.cache = cache /\ b.status = status /\ b.log = log
      OBVIOUS
    <3> HIDE DEF b
    <3>. QED
      BY <3>1, <3>2, Zenon
  <2>2. connected' = connected
    BY <1>1, <1>3, TickGives
  <2>3. \A c \in Channels : cache[c] # Stale
          => status[c] = TextOf(cache[c], connected')
    BY <2>2, Zenon DEF ShownInv
  <2>4. Tracks(cache, Rack)
    BY LogInvIs
  <2>5. DrawsFrom(ripe, cache, status)
    BY <2>1, <2>3, <2>4, Zenon DEF DrawsFrom
  <2>. QED
    BY <2>5, Zenon
<1>. QED
  BY <1>2, <1>3

-----------------------------------------------------------------------------
(* Each step keeps the invariants; first the tick. *)
LEMMA CommandsType ==
  ASSUME WindowInv, LogInv, NEW ripe \in BOOLEAN
  PROVE  /\ Commands(ripe) \in [Channels -> Kinds]
         /\ SettlesNow(ripe) => Commands(ripe)[inflight.channel] = inflight.kind
<1>1. last \in [Channels -> Kinds]
  BY DEF LogInv
<1>2. SettlesNow(ripe) => inflight.channel \in Channels /\ inflight.kind \in Kinds
  BY DEF WindowInv, ConsoleTypeOK, TypeOK, SettlesNow, Request, Kinds
<1>. QED
  BY <1>1, <1>2 DEF Commands

LEMMA TickShows ==
  ASSUME WindowInv, ShownInv, LogInv,
         NEW ripe \in BOOLEAN, NEW hot \in BOOLEAN, CardsTick(ripe, hot)
  PROVE  \A c \in Channels :
           /\ cache'[c] = Key(Sent(ripe), c)
           /\ status'[c] = StatusText(Sent(ripe), c, connected')
<1>1. PICK drawn, text : DrawsFrom(ripe, drawn, text)
  BY TickDrawsFrom
<1>2. Sent(ripe) \in RackType
  BY TickGives DEF CardsTick
<1>. QED
  BY <1>1, <1>2, DrawnShows DEF DrawsFrom

(* The log grows by the line of the request that settles, if any.            *)
LEMMA TickLogs ==
  ASSUME WindowInv, ShownInv, LogInv,
         NEW ripe \in BOOLEAN, NEW hot \in BOOLEAN, CardsTick(ripe, hot)
  PROVE  IF ~SettlesNow(ripe)
         THEN log' = log /\ (inflight = NoRequest \/ inflight' # NoRequest)
         ELSE LET line == Append(log, <<inflight.channel, inflight.kind>>) IN
              /\ log' \in {log, line}
              /\ chan[inflight.channel].busy /\ ~Waits(Rack, inflight.channel)
                 => log' = line
              /\ inflight' = NoRequest
<1>1. PICK drawn, text : DrawsFrom(ripe, drawn, text)
  BY TickDrawsFrom
<1>2. Tick(ripe, hot)
  BY DEF CardsTick
<1>3. PICK asked \in RackType : /\ Called(Rack, asked)
                                /\ Sent(ripe) = Poll(asked, ripe, connected')
  BY <1>2, TickGives
<1>4. Sent(ripe) \in RackType /\ connected' \in BOOLEAN
        /\ Called(Sent(ripe), Rack')
  BY <1>2, TickGives
<1>5. PICK sent : sent = Sent(ripe)
  OBVIOUS
<1>6. log' = log \o EachInTurn(Lines(drawn, sent, Commands(ripe)))
  BY <1>1, <1>4, <1>5, DrawnShows DEF DrawsFrom
<1>7. Commands(ripe) \in [Channels -> Kinds] /\ log \in Seq(LogLine)
  BY CommandsType DEF LogInv
<1>8. asked.inflight = inflight /\ inflight' = sent.inflight
  <2>1. asked.inflight = Rack.inflight /\ (Rack').inflight = sent.inflight
    BY <1>3, <1>4, <1>5 DEF Called
  <2>. QED
    BY <2>1 DEF Rack
<1>9. \A c \in Channels : drawn[c] # Stale /\ drawn[c].busy => asked.chan[c].busy
  <2>1. Tracks(drawn, Rack)
    BY <1>1 DEF DrawsFrom
  <2>. QED
    BY <1>3, <2>1 DEF Tracks, Called
<1>10. CASE ~SettlesNow(ripe)
  <2>1. sent.chan = asked.chan
    BY <1>3, <1>4, <1>5, <1>8, <1>10, PollSettlesOne DEF SettlesNow
  <2>2. \A c \in Channels : ~Settles(drawn, sent, c)
    BY <1>9, <2>1 DEF Settles
  <2>3. log' = log
    BY <1>6, <1>7, <2>2, NothingLogged
  <2>4. inflight # NoRequest => inflight' = inflight
    BY <1>3, <1>4, <1>5, <1>8, <1>10, PollSettlesOne DEF SettlesNow
  <2>. QED
    BY <1>10, <2>3, <2>4
<1>11. CASE SettlesNow(ripe)
  <2>1. PICK d : d = inflight.channel
    OBVIOUS
  <2>2. d \in Channels
    BY <1>11, <2>1 DEF WindowInv, ConsoleTypeOK, TypeOK, SettlesNow, Request
  <2>3. /\ ~sent.chan[d].busy
        /\ sent.inflight = NoRequest
        /\ \A c \in Channels : c # d => sent.chan[c] = asked.chan[c]
    <3>1. asked.inflight # NoRequest /\ ripe /\ asked.inflight.channel = d
      BY <1>8, <1>11, <2>1 DEF SettlesNow
    <3>0. PICK up \in BOOLEAN : up = connected'
      BY <1>4
    <3>2. sent = Poll(asked, ripe, up)
      BY <1>3, <1>5, <3>0, Zenon
    <3>3. SettledOnly(asked, Poll(asked, ripe, up))
      BY <3>1, RipeSettlesOnly
    <3>4. SettledOnly(asked, sent)
      BY <3>2, <3>3, Zenon
    <3>. QED
      BY <3>1, <3>4, Zenon DEF SettledOnly
  <2>4. \A c \in Channels : c # d => ~Settles(drawn, sent, c)
    BY <1>9, <2>3 DEF Settles
  <2>5. Commands(ripe)[d] = inflight.kind
    BY <1>11, <2>1, CommandsType
  <2>6. log' = IF Settles(drawn, sent, d)
               THEN Append(log, <<inflight.channel, inflight.kind>>) ELSE log
    <3>1. log' = IF Settles(drawn, sent, d)
                 THEN Append(log, <<d, Commands(ripe)[d]>>) ELSE log
      <4>1. log \o EachInTurn(Lines(drawn, sent, Commands(ripe)))
              = IF Settles(drawn, sent, d)
                THEN Append(log, <<d, Commands(ripe)[d]>>) ELSE log
        BY <1>7, <2>2, <2>4, LinesLogged
      <4>. QED
        BY <1>6, <4>1, Zenon
    <3>. QED
      BY <2>1, <2>5, <3>1, Zenon
  <2>7. chan[d].busy /\ ~Waits(Rack, d) => Settles(drawn, sent, d)
    <3>1. Tracks(drawn, Rack)
      BY <1>1 DEF DrawsFrom
    <3>2. chan[d].busy /\ ~Waits(Rack, d) => drawn[d] # Stale /\ drawn[d].busy
      BY <1>11, <2>1, <2>2, <3>1 DEF Tracks, Rack, SettlesNow
    <3>. QED
      BY <2>3, <3>2 DEF Settles
  <2>. QED
    BY <1>8, <1>11, <2>1, <2>3, <2>6, <2>7
<1>. QED
  BY <1>10, <1>11

LEMMA TickKeepsCards ==
  ASSUME WindowInv, ShownInv, LogInv,
         NEW ripe \in BOOLEAN, NEW hot \in BOOLEAN, CardsTick(ripe, hot)
  PROVE  ShownInv' /\ LogInv'
<1>1. Sent(ripe) \in RackType /\ Called(Sent(ripe), Rack')
  BY TickGives DEF CardsTick
<1>2. \A c \in Channels : /\ cache'[c] = Key(Sent(ripe), c)
                          /\ status'[c] = StatusText(Sent(ripe), c, connected')
  BY TickShows
<1>3. ShownInv'
  <2>1. ASSUME NEW c \in Channels
        PROVE  cache'[c] \in Entry /\ status'[c] = TextOf(cache'[c], connected')
    <3>1. Key(Sent(ripe), c) \in Entry
            /\ StatusText(Sent(ripe), c, connected')
                 = TextOf(Key(Sent(ripe), c), connected')
      BY <1>1, KeyIsEntry
    <3>. QED
      BY <1>2, <3>1, Zenon
  <2>. QED
    BY <2>1 DEF ShownInv
<1>4. Tracks(cache', Rack')
  <2>1. Tracks(cache', Sent(ripe))
    BY <1>1, <1>2, KeysTrack
  <2>. QED
    BY <1>1, <2>1, CallsTrack
<1>5. last' \in [Channels -> Kinds]
  BY CommandsType DEF CardsTick, TickDraws, Commands
<1>6. log' \in Seq(LogLine)
  <2>1. CASE ~SettlesNow(ripe)
    BY <2>1, TickLogs DEF LogInv
  <2>2. CASE SettlesNow(ripe)
    <3>1. <<inflight.channel, inflight.kind>> \in LogLine
      BY <2>2 DEF WindowInv, ConsoleTypeOK, TypeOK, SettlesNow, Request, LogLine,
         Kinds
    <3>2. Append(log, <<inflight.channel, inflight.kind>>) \in Seq(LogLine)
      BY <3>1, AppendProperties DEF LogInv
    <3>. QED
      BY <2>2, <3>2, TickLogs DEF LogInv
  <2>. QED
    BY <2>1, <2>2
<1>7. LogInv'
  BY <1>4, <1>5, <1>6 DEF LogInv, Tracks, Rack
<1>. QED
  BY <1>3, <1>7

(* The clicks. *)
LEMMA ClickKeepsCards ==
  ASSUME WindowInv, ShownInv, LogInv, CardsClick
  PROVE  ShownInv' /\ LogInv' /\ log' = log /\ Called(Rack, Rack')
<1>0. Rack \in RackType /\ Tracks(cache, Rack)
  BY WindowInvIs, LogInvIs DEF Sound
<1>1. Click
  BY DEF CardsClick, Click
<1>2. Called(Rack, Rack') /\ WindowInv'
  BY <1>1, ClickSound
<1>3. last' = last /\ last \in [Channels -> Kinds] /\ log \in Seq(LogLine)
  BY DEF CardsClick, LogInv
<1>4. ASSUME NEW r \in RackType, NEW up, Tracks(cache', Rack'), connected' = up,
             SetDrawn(Drawn(AllStale, status, log, r, up, last))
      PROVE  ShownInv' /\ LogInv' /\ log' = log
  <2>1. /\ \A c \in Channels : /\ cache'[c] = Key(r, c)
                               /\ status'[c] = StatusText(r, c, up)
        /\ log' = log
    BY <1>3, <1>4, CalledBackShows
  <2>2. ASSUME NEW c \in Channels
        PROVE  cache'[c] \in Entry /\ status'[c] = TextOf(cache'[c], connected')
    <3>1. Key(r, c) \in Entry /\ StatusText(r, c, up) = TextOf(Key(r, c), up)
      BY KeyIsEntry
    <3>. QED
      BY <1>4, <2>1, <3>1, Zenon
  <2>3. ShownInv'
    BY <2>2 DEF ShownInv
  <2>. QED
    BY <1>3, <1>4, <2>1, <2>3 DEF LogInv, Tracks, Rack
<1>5. CASE Click /\ connected' = connected /\ UNCHANGED drawVars
  <2>1. cache' = cache /\ status' = status /\ log' = log
    BY <1>5 DEF drawVars
  <2>2. ShownInv'
    BY <1>5, <2>1 DEF ShownInv
  <2>3. Tracks(cache', Rack')
    BY <1>0, <1>2, <2>1, CallsTrack
  <2>. QED
    BY <1>2, <1>3, <2>1, <2>2, <2>3 DEF LogInv, Tracks, Rack
<1>6. CASE ConnectClicked /\ SetDrawn(CalledBack(connected'))
  <2>1. SetDrawn(Drawn(AllStale, status, log, Rack, connected', last))
    BY <1>6 DEF CalledBack
  <2>2. Tracks(cache', Rack')
    <3>1. \A c \in Channels : cache'[c] = Key(Rack, c)
      BY <1>0, <1>3, <2>1, CalledBackShows
    <3>2. Tracks(cache', Rack)
      BY <1>0, <3>1, KeysTrack
    <3>. QED
      BY <1>2, <3>2, CallsTrack
  <2>. QED
    BY <1>0, <1>2, <1>4, <2>1, <2>2
<1>7. CASE /\ \E choice \in {"turned off", "kept running"} : CloseWindow(choice)
           /\ SetDrawn(Drawn(AllStale, status, log, [Rack EXCEPT !.chan = chan'],
                             FALSE, last))
  <2> DEFINE r == [Rack EXCEPT !.chan = chan']
  <2>1. connected' = FALSE
    BY <1>7 DEF CloseWindow
  <2>2. r \in RackType /\ r.chan = (Rack').chan
    <3>1. chan' \in [Channels -> Chan]
      BY <1>2 DEF WindowInv, ConsoleTypeOK, TypeOK
    <3>. QED
      BY <1>0, <3>1 DEF RackType, Rack
  <2>3. SetDrawn(Drawn(AllStale, status, log, r, FALSE, last))
    BY <1>7
  <2> HIDE DEF r
  <2>4. \A c \in Channels : cache'[c] = Key(r, c)
    BY <1>3, <2>2, <2>3, CalledBackShows
  <2>5. \A c \in Channels : cache'[c] # Stale
          /\ cache'[c].busy = (Rack').chan[c].busy
    BY <2>2, <2>4, KeyIsEntry
  <2>6. Tracks(cache', Rack')
    BY <2>5 DEF Tracks
  <2>. QED
    BY <1>2, <1>4, <2>1, <2>2, <2>3, <2>6
<1>. QED
  BY <1>5, <1>6, <1>7 DEF CardsClick

-----------------------------------------------------------------------------
(* The odometer. *)
LEMMA WholeSeconds ==
  ASSUME NEW a \in Nat, NEW b \in Nat, a <= b
  PROVE  /\ a \div SECOND \in Nat
         /\ a \div SECOND <= b \div SECOND
         /\ (a \div SECOND) * SECOND <= a
  BY CardsAssumption

LEMMA Times ==
  ASSUME NEW a \in Nat, NEW b \in Nat
  PROVE  /\ (a + b) * SECOND = a * SECOND + b * SECOND
         /\ a <= b => a * SECOND <= b * SECOND
         /\ a <= a * SECOND
  BY CardsAssumption

(* What has been counted of c by the time t, in ticks and in seconds.        *)
Counted(t, b, s, on) == b * SECOND + IF on THEN t - s ELSE 0
Seconds(t, b, s, on) == b + IF on THEN (t - s) \div SECOND ELSE 0

TimeInv ==
  /\ now \in Nat
  /\ counter \in 0 .. LABEL_TICKS - 1
  /\ \A c \in Channels :
       /\ prev[c] = chan[c].output_on
       /\ since[c] \in 0 .. now
       /\ base[c] \in Nat
       /\ lit[c] \in 0 .. now
       /\ shown[c] \in Nat
       /\ Counted(now, base[c], since[c], prev[c]) <= lit[c]
       /\ shown[c] <= Seconds(now, base[c], since[c], prev[c])
       /\ shown[c] * SECOND <= lit[c]

(* The time of one channel over one tick. *)
Advances(t, t2, was, on, s, b, l, s2, b2, l2) ==
  /\ s2 = IF on /\ ~was THEN t2 ELSE s
  /\ b2 = IF ~on /\ was THEN b + (t2 - s) \div SECOND ELSE b
  /\ l2 = l + IF was THEN t2 - t ELSE 0

LEMMA OneOdometer ==
  ASSUME NEW t \in Nat, NEW t2 \in Nat, t <= t2,
         NEW was \in BOOLEAN, NEW on \in BOOLEAN,
         NEW s \in 0 .. t, NEW b \in Nat, NEW l \in 0 .. t,
         NEW s2, NEW b2, NEW l2, Advances(t, t2, was, on, s, b, l, s2, b2, l2),
         Counted(t, b, s, was) <= l
  PROVE  /\ s2 \in 0 .. t2 /\ b2 \in Nat /\ l2 \in 0 .. t2
         /\ Counted(t2, b2, s2, on) <= l2
         /\ Seconds(t, b, s, was) <= Seconds(t2, b2, s2, on)
         /\ Seconds(t2, b2, s2, on) \in Nat
         /\ Seconds(t2, b2, s2, on) * SECOND <= l2
<1>1. t2 - s \in Nat /\ t - s \in Nat /\ t - s <= t2 - s
  OBVIOUS
<1>2. /\ (t2 - s) \div SECOND \in Nat /\ (t - s) \div SECOND \in Nat
      /\ (t - s) \div SECOND <= (t2 - s) \div SECOND
      /\ ((t2 - s) \div SECOND) * SECOND <= t2 - s
  BY <1>1, WholeSeconds
<1>3. (b + (t2 - s) \div SECOND) * SECOND
        = b * SECOND + ((t2 - s) \div SECOND) * SECOND
  BY <1>2, Times
<1>4. b * SECOND \in Nat
  BY CardsAssumption
<1> DEFINE q == (t2 - s) \div SECOND
           p == (t - s) \div SECOND
           m == b * SECOND
           qs == q * SECOND
<1>5. /\ q \in Nat /\ p \in Nat /\ p <= q /\ qs <= t2 - s /\ qs \in Nat
           /\ m \in Nat
      /\ (b + q) * SECOND = m + qs
  BY <1>2, <1>3, <1>4, CardsAssumption
<1>6. CASE was /\ on
  <2>1. s2 = s /\ b2 = b /\ l2 = l + (t2 - t)
    BY <1>6 DEF Advances
  <2>2. /\ Counted(t, b, s, was) = m + (t - s)
        /\ Counted(t2, b2, s2, on) = m + (t2 - s)
        /\ Seconds(t, b, s, was) = b + p
        /\ Seconds(t2, b2, s2, on) = b + q
    BY <1>6, <2>1, Zenon DEF Counted, Seconds
  <2> HIDE DEF q, p, m, qs
  <2>3. m + (t - s) <= l
    BY <2>2
  <2>4. /\ s2 \in 0 .. t2 /\ b2 \in Nat /\ l2 \in 0 .. t2
        /\ m + (t2 - s) <= l2 /\ b + p <= b + q /\ b + q \in Nat
        /\ m + qs <= l2
    BY <1>5, <2>1, <2>3
  <2>. QED
    BY <1>5, <2>2, <2>4
<1>7. CASE was /\ ~on
  <2>1. s2 = s /\ b2 = b + q /\ l2 = l + (t2 - t)
    BY <1>7 DEF Advances
  <2>2. /\ Counted(t, b, s, was) = m + (t - s)
        /\ Counted(t2, b2, s2, on) = b2 * SECOND + 0
        /\ Seconds(t, b, s, was) = b + p
        /\ Seconds(t2, b2, s2, on) = b2 + 0
    BY <1>7, Zenon DEF Counted, Seconds
  <2>0. b2 * SECOND = m + qs
    BY <1>5, <2>1, Zenon
  <2> HIDE DEF q, p, m, qs
  <2>3. m + (t - s) <= l
    BY <2>2
  <2>4. /\ s2 \in 0 .. t2 /\ b2 \in Nat /\ l2 \in 0 .. t2
        /\ m + qs <= l2 /\ b + p <= b2
    BY <1>5, <2>1, <2>3
  <2>5. b2 + 0 = b2 /\ b2 * SECOND + 0 = m + qs
    BY <1>5, <2>0, <2>4
  <2>. QED
    BY <2>0, <2>2, <2>4, <2>5
<1>8. CASE ~was
  <2>1. b2 = b /\ l2 = l /\ s2 \in 0 .. t2 /\ (on => s2 = t2)
    BY <1>8 DEF Advances
  <2>2. /\ Counted(t, b, s, was) = m + 0
        /\ Seconds(t, b, s, was) = b + 0
    BY <1>8, Zenon DEF Counted, Seconds
  <2>3. /\ Counted(t2, b2, s2, on) = m
        /\ Seconds(t2, b2, s2, on) = b
    <3>1. CASE on
      <4>1. t2 - s2 = 0 /\ 0 \div SECOND = 0
        BY <2>1, <3>1, CardsAssumption
      <4>2. Counted(t2, b2, s2, on) = m + 0 /\ Seconds(t2, b2, s2, on) = b + 0
        BY <2>1, <3>1, <4>1, Zenon DEF Counted, Seconds
      <4>. QED
        BY <1>5, <4>2
    <3>2. CASE ~on
      <4>1. Counted(t2, b2, s2, on) = m + 0 /\ Seconds(t2, b2, s2, on) = b + 0
        BY <2>1, <3>2, Zenon DEF Counted, Seconds
      <4>. QED
        BY <1>5, <4>1
    <3>. QED
      BY <3>1, <3>2
  <2>4. m <= l /\ b + 0 <= b /\ l \in 0 .. t2
    BY <1>5, <2>2
  <2>5. Seconds(t2, b2, s2, on) * SECOND <= l2
    BY <2>1, <2>3, <2>4
  <2>. QED
    BY <2>1, <2>2, <2>3, <2>4, <2>5
<1>. QED
  BY <1>6, <1>7, <1>8

LEMMA TickKeepsTime ==
  ASSUME WindowInv, TimeInv,
         NEW ripe \in BOOLEAN, NEW hot \in BOOLEAN, CardsTick(ripe, hot)
  PROVE  /\ TimeInv'
         /\ \A c \in Channels : /\ shown'[c] >= shown[c]
                                /\ shown'[c] * SECOND <= lit'[c]
<1> DEFINE on == [c \in Channels |-> Sent(ripe).chan[c].output_on]
           total(c) == Seconds(now', base'[c], since'[c], prev'[c])
<1>1. Tick(ripe, hot)
  BY DEF CardsTick
<1>2. Called(Sent(ripe), Rack') /\ Sent(ripe) \in RackType
  BY <1>1, TickGives
<1>3. chan \in [Channels -> Chan]
  BY DEF WindowInv, ConsoleTypeOK, TypeOK
<1>4. /\ now' \in {now + 1, now + 3}
      /\ lit' = [c \in Channels |-> lit[c] + IF chan[c].output_on THEN now' - now
           ELSE 0]
      /\ since' = [c \in Channels |-> SinceNow(on, c)]
      /\ base' = [c \in Channels |-> BaseNow(on, c)]
      /\ prev' = on
      /\ counter' = (counter + 1) % LABEL_TICKS
      /\ shown' = IF counter' = 0
                  THEN [c \in Channels |-> channel_uptime_seconds(on, c)]
                    ELSE shown
  BY Zenon DEF CardsTick, TickCounts
<1>5. now \in Nat /\ now' \in Nat /\ now <= now'
  BY <1>4 DEF TimeInv
<1>6. counter' \in 0 .. LABEL_TICKS - 1
  BY <1>4, CardsAssumption DEF TimeInv
<1>7. ASSUME NEW c \in Channels
      PROVE  /\ prev'[c] = (chan')[c].output_on
             /\ since'[c] \in 0 .. now'
             /\ base'[c] \in Nat
             /\ lit'[c] \in 0 .. now'
             /\ Counted(now', base'[c], since'[c], prev'[c]) <= lit'[c]
             /\ total(c) \in Nat
             /\ total(c) * SECOND <= lit'[c]
             /\ shown[c] <= total(c)
             /\ shown'[c] \in {shown[c], total(c)}
             /\ shown[c] \in Nat
  <2>1. /\ prev[c] = chan[c].output_on /\ since[c] \in 0 .. now /\ base[c] \in Nat
        /\ lit[c] \in 0 .. now /\ shown[c] \in Nat
        /\ Counted(now, base[c], since[c], prev[c]) <= lit[c]
        /\ shown[c] <= Seconds(now, base[c], since[c], prev[c])
    BY DEF TimeInv
  <2>2. prev[c] \in BOOLEAN /\ on[c] \in BOOLEAN
    BY <1>2, <1>3, <2>1 DEF RackType, Chan
  <2>3. prev'[c] = on[c] /\ on[c] = (chan')[c].output_on
    BY <1>2, <1>4 DEF Called, Rack
  <2> HIDE DEF on
  <2>4. /\ since'[c] = IF on[c] /\ ~prev[c] THEN now' ELSE since[c]
        /\ base'[c] = IF ~on[c] /\ prev[c]
                      THEN base[c] + (now' - since[c]) \div SECOND ELSE base[c]
        /\ lit'[c] = lit[c] + IF prev[c] THEN now' - now ELSE 0
    BY <1>4, <2>1, Zenon DEF SinceNow, BaseNow
  <2>5. /\ since'[c] \in 0 .. now' /\ base'[c] \in Nat /\ lit'[c] \in 0 .. now'
        /\ Counted(now', base'[c], since'[c], on[c]) <= lit'[c]
        /\ Seconds(now, base[c], since[c], prev[c])
             <= Seconds(now', base'[c], since'[c], on[c])
        /\ Seconds(now', base'[c], since'[c], on[c]) \in Nat
        /\ Seconds(now', base'[c], since'[c], on[c]) * SECOND <= lit'[c]
    <3>1. PICK t, t2, was, is, s, b, l, s2, b2, l2 :
            /\ t = now /\ t2 = now' /\ was = prev[c] /\ is = on[c]
            /\ s = since[c] /\ b = base[c] /\ l = lit[c]
            /\ s2 = since'[c] /\ b2 = base'[c] /\ l2 = lit'[c]
      OBVIOUS
    <3>2. /\ t \in Nat /\ t2 \in Nat /\ t <= t2
          /\ was \in BOOLEAN /\ is \in BOOLEAN
          /\ s \in 0 .. t /\ b \in Nat /\ l \in 0 .. t
          /\ Counted(t, b, s, was) <= l
      BY <1>5, <2>1, <2>2, <3>1
    <3>3. Advances(t, t2, was, is, s, b, l, s2, b2, l2)
      BY <2>4, <3>1, Zenon DEF Advances
    <3>4. /\ s2 \in 0 .. t2 /\ b2 \in Nat /\ l2 \in 0 .. t2
          /\ Counted(t2, b2, s2, is) <= l2
          /\ Seconds(t, b, s, was) <= Seconds(t2, b2, s2, is)
          /\ Seconds(t2, b2, s2, is) \in Nat
          /\ Seconds(t2, b2, s2, is) * SECOND <= l2
      BY <3>2, <3>3, OneOdometer
    <3>. QED
      BY <3>1, <3>4, Zenon
  <2>6. Seconds(now, base[c], since[c], prev[c]) \in Nat
    <3>1. now - since[c] \in Nat
      BY <1>5, <2>1
    <3>2. (now - since[c]) \div SECOND \in Nat
      BY <3>1, WholeSeconds
    <3>3. CASE prev[c]
      BY <2>1, <3>2, <3>3 DEF Seconds
    <3>4. CASE ~prev[c]
      BY <2>1, <3>4 DEF Seconds
    <3>. QED
      BY <3>3, <3>4
  <2>7. shown[c] <= Seconds(now', base'[c], since'[c], on[c])
    BY <2>1, <2>5, <2>6
  <2>8. shown'[c] \in {shown[c], Seconds(now', base'[c], since'[c], on[c])}
    <3>1. shown' = [d \in Channels |-> channel_uptime_seconds(on, d)] \/ shown'
            = shown
      BY <1>4, Zenon
    <3>2. channel_uptime_seconds(on, c)
            = Seconds(now', base'[c], since'[c], on[c])
      BY DEF channel_uptime_seconds, Seconds
    <3>3. CASE shown' = shown
      BY <3>3
    <3>4. CASE shown' = [d \in Channels |-> channel_uptime_seconds(on, d)]
      <4>1. shown'[c] = channel_uptime_seconds(on, c)
        BY <3>4, Zenon
      <4>. QED
        BY <3>2, <4>1, Zenon
    <3>. QED
      BY <3>1, <3>3, <3>4
  <2>. QED
    BY <2>1, <2>3, <2>5, <2>7, <2>8
<1> HIDE DEF on
<1>8. ASSUME NEW c \in Channels
      PROVE  /\ shown'[c] \in Nat /\ shown'[c] >= shown[c]
             /\ shown'[c] <= total(c)
             /\ shown'[c] * SECOND <= lit'[c]
  <2> DEFINE u == total(c)
  <2>1. /\ u \in Nat /\ shown[c] \in Nat /\ shown[c] <= u /\ u * SECOND <= lit'[c]
        /\ shown'[c] \in {shown[c], u} /\ lit'[c] \in Nat
    BY <1>5, <1>7
  <2>2. shown[c] * SECOND <= u * SECOND /\ shown[c] * SECOND \in Nat
          /\ u * SECOND \in Nat
    BY <2>1, Times, CardsAssumption
  <2> HIDE DEF u
  <2>3. shown'[c] \in Nat /\ shown'[c] >= shown[c] /\ shown'[c] <= u
    BY <2>1
  <2>4. shown'[c] * SECOND <= lit'[c]
    BY <2>1, <2>2
  <2>. QED
    BY <2>3, <2>4 DEF u
<1>9. TimeInv'
  BY <1>5, <1>6, <1>7, <1>8 DEF TimeInv
<1>. QED
  BY <1>8, <1>9

(* A step that lets no time pass keeps it too, if nothing settles. *)
LEMMA NoTimePasses ==
  ASSUME TimeInv, UNCHANGED timeVars,
         \A c \in Channels : (chan')[c].output_on = chan[c].output_on
  PROVE  TimeInv'
  BY DEF TimeInv, timeVars

-----------------------------------------------------------------------------
CardsInv == WindowInv /\ ShownInv /\ LogInv /\ TimeInv

LEMMA CardsStepIsConsoleStep == [CardsNext]_cardVars => [ConsoleNext]_consoleVars
<1>1. CardsClick => Click
  BY DEF CardsClick, Click
<1>. QED
  BY <1>1 DEF CardsNext, CardsTick, ConsoleNext, cardVars

LEMMA CardsInitSound == CardsInit => CardsInv
<1> SUFFICES ASSUME CardsInit PROVE CardsInv
  OBVIOUS
<1>1. WindowInv /\ Rack \in RackType
  BY WindowInitSound, WindowInvIs DEF CardsInit, Sound
<1>2. \A c \in Channels : ~chan[c].busy /\ ~chan[c].output_on
  BY DEF CardsInit, ConsoleInit, RackInit, InitChan
<1>3. tripped = {} /\ connected = FALSE
  BY DEF CardsInit, ConsoleInit
<1>4. \A c \in Channels : cache[c] = Key(Rack, c) /\ status[c] = "STANDBY"
  BY DEF CardsInit
<1>5. ASSUME NEW c \in Channels
      PROVE  cache[c] \in Entry /\ status[c] = TextOf(cache[c], connected)
  <2>1. Key(Rack, c) \in Entry /\ ~Key(Rack, c).tripped /\ ~Key(Rack, c).busy
    BY <1>1, <1>2, <1>3, KeyIsEntry DEF Key, Rack
  <2>2. TextOf(Key(Rack, c), connected) = "STANDBY"
    BY <1>3, <2>1 DEF TextOf
  <2>. QED
    BY <1>4, <2>1, <2>2
<1>6. ShownInv
  BY <1>5 DEF ShownInv
<1>7. LogInv
  <2>1. Tracks(cache, Rack)
    BY <1>1, <1>4, KeysTrack
  <2>2. last \in [Channels -> Kinds] /\ log \in Seq(LogLine)
    BY DEF CardsInit, Kinds
  <2>. QED
    BY <2>1, <2>2, LogInvIs
<1>8. TimeInv
  <2>1. /\ now = 0 /\ counter = 0
        /\ \A c \in Channels : base[c] = 0 /\ since[c] = 0 /\ prev[c] = FALSE
                               /\ shown[c] = 0 /\ lit[c] = 0
    BY DEF CardsInit
  <2>2. \A c \in Channels : /\ Counted(now, base[c], since[c], prev[c]) = 0
                            /\ Seconds(now, base[c], since[c], prev[c]) = 0
    BY <2>1, CardsAssumption DEF Counted, Seconds
  <2>3. \A c \in Channels : prev[c] = chan[c].output_on
    BY <2>1 DEF CardsInit, ConsoleInit, RackInit, InitChan
  <2>. QED
    BY <2>1, <2>2, <2>3, CardsAssumption DEF TimeInv
<1>. QED
  BY <1>1, <1>6, <1>7, <1>8 DEF CardsInv

LEMMA CardsStepSound == CardsInv /\ [CardsNext]_cardVars => CardsInv'
<1> SUFFICES ASSUME CardsInv, [CardsNext]_cardVars PROVE CardsInv'
  OBVIOUS
<1>0. WindowInv /\ ShownInv /\ LogInv /\ TimeInv
  BY DEF CardsInv
<1>1. WindowInv'
  BY <1>0, CardsStepIsConsoleStep, WindowStepSound
<1>2. CASE CardsClick
  <2>1. ShownInv' /\ LogInv' /\ Called(Rack, Rack')
    BY <1>0, <1>2, ClickKeepsCards
  <2>2. \A c \in Channels : (chan')[c].output_on = chan[c].output_on
    BY <2>1 DEF Called, Rack
  <2>3. TimeInv'
    BY <1>0, <1>2, <2>2, NoTimePasses DEF CardsClick
  <2>. QED
    BY <1>1, <2>1, <2>3 DEF CardsInv
<1>3. ASSUME NEW ripe \in BOOLEAN, NEW hot \in BOOLEAN, CardsTick(ripe, hot)
      PROVE  CardsInv'
  BY <1>0, <1>1, <1>3, TickKeepsCards, TickKeepsTime DEF CardsInv
<1>4. CASE \/ PlugChange /\ UNCHANGED <<drawVars, last, timeVars>>
           \/ UNCHANGED cardVars
  <2>1. UNCHANGED <<chanVars, drawVars, last, timeVars>>
    BY <1>4 DEF PlugChange, cardVars, consoleVars
  <2>2. UNCHANGED <<queue, inflight, chan, connected, cache, status, log, last>>
    BY <2>1 DEF chanVars, rackVars, drawVars
  <2>3. ShownInv' /\ LogInv'
    BY <1>0, <2>2 DEF ShownInv, LogInv, Waits, Rack
  <2>4. TimeInv'
    BY <1>0, <2>1, <2>2, NoTimePasses
  <2>. QED
    BY <1>1, <2>3, <2>4 DEF CardsInv
<1>. QED
  BY <1>2, <1>3, <1>4 DEF CardsNext

(* The invariants hold in every state the window can be in. *)
THEOREM CardsStaySound == CardsSpec => []CardsInv
  BY CardsInitSound, CardsStepSound, PTL DEF CardsSpec

(* Type correctness: a card shows one of its texts, and no odometer runs     *)
(* ahead of the clock.                                                       *)
THEOREM CardsTypeCorrect == CardsSpec => []CardsTypeOK
<1>1. CardsInv => CardsTypeOK
  <2> SUFFICES ASSUME CardsInv PROVE CardsTypeOK
    OBVIOUS
  <2>1. WindowInv /\ ShownInv /\ TimeInv
    BY DEF CardsInv
  <2>2. chan \in [Channels -> Chan]
    BY <2>1 DEF WindowInv, ConsoleTypeOK, TypeOK
  <2>3. ASSUME NEW c \in Channels
        PROVE  status[c] \in {"TRIPPED", "SENDING", "STANDBY"} \cup
                             {LEVEL_LABELS[level] : level \in Levels}
    <3>1. cache[c].level \in Levels
      BY <2>1 DEF ShownInv, Entry
    <3>2. status[c] \in {"TRIPPED", "SENDING", "STANDBY",
                         LEVEL_LABELS[cache[c].level]}
      BY <2>1 DEF ShownInv, TextOf
    <3>. QED
      BY <3>1, <3>2
  <2>4. ASSUME NEW c \in Channels
        PROVE  since[c] \in 0 .. now /\ base[c] \in 0 .. now
                 /\ prev[c] \in BOOLEAN
    <3>1. /\ prev[c] = chan[c].output_on /\ since[c] \in 0 .. now
               /\ base[c] \in Nat
          /\ lit[c] \in 0 .. now
          /\ Counted(now, base[c], since[c], prev[c]) <= lit[c] /\ now \in Nat
      BY <2>1 DEF TimeInv
    <3>2. prev[c] \in BOOLEAN
      BY <2>2, <3>1 DEF Chan
    <3>3. base[c] * SECOND \in Nat /\ base[c] <= base[c] * SECOND
      BY <3>1, Times, CardsAssumption
    <3>4. base[c] * SECOND <= Counted(now, base[c], since[c], prev[c])
      <4>1. CASE prev[c]
        <5>1. Counted(now, base[c], since[c], prev[c])
                = base[c] * SECOND + (now - since[c])
          BY <4>1, Zenon DEF Counted
        <5>. QED
          BY <3>1, <3>3, <5>1
      <4>2. CASE ~prev[c]
        <5>1. Counted(now, base[c], since[c], prev[c]) = base[c] * SECOND + 0
          BY <4>2, Zenon DEF Counted
        <5>. QED
          BY <3>3, <5>1
      <4>. QED
        BY <4>1, <4>2
    <3>5. Counted(now, base[c], since[c], prev[c]) \in Int
      BY <3>1, <3>3 DEF Counted
    <3>. QED
      BY <3>1, <3>2, <3>3, <3>4, <3>5
  <2>. QED
    BY <2>1, <2>3, <2>4 DEF CardsTypeOK, WindowInv, ShownInv, TimeInv
<1>. QED
  BY <1>1, CardsStaySound, PTL

(* After every tick each card shows its channel and the link as they are,    *)
(* whatever the tick handled and whatever was clicked before it.             *)
THEOREM CardsShowWhatIs == CardsSpec => CardsCurrent
<1> DEFINE Shows == now' # now =>
             \A c \in Channels :
               \/ c \in tripped' \ tripped
               \/ status'[c] = StatusText([Rack EXCEPT !.chan
                 = chan'], c, connected')
<1>1. CardsInv /\ [CardsNext]_cardVars => Shows
  <2> SUFFICES ASSUME CardsInv, [CardsNext]_cardVars, now' # now,
                      NEW c \in Channels, c \notin tripped' \ tripped
               PROVE  status'[c] = StatusText([Rack EXCEPT !.chan
                        = chan'], c, connected')
    BY Zenon
  <2>1. PICK ripe \in BOOLEAN, hot \in BOOLEAN : CardsTick(ripe, hot)
    BY DEF CardsNext, CardsClick, cardVars, timeVars
  <2>2. WindowInv /\ ShownInv /\ LogInv
    BY DEF CardsInv
  <2>3. status'[c] = StatusText(Sent(ripe), c, connected')
    BY <2>1, <2>2, TickShows
  <2>4. [Rack EXCEPT !.chan = chan'].chan = chan'
    BY DEF Rack
  <2>5. IF hot THEN tripped' = Channels ELSE Rack' = Sent(ripe)
    BY <2>1, <2>2, TickGives DEF CardsTick
  <2>6. CASE hot
    <3>1. c \in tripped
      BY <2>5, <2>6
    <3>. QED
      BY <2>3, <3>1 DEF StatusText
  <2>7. CASE ~hot
    <3>1. chan' = Sent(ripe).chan
      BY <2>5, <2>7 DEF Rack
    <3>2. PICK r : r = [Rack EXCEPT !.chan = chan']
      OBVIOUS
    <3>3. r.chan = Sent(ripe).chan
      BY <2>4, <3>1, <3>2, Zenon
    <3>4. StatusText(r, c, connected') = StatusText(Sent(ripe), c, connected')
      BY <3>3, Zenon DEF StatusText
    <3>. QED
      BY <2>3, <3>2, <3>4, Zenon
  <2>. QED
    BY <2>6, <2>7
<1>2. CardsInv /\ [CardsNext]_cardVars => [Shows]_cardVars
  BY <1>1
<1>. QED
  BY <1>2, CardsStaySound, PTL DEF CardsSpec, CardsCurrent

(* If only one request is pending for the channel of the one on the wire,    *)
(* none waits.                                                               *)
LEMMA LonePending ==
  ASSUME TypeOK, inflight # NoRequest,
         Cardinality(PendingFor(inflight.channel)) = 1
  PROVE  ~Waits(Rack, inflight.channel)
<1> DEFINE S == PendingFor(inflight.channel)
<1>1. queue \in Seq(Request) /\ inflight \in Request
  BY DEF TypeOK
<1>2. Pipeline = <<inflight>> \o queue
  BY DEF Pipeline
<1>3. <<inflight>> \in Seq(Request) /\ Len(<<inflight>>) = 1
  BY <1>1
<1>4. /\ Len(Pipeline) = 1 + Len(queue) /\ Pipeline[1] = inflight
      /\ \A i \in 1 .. Len(queue) : Pipeline[1 + i] = queue[i]
      /\ DOMAIN Pipeline = 1 .. Len(Pipeline)
  BY <1>1, <1>2, <1>3, ConcatProperties
<1>5. Len(queue) \in Nat
  BY <1>1
<1>6. IsFiniteSet(S)
  <2>1. PICK n \in Nat : n = Len(Pipeline)
    BY <1>4, <1>5
  <2>2. IsFiniteSet(1 .. n)
    BY FS_Interval
  <2>3. S \in SUBSET (1 .. n)
    BY <1>4, <2>1 DEF PendingFor
  <2>. QED
    BY <2>2, <2>3, FS_Subset
<1>7. PICK x : S = {x}
  BY <1>6, FS_Singleton
<1>8. ASSUME Waits(Rack, inflight.channel) PROVE FALSE
  <2>1. PICK i \in 1 .. Len(queue) : queue[i].channel = inflight.channel
    BY <1>8 DEF Waits, Rack
  <2>2. 1 \in S /\ 1 + i \in S
    BY <1>4, <1>5, <2>1 DEF PendingFor
  <2>. QED
    BY <1>7, <2>1, <2>2
<1>. QED
  BY <1>8

(* The log is that of the sends that settled: no line but theirs, and none   *)
(* of theirs missing that was alone, whatever the link did meanwhile.        *)
THEOREM LogIsOfSettles == CardsSpec => LogMatchesSettles
<1> DEFINE q == inflight
           line == Append(log, <<q.channel, q.kind>>)
           Logs == IF q = NoRequest \/ inflight' # NoRequest THEN log' = log
                   ELSE /\ log' \in {log, line}
                        /\ chan[q.channel].busy
                             /\ Cardinality(PendingFor(q.channel)) = 1
                           => log' = line
<1>1. CardsInv /\ [CardsNext]_cardVars => Logs
  <2> SUFFICES ASSUME CardsInv, [CardsNext]_cardVars PROVE Logs
    OBVIOUS
  <2>1. WindowInv /\ ShownInv /\ LogInv /\ TypeOK
    BY DEF CardsInv, WindowInv, ConsoleTypeOK
  <2>2. CASE CardsClick
    <3>1. log' = log /\ inflight' = inflight
      BY <2>1, <2>2, ClickKeepsCards DEF Called, Rack
    <3>. QED
      BY <3>1
  <2>3. ASSUME NEW ripe \in BOOLEAN, NEW hot \in BOOLEAN, CardsTick(ripe, hot)
        PROVE  Logs
    <3>1. CASE ~SettlesNow(ripe)
      <4>1. log' = log /\ (inflight = NoRequest \/ inflight' # NoRequest)
        BY <2>1, <2>3, <3>1, TickLogs
      <4>. QED
        BY <4>1
    <3>2. CASE SettlesNow(ripe)
      <4>1. /\ log' \in {log, line}
            /\ chan[q.channel].busy /\ ~Waits(Rack, q.channel) => log' = line
            /\ inflight' = NoRequest
        BY <2>1, <2>3, <3>2, TickLogs
      <4>2. q # NoRequest
        BY <3>2 DEF SettlesNow
      <4>3. Cardinality(PendingFor(q.channel)) = 1 => ~Waits(Rack, q.channel)
        BY <2>1, <4>2, LonePending
      <4>. QED
        BY <4>1, <4>2, <4>3
    <3>. QED
      BY <3>1, <3>2
  <2>4. CASE \/ PlugChange /\ UNCHANGED <<drawVars, last, timeVars>>
             \/ UNCHANGED cardVars
    <3>1. log' = log /\ inflight' = inflight
      BY <2>4 DEF PlugChange, cardVars, consoleVars, chanVars, rackVars, drawVars
    <3>. QED
      BY <3>1
  <2>. QED
    BY <2>2, <2>3, <2>4 DEF CardsNext
<1>2. CardsInv /\ [CardsNext]_cardVars => [Logs]_cardVars
  BY <1>1
<1>. QED
  BY <1>2, CardsStaySound, PTL DEF CardsSpec, LogMatchesSettles

(* An odometer never runs back, and never shows more than the time its       *)
(* channel was on, late ticks and restarted channels included.               *)
THEOREM UptimeNeverLies == CardsSpec => UptimeIsHonest
<1> DEFINE Honest == \A c \in Channels : /\ shown'[c] >= shown[c]
                                         /\ shown'[c] * SECOND <= lit'[c]
<1>1. CardsInv /\ [CardsNext]_cardVars => [Honest]_cardVars
  <2> SUFFICES ASSUME CardsInv, CardsNext PROVE Honest
    OBVIOUS
  <2>1. WindowInv /\ TimeInv
    BY DEF CardsInv
  <2>2. ASSUME NEW ripe \in BOOLEAN, NEW hot \in BOOLEAN, CardsTick(ripe, hot)
        PROVE  Honest
    BY <2>1, <2>2, TickKeepsTime
  <2>3. CASE UNCHANGED timeVars
    <3>1. ASSUME NEW c \in Channels
          PROVE  shown[c] >= shown[c] /\ shown[c] * SECOND <= lit[c]
      BY <2>1 DEF TimeInv
    <3>. QED
      BY <2>3, <3>1 DEF timeVars
  <2>. QED
    BY <2>2, <2>3 DEF CardsNext, CardsClick
<1>. QED
  BY <1>1, CardsStaySound, PTL DEF CardsSpec, UptimeIsHonest
=============================================================================
