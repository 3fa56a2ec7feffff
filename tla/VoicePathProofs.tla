--------------------------- MODULE VoicePathProofs ---------------------------
(***************************************************************************)
(* What is said is heard at most once, and what the playback device plays  *)
(* is never freed, for any number of buffers, chunks, formats and frames.  *)
(***************************************************************************)
EXTENDS VoicePath, FiniteSetTheorems, SequenceTheorems, TLAPS

-----------------------------------------------------------------------------
(***************************************************************************)
(* Sequences.                                                              *)
(***************************************************************************)

\* One more at the end.
LEMMA Appended ==
    ASSUME NEW s \in Seq(Nat), NEW x \in Nat
    PROVE  /\ Append(s, x) \in Seq(Nat)
           /\ ToSet(Append(s, x)) = ToSet(s) \cup {x}
           /\ NoRepeats(s) /\ x \notin ToSet(s) => NoRepeats(Append(s, x))
           /\ InOrder(s) /\ (\A y \in ToSet(s) : y < x) => InOrder(Append(s, x))
<1>1. PICK n \in Nat : n = Len(s) /\ DOMAIN s = 1..n
    OBVIOUS
<1>2. PICK t : t = Append(s, x)
    OBVIOUS
<1>3. /\ t \in Seq(Nat) /\ DOMAIN t = 1..(n + 1)
      /\ t[n + 1] = x /\ \A i \in 1..n : t[i] = s[i]
    BY <1>1, <1>2
<1>4. \A i \in 1..(n + 1) : i = n + 1 \/ i \in 1..n
    OBVIOUS
<1>5. n + 1 \in 1..(n + 1) /\ \A i \in 1..n : i \in 1..(n + 1)
    OBVIOUS
<1>6. ToSet(t) = ToSet(s) \cup {x}
    BY <1>1, <1>3, <1>4, <1>5 DEF ToSet
<1>7. ASSUME NoRepeats(s), x \notin ToSet(s) PROVE NoRepeats(t)
    <2>1. \A i \in 1..n : s[i] # x
        BY <1>1, <1>7 DEF ToSet
    <2> QED BY <1>1, <1>3, <1>4, <1>7, <2>1 DEF NoRepeats
<1>8. ASSUME InOrder(s), \A y \in ToSet(s) : y < x PROVE InOrder(t)
    <2> SUFFICES ASSUME NEW i \in 1..(n + 1), NEW j \in 1..(n + 1), i < j PROVE t[i] < t[j]
        BY <1>3 DEF InOrder
    <2>1. i \in 1..n
        OBVIOUS
    <2>2. CASE j = n + 1
        <3>1. s[i] \in ToSet(s)
            BY <1>1, <2>1 DEF ToSet
        <3> QED BY <1>3, <1>8, <2>1, <2>2, <3>1
    <2>3. CASE j \in 1..n
        BY <1>1, <1>3, <1>8, <2>1, <2>3 DEF InOrder
    <2> QED BY <1>4, <2>2, <2>3
<1> QED BY <1>2, <1>3, <1>6, <1>7, <1>8

\* The first one taken away.
LEMMA TailOf ==
    ASSUME NEW s \in Seq(Nat), s # << >>
    PROVE  /\ Tail(s) \in Seq(Nat) /\ Head(s) \in Nat
           /\ ToSet(s) = ToSet(Tail(s)) \cup {Head(s)}
           /\ NoRepeats(s) => NoRepeats(Tail(s)) /\ Head(s) \notin ToSet(Tail(s))
<1>1. PICK n \in Nat : Len(s) = n + 1 /\ DOMAIN s = 1..(n + 1)
    <2>1. Len(s) - 1 \in Nat /\ Len(s) = (Len(s) - 1) + 1 /\ DOMAIN s = 1..Len(s)
        OBVIOUS
    <2> QED BY <2>1
<1>2. PICK t : t = Tail(s)
    OBVIOUS
<1>3. /\ t \in Seq(Nat) /\ DOMAIN t = 1..n
      /\ Head(s) = s[1] /\ Head(s) \in Nat /\ \A i \in 1..n : t[i] = s[i + 1]
    BY <1>1, <1>2
<1>4. ASSUME NEW x PROVE x \in ToSet(s) <=> x = Head(s) \/ x \in ToSet(t)
    <2>1. ASSUME NEW i \in 1..(n + 1), x = s[i] PROVE x = Head(s) \/ x \in ToSet(t)
        <3>1. CASE i = 1
            BY <1>3, <2>1, <3>1
        <3>2. CASE i # 1
            <4>1. i - 1 \in 1..n /\ (i - 1) + 1 = i
                BY <3>2
            <4>2. t[i - 1] = x
                BY <1>3, <2>1, <4>1
            <4> QED BY <1>3, <4>1, <4>2 DEF ToSet
        <3> QED BY <3>1, <3>2
    <2>2. ASSUME NEW i \in 1..n, x = t[i] PROVE x \in ToSet(s)
        <3>1. i + 1 \in 1..(n + 1) /\ s[i + 1] = x
            BY <1>3, <2>2
        <3> QED BY <1>1, <3>1 DEF ToSet
    <2>3. Head(s) \in ToSet(s)
        <3>1. 1 \in 1..(n + 1)
            OBVIOUS
        <3> QED BY <1>1, <1>3, <3>1 DEF ToSet
    <2> QED BY <1>1, <1>3, <2>1, <2>2, <2>3 DEF ToSet
<1>5. ASSUME NEW i \in 1..n, NEW j \in 1..(n + 1), NoRepeats(s), i + 1 # j PROVE t[i] # s[j]
    <2>1. i + 1 \in 1..(n + 1)
        OBVIOUS
    <2>2. s[i + 1] # s[j]
        BY <1>1, <1>5, <2>1 DEF NoRepeats
    <2> QED BY <1>3, <2>2
<1>6. ToSet(s) = ToSet(t) \cup {Head(s)}
    BY <1>4
<1>7. ASSUME NoRepeats(s) PROVE NoRepeats(t) /\ Head(s) \notin ToSet(t)
    <2>1. ASSUME NEW i \in 1..n PROVE t[i] # Head(s)
        <3>1. 1 \in 1..(n + 1) /\ i + 1 # 1
            OBVIOUS
        <3> QED BY <1>3, <1>5, <1>7, <3>1
    <2>2. ASSUME NEW i \in 1..n, NEW j \in 1..n, i # j PROVE t[i] # t[j]
        <3>1. j + 1 \in 1..(n + 1) /\ i + 1 # j + 1 /\ t[j] = s[j + 1]
            BY <1>3, <2>2
        <3>2. t[i] # s[j + 1]
            BY <1>5, <1>7, <3>1
        <3> QED BY <3>1, <3>2
    <2> QED BY <1>3, <2>1, <2>2 DEF NoRepeats, ToSet
<1> QED BY <1>2, <1>3, <1>6, <1>7

-----------------------------------------------------------------------------
(***************************************************************************)
(* The invariant.                                                          *)
(***************************************************************************)
ChunksOf(line) == {f.chunk : f \in line}

TypeInv ==
    /\ mic \in [held : [1..Buffers -> Nat], queued : Seq(1..Buffers), recorded : Nat]
    /\ sent \in Seq(Nat) /\ playing \in Seq(Nat) /\ heard \in Seq(Nat)
    /\ up \subseteq [chunk : Nat, format : Formats] /\ down \subseteq [chunk : Nat, format : Formats]
    /\ viewer \in [pc : {"loop", "ended", "failed"}, got : Nat]
    /\ speaker \in [open : Formats \cup {Closed}, pending : Seq(Nat), freed : BOOLEAN]

\* The microphone: what is in its buffers was recorded, is in one of them only and
\* has not been sent; as long as the sender keeps up, it is newer than what was.
MicInv ==
    /\ \A b \in 1..Buffers : mic.held[b] <= mic.recorded
    /\ \A x \in ToSet(sent) : x <= mic.recorded
    /\ \A b, c \in Finished : mic.held[b] = mic.held[c] => b = c
    /\ \A b \in Finished : mic.held[b] \notin ToSet(sent)
    /\ NoRepeats(sent)
    /\ lagged \/ (InOrder(sent) /\ \A b \in Finished : \A x \in ToSet(sent) : x < mic.held[b])

\* What was heard of memory that was the speaker's.
Clean == IF speaker.freed THEN << >> ELSE heard

\* A chunk is in one place on its way, once.
WayInv ==
    /\ ChunksOf(up) \cup ChunksOf(down) \cup ToSet(playing) \cup ToSet(Clean) \subseteq ToSet(sent)
    /\ \A f, g \in up : f.chunk = g.chunk => f = g
    /\ \A f, g \in down : f.chunk = g.chunk => f = g
    /\ ChunksOf(up) \cap ChunksOf(down) = {}
    /\ (ChunksOf(up) \cup ChunksOf(down)) \cap (ToSet(playing) \cup ToSet(Clean)) = {}
    /\ ToSet(playing) \cap ToSet(Clean) = {}
    /\ NoRepeats(playing) /\ NoRepeats(Clean)

\* Only a Drop, after the loop, frees what the device still has.
OwnInv ==
    /\ speaker.freed => viewer.pc # "loop" /\ speaker.open = Closed
    /\ ~speaker.freed => ToSet(playing) \subseteq ToSet(speaker.pending)
    /\ speaker.open = Closed => speaker.pending = << >>
    /\ Len(speaker.pending) <= MaxPending

VoiceInv == TypeInv /\ MicInv /\ WayInv /\ OwnInv

\* The invariant holds at the start.
LEMMA VoiceInit == Init => VoiceInv
<1> SUFFICES ASSUME Init PROVE VoiceInv
    OBVIOUS
<1>1. /\ mic.held = [b \in 1..Buffers |-> Nothing] /\ mic.recorded = 0
      /\ mic \in [held : [1..Buffers -> Nat], queued : Seq(1..Buffers), recorded : Nat]
    <2>1. Buffers \in Nat
        BY VoiceAssumption
    <2>2. [b \in 1..Buffers |-> b] \in Seq(1..Buffers)
        BY <2>1
    <2> QED BY <2>2 DEF Init, OpenMic, Nothing
<1>2. /\ sent = << >> /\ playing = << >> /\ heard = << >> /\ Clean = << >>
      /\ speaker = [open |-> Closed, pending |-> << >>, freed |-> FALSE]
      /\ up = {} /\ down = {} /\ viewer = [pc |-> "loop", got |-> 0]
    BY DEF Init, Clean
<1>3. << >> \in Seq(Nat) /\ ToSet(<< >>) = {} /\ NoRepeats(<< >>) /\ InOrder(<< >>)
    BY DEF ToSet, NoRepeats, InOrder
<1>4. TypeInv
    <2>1. viewer \in [pc : {"loop", "ended", "failed"}, got : Nat]
        BY <1>2
    <2>2. up \subseteq [chunk : Nat, format : Formats] /\ down \subseteq [chunk : Nat, format : Formats]
        BY <1>2
    <2>3. /\ sent \in Seq(Nat) /\ playing \in Seq(Nat) /\ heard \in Seq(Nat)
          /\ speaker \in [open : Formats \cup {Closed}, pending : Seq(Nat), freed : BOOLEAN]
        BY <1>2, <1>3
    <2> QED BY <1>1, <2>1, <2>2, <2>3 DEF TypeInv
<1>5. Finished = {}
    BY <1>1 DEF Finished
<1>6. MicInv
    BY <1>1, <1>2, <1>3, <1>5 DEF MicInv, Nothing
<1>7. WayInv
    BY <1>2, <1>3 DEF WayInv, ChunksOf
<1>8. OwnInv
    <2>1. Len(<< >>) = 0 /\ MaxPending \in Nat
        BY VoiceAssumption
    <2> QED BY <1>2, <1>3, <2>1 DEF OwnInv
<1> QED BY <1>4, <1>6, <1>7, <1>8 DEF VoiceInv

\* The steps that touch nothing of this.
LEMMA SameKeeps ==
    ASSUME VoiceInv, UNCHANGED <<mic, lagged, sent, up, down, viewer, speaker, playing, heard>>
    PROVE  VoiceInv'
BY DEF VoiceInv, TypeInv, MicInv, WayInv, OwnInv, Clean, Finished, ChunksOf

\* The device fills a buffer.
LEMMA RecordKeeps ==
    ASSUME VoiceInv, Record
    PROVE  VoiceInv'
<1>1. UNCHANGED <<lagged, sent, up, down, viewer, speaker, playing, heard>>
    BY DEF Record, viewerVars
<1>2. PICK h \in [1..Buffers -> Nat], q \in Seq(1..Buffers), n \in Nat :
        mic = [held |-> h, queued |-> q, recorded |-> n]
    <2>1. /\ mic = [held |-> mic.held, queued |-> mic.queued, recorded |-> mic.recorded]
          /\ mic.held \in [1..Buffers -> Nat] /\ mic.queued \in Seq(1..Buffers) /\ mic.recorded \in Nat
        BY DEF VoiceInv, TypeInv
    <2> QED BY <2>1
<1>3. PICK h2 \in [1..Buffers -> Nat], q2 \in Seq(1..Buffers) :
        /\ mic' = [held |-> h2, queued |-> q2, recorded |-> n + 1]
        /\ \A b \in 1..Buffers : h2[b] = h[b] \/ h2[b] = n + 1
        /\ \A b, c \in 1..Buffers : h2[b] # h[b] /\ h2[c] # h[c] => b = c
    <2>1. CASE q = << >>
        <3>1. mic' = [held |-> h, queued |-> q, recorded |-> n + 1]
            BY <1>2, <2>1 DEF Record
        <3> QED BY <3>1
    <2>2. CASE q # << >>
        <3>1. PICK b \in 1..Buffers : b = Head(q)
            <4>1. PICK S : S = 1..Buffers
                OBVIOUS
            <4>2. q \in Seq(S)
                BY <4>1
            <4>3. Head(q) \in S
                BY <2>2, <4>2
            <4> QED BY <4>1, <4>3
        <3>2. Tail(q) \in Seq(1..Buffers)
            BY <2>2
        <3>3. mic' = [held |-> [h EXCEPT ![b] = n + 1], queued |-> Tail(q), recorded |-> n + 1]
            BY <1>2, <2>2, <3>1 DEF Record
        <3>4. PICK h2 : h2 = [h EXCEPT ![b] = n + 1]
            OBVIOUS
        <3>5. h2 \in [1..Buffers -> Nat] /\ h2[b] = n + 1 /\ \A c \in 1..Buffers : c # b => h2[c] = h[c]
            BY <3>4
        <3>6. \A c \in 1..Buffers : h2[c] = h[c] \/ h2[c] = n + 1
            BY <3>5
        <3>7. \A c, d \in 1..Buffers : h2[c] # h[c] /\ h2[d] # h[d] => c = d
            BY <3>5
        <3> QED BY <3>2, <3>3, <3>4, <3>5, <3>6, <3>7
    <2> QED BY <2>1, <2>2
<1>4. mic.held = h /\ mic.recorded = n /\ mic'.held = h2 /\ mic'.recorded = n + 1
    BY <1>2, <1>3
<1>5. TypeInv'
    <2>1. mic' \in [held : [1..Buffers -> Nat], queued : Seq(1..Buffers), recorded : Nat]
        BY <1>3
    <2> QED BY <1>1, <2>1 DEF VoiceInv, TypeInv
<1>6. /\ \A b \in 1..Buffers : h[b] \in Nat /\ h[b] <= n
      /\ \A x \in ToSet(sent) : x \in Nat /\ x <= n
      /\ \A b, c \in 1..Buffers : h[b] # 0 /\ h[b] = h[c] => b = c
      /\ \A b \in 1..Buffers : h[b] # 0 => h[b] \notin ToSet(sent)
    <2>1. /\ \A b \in 1..Buffers : mic.held[b] <= mic.recorded
          /\ \A x \in ToSet(sent) : x <= mic.recorded
          /\ \A b, c \in Finished : mic.held[b] = mic.held[c] => b = c
          /\ \A b \in Finished : mic.held[b] \notin ToSet(sent)
        BY DEF VoiceInv, MicInv
    <2>2. Finished = {b \in 1..Buffers : h[b] # 0}
        BY <1>4 DEF Finished, Nothing
    <2>3. \A x \in ToSet(sent) : x \in Nat
        BY DEF VoiceInv, TypeInv, ToSet
    <2>4. ASSUME NEW b \in 1..Buffers, NEW c \in 1..Buffers, h[b] # 0, h[b] = h[c] PROVE b = c
        BY <1>4, <2>1, <2>2, <2>4
    <2> QED BY <1>4, <2>1, <2>2, <2>3, <2>4
<1>7. /\ \A b \in 1..Buffers : h2[b] <= n + 1
      /\ \A x \in ToSet(sent) : x <= n + 1
      /\ \A b, c \in 1..Buffers : h2[b] # 0 /\ h2[b] = h2[c] => b = c
      /\ \A b \in 1..Buffers : h2[b] # 0 => h2[b] \notin ToSet(sent)
    <2>1. \A b \in 1..Buffers : h2[b] <= n + 1
        BY <1>3, <1>6
    <2>2. \A x \in ToSet(sent) : x <= n + 1
        BY <1>6
    <2>3. ASSUME NEW b \in 1..Buffers, NEW c \in 1..Buffers, h2[b] # 0, h2[b] = h2[c] PROVE b = c
        BY <1>3, <1>6, <2>3
    <2>4. ASSUME NEW b \in 1..Buffers, h2[b] # 0, h2[b] \in ToSet(sent) PROVE FALSE
        BY <1>3, <1>6, <2>4
    <2> QED BY <2>1, <2>2, <2>3, <2>4
<1>8. ASSUME ~lagged PROVE InOrder(sent) /\ \A b \in 1..Buffers : h2[b] # 0 => \A x \in ToSet(sent) : x < h2[b]
    <2>1. InOrder(sent) /\ \A b \in Finished : \A x \in ToSet(sent) : x < mic.held[b]
        BY <1>8 DEF VoiceInv, MicInv
    <2>2. \A b \in 1..Buffers : h[b] # 0 => \A x \in ToSet(sent) : x < h[b]
        BY <1>4, <2>1 DEF Finished, Nothing
    <2>3. ASSUME NEW b \in 1..Buffers, h2[b] # 0, NEW x \in ToSet(sent) PROVE x < h2[b]
        BY <1>3, <1>6, <2>2, <2>3
    <2> QED BY <2>1, <2>3
<1>9. Finished' = {b \in 1..Buffers : h2[b] # 0}
    BY <1>4 DEF Finished, Nothing
<1>10. MicInv'
    <2>1. lagged' = lagged /\ sent' = sent /\ NoRepeats(sent)
        BY <1>1 DEF VoiceInv, MicInv
    <2>2. lagged \/ (InOrder(sent) /\ \A b \in Finished' : \A x \in ToSet(sent) : x < h2[b])
        BY <1>8, <1>9
    <2> QED BY <1>4, <1>7, <1>9, <2>1, <2>2 DEF MicInv
<1>11. WayInv' /\ OwnInv'
    BY <1>1 DEF VoiceInv, WayInv, OwnInv, Clean, ChunksOf
<1> QED BY <1>5, <1>10, <1>11 DEF VoiceInv

\* A set of numbers that is not empty has a least one.
LEMMA LeastNumber ==
    ASSUME NEW B, B \subseteq Nat, B # {}
    PROVE  \E n \in B : \A m \in B : n <= m
<1>1. IsWellFoundedOn(OpToRel(<, Nat), Nat)
    BY NatLessThanWellFounded
<1>2. PICK n \in B : \A m \in B : ~(<<m, n>> \in OpToRel(<, Nat))
    BY <1>1, WFMin
<1>3. ASSUME NEW m \in B PROVE n <= m
    <2>1. m \in Nat /\ n \in Nat
        OBVIOUS
    <2>2. ~(m < n)
        BY <1>2, <2>1 DEF OpToRel
    <2> QED BY <2>1, <2>2
<1> QED BY <1>3

\* Min is the least one.
LEMMA MinIsLeast ==
    ASSUME NEW B, B \subseteq Nat, B # {}
    PROVE  Min(B) \in B /\ \A y \in B : Min(B) <= y
<1>1. \E x \in B : \A y \in B : x <= y
    BY LeastNumber
<1> QED BY <1>1, Zenon DEF Min

\* A line carries the new frame or loses it.
LEMMA CarriedIs ==
    ASSUME NEW line, NEW f
    PROVE  Carried(line, f) = line \/ Carried(line, f) = line \cup {f}
BY DEF Carried

\* A chunk leaves the microphone for the line.
LEMMA SendKeeps ==
    ASSUME VoiceInv, NEW format \in Formats, SendTick(format)
    PROVE  VoiceInv'
<1>1. UNCHANGED <<down, viewer, speaker, playing, heard, Clean>>
    BY DEF SendTick, viewerVars, Clean
<1>2. PICK h \in [1..Buffers -> Nat], q \in Seq(1..Buffers), n \in Nat :
        mic = [held |-> h, queued |-> q, recorded |-> n]
    <2>1. /\ mic = [held |-> mic.held, queued |-> mic.queued, recorded |-> mic.recorded]
          /\ mic.held \in [1..Buffers -> Nat] /\ mic.queued \in Seq(1..Buffers) /\ mic.recorded \in Nat
        BY DEF VoiceInv, TypeInv
    <2> QED BY <2>1
<1>3. PICK b \in Finished : b = NextBuffer
    <2>1. Finished # {} /\ Finished \subseteq Nat
        BY DEF SendTick, Finished
    <2> QED BY <2>1, MinIsLeast DEF NextBuffer
<1>4. b \in 1..Buffers /\ mic.held = h /\ mic.recorded = n /\ h[b] # 0
    BY <1>2, <1>3 DEF Finished, Nothing
<1>5. PICK x \in Nat : x = h[b]
    BY <1>4
<1>6. PICK h2, q2 : h2 = [h EXCEPT ![b] = 0] /\ q2 = Append(q, b)
    OBVIOUS
<1>7. /\ mic' = [held |-> h2, queued |-> q2, recorded |-> n]
      /\ sent' = Append(sent, x)
      /\ up' = Carried(up, [chunk |-> x, format |-> format])
    BY <1>2, <1>3, <1>4, <1>5, <1>6 DEF SendTick, Requeued, Nothing
<1>8. /\ h2 \in [1..Buffers -> Nat] /\ h2[b] = 0
      /\ \A c \in 1..Buffers : c # b => h2[c] = h[c]
    BY <1>4, <1>6
<1>9. q2 \in Seq(1..Buffers)
    <2>1. PICK S : S = 1..Buffers
        OBVIOUS
    <2>2. q \in Seq(S) /\ b \in S
        BY <1>4, <2>1
    <2>3. Append(q, b) \in Seq(S)
        BY <2>2
    <2> QED BY <1>6, <2>1, <2>3
<1>10. Finished' = Finished \ {b} /\ mic'.held = h2 /\ mic'.recorded = n
    BY <1>4, <1>7, <1>8 DEF Finished, Nothing
<1>11. sent \in Seq(Nat) /\ x \notin ToSet(sent) /\ x <= n
    BY <1>3, <1>4, <1>5 DEF VoiceInv, TypeInv, MicInv
<1>12. sent' \in Seq(Nat) /\ ToSet(sent') = ToSet(sent) \cup {x} /\ NoRepeats(sent')
    BY <1>7, <1>11, Appended DEF VoiceInv, MicInv
<1>13. PICK f \in [chunk : Nat, format : Formats] :
          f.chunk = x /\ (up' = up \/ up' = up \cup {f})
    <2>1. PICK f : f = [chunk |-> x, format |-> format]
        OBVIOUS
    <2>2. f \in [chunk : Nat, format : Formats] /\ f.chunk = x
        BY <2>1
    <2>3. up' = up \/ up' = up \cup {f}
        BY <1>7, <2>1, CarriedIs
    <2> QED BY <2>2, <2>3
<1>14. TypeInv'
    <2>1. mic' \in [held : [1..Buffers -> Nat], queued : Seq(1..Buffers), recorded : Nat]
        BY <1>7, <1>8, <1>9
    <2>2. up' \subseteq [chunk : Nat, format : Formats]
        BY <1>13 DEF VoiceInv, TypeInv
    <2> QED BY <1>1, <1>12, <2>1, <2>2 DEF VoiceInv, TypeInv
<1>15. ASSUME ~lagged' PROVE ~lagged /\ \A c \in Finished : c = b
    <2>1. lagged' = (lagged \/ \E c, d \in Finished : c # d)
        BY DEF SendTick
    <2> QED BY <1>3, <1>15, <2>1, Zenon
<1>16. lagged' \/ (InOrder(sent') /\ \A c \in Finished' : \A y \in ToSet(sent') : y < mic'.held[c])
    <2> SUFFICES ASSUME ~lagged'
                 PROVE  InOrder(sent') /\ \A c \in Finished' : \A y \in ToSet(sent') : y < mic'.held[c]
        OBVIOUS
    <2>1. ~lagged /\ Finished' = {}
        BY <1>10, <1>15
    <2>2. InOrder(sent) /\ \A y \in ToSet(sent) : y < x
        BY <1>3, <1>4, <1>5, <2>1 DEF VoiceInv, MicInv
    <2>3. InOrder(Append(sent, x))
        BY <1>11, <2>2, Appended
    <2> QED BY <1>7, <2>1, <2>3
<1>17. MicInv'
    <2>1. /\ \A c \in 1..Buffers : h[c] <= n
          /\ \A y \in ToSet(sent) : y <= n
          /\ \A c, d \in Finished : h[c] = h[d] => c = d
          /\ \A c \in Finished : h[c] \notin ToSet(sent)
        BY <1>4 DEF VoiceInv, MicInv
    <2>2. \A c \in 1..Buffers : h2[c] <= n
        <3>1. 0 <= n
            OBVIOUS
        <3> QED BY <1>8, <2>1, <3>1
    <2>3. \A y \in ToSet(sent') : y <= n
        BY <1>11, <1>12, <2>1
    <2>4. \A c \in Finished' : c \in Finished /\ c # b /\ c \in 1..Buffers /\ h2[c] = h[c]
        BY <1>8, <1>10 DEF Finished
    <2>5. \A c, d \in Finished' : h2[c] = h2[d] => c = d
        BY <2>1, <2>4
    <2>6. \A c \in Finished' : h2[c] \notin ToSet(sent')
        <3> SUFFICES ASSUME NEW c \in Finished' PROVE h[c] # x /\ h[c] \notin ToSet(sent)
            BY <1>12, <2>4
        <3> QED BY <1>3, <1>5, <2>1, <2>4
    <2> QED BY <1>10, <1>12, <1>16, <2>2, <2>3, <2>5, <2>6 DEF MicInv
<1>18. WayInv'
    <2>1. /\ ChunksOf(up) \cup ChunksOf(down) \cup ToSet(playing) \cup ToSet(Clean) \subseteq ToSet(sent)
          /\ \A d, g \in up : d.chunk = g.chunk => d = g
          /\ \A d, g \in down : d.chunk = g.chunk => d = g
          /\ ChunksOf(up) \cap ChunksOf(down) = {}
          /\ (ChunksOf(up) \cup ChunksOf(down)) \cap (ToSet(playing) \cup ToSet(Clean)) = {}
          /\ ToSet(playing) \cap ToSet(Clean) = {}
          /\ NoRepeats(playing) /\ NoRepeats(Clean)
        BY DEF VoiceInv, WayInv
    <2>2. ChunksOf(up') \subseteq ChunksOf(up) \cup {x}
        BY <1>13 DEF ChunksOf
    <2>3. \A g \in up : g.chunk \in ChunksOf(up)
        BY DEF ChunksOf
    <2>4. \A d, g \in up' : d.chunk = g.chunk => d = g
        BY <1>11, <1>13, <2>1, <2>3
    <2>5. ChunksOf(down)' = ChunksOf(down) /\ ChunksOf(up)' = ChunksOf(up')
        BY <1>1 DEF ChunksOf
    <2>6. /\ ChunksOf(up') \cup ChunksOf(down) \cup ToSet(playing) \cup ToSet(Clean) \subseteq ToSet(sent')
          /\ ChunksOf(up') \cap ChunksOf(down) = {}
          /\ (ChunksOf(up') \cup ChunksOf(down)) \cap (ToSet(playing) \cup ToSet(Clean)) = {}
        <3>1. x \notin ChunksOf(down) /\ x \notin ToSet(playing) /\ x \notin ToSet(Clean)
            BY <1>11, <2>1, Zenon
        <3>2. ChunksOf(up') \cup ChunksOf(down) \cup ToSet(playing) \cup ToSet(Clean) \subseteq ToSet(sent')
            BY <1>12, <2>1, <2>2
        <3>3. ChunksOf(up') \cap ChunksOf(down) = {}
            BY <2>1, <2>2, <3>1
        <3>4. (ChunksOf(up') \cup ChunksOf(down)) \cap (ToSet(playing) \cup ToSet(Clean)) = {}
            BY <2>1, <2>2, <3>1
        <3> QED BY <3>2, <3>3, <3>4
    <2> QED BY <1>1, <2>1, <2>4, <2>5, <2>6 DEF WayInv
<1>19. OwnInv'
    BY <1>1 DEF VoiceInv, OwnInv
<1> QED BY <1>14, <1>17, <1>18, <1>19 DEF VoiceInv

\* Frames move on from one line to the other, or are lost.
LEMMA LinesKeep ==
    ASSUME VoiceInv, UNCHANGED <<senderVars, viewerVars>>,
           up' \subseteq up, down' \subseteq down \cup (up \ up')
    PROVE  VoiceInv'
<1>1. UNCHANGED <<mic, lagged, sent, viewer, speaker, playing, heard, Clean>>
    BY DEF senderVars, viewerVars, Clean
<1>2. TypeInv'
    BY <1>1 DEF VoiceInv, TypeInv
<1>3. MicInv' /\ OwnInv'
    BY <1>1 DEF VoiceInv, MicInv, OwnInv, Finished
<1>4. /\ ChunksOf(up) \cup ChunksOf(down) \cup ToSet(playing) \cup ToSet(Clean) \subseteq ToSet(sent)
      /\ \A d, g \in up : d.chunk = g.chunk => d = g
      /\ \A d, g \in down : d.chunk = g.chunk => d = g
      /\ ChunksOf(up) \cap ChunksOf(down) = {}
      /\ (ChunksOf(up) \cup ChunksOf(down)) \cap (ToSet(playing) \cup ToSet(Clean)) = {}
    BY DEF VoiceInv, WayInv
<1>5. ChunksOf(up') \subseteq ChunksOf(up) /\ ChunksOf(down') \subseteq ChunksOf(up) \cup ChunksOf(down)
    BY DEF ChunksOf
<1>6. \A g \in up : \A d \in down : g.chunk # d.chunk
    BY <1>4 DEF ChunksOf
<1>7. ChunksOf(up') \cap ChunksOf(down') = {}
    BY <1>4, <1>6 DEF ChunksOf
<1>8. \A d, g \in down' : d.chunk = g.chunk => d = g
    BY <1>4, <1>6
<1>9. \A d, g \in up' : d.chunk = g.chunk => d = g
    BY <1>4
<1>10. /\ ChunksOf(up') \cup ChunksOf(down') \cup ToSet(playing) \cup ToSet(Clean) \subseteq ToSet(sent)
       /\ (ChunksOf(up') \cup ChunksOf(down')) \cap (ToSet(playing) \cup ToSet(Clean)) = {}
    BY <1>4, <1>5, Zenon
<1>11. ChunksOf(down)' = ChunksOf(down') /\ ChunksOf(up)' = ChunksOf(up')
    BY DEF ChunksOf
<1>12. WayInv'
    BY <1>1, <1>7, <1>8, <1>9, <1>10, <1>11 DEF VoiceInv, WayInv
<1> QED BY <1>2, <1>3, <1>12 DEF VoiceInv

\* A part of a sequence.
LEMMA PartOf ==
    ASSUME NEW p \in Seq(Nat), NEW n \in Nat, n = Len(p), NEW a \in Nat, a >= 1, a <= n
    PROVE  /\ SubSeq(p, a, n) \in Seq(Nat) /\ Len(SubSeq(p, a, n)) = n - a + 1
           /\ \A i \in 1..(n - a + 1) : SubSeq(p, a, n)[i] = p[a + i - 1]
<1>1. SubSeq(p, a, n) \in Seq(Nat)
    OBVIOUS
<1>2. Len(SubSeq(p, a, n)) = n - a + 1
    OBVIOUS
<1>3. \A i \in 1..(n - a + 1) : SubSeq(p, a, n)[i] = p[a + i - 1]
    BY SMTT(30)
<1> QED BY <1>1, <1>2, <1>3

\* What the speaker still holds before it plays another chunk.
LEMMA BeforePlayHolds ==
    ASSUME VoiceInv, viewer.pc = "loop", NEW format, NEW before, before = BeforePlay(format)
    PROVE  /\ before.pending \in Seq(Nat) /\ before.playing \in Seq(Nat)
           /\ before.playing = playing \/ before.playing = << >>
           /\ ToSet(before.playing) \subseteq ToSet(before.pending)
           /\ Len(before.pending) < MaxPending
           /\ speaker.open # format => before.pending = << >>
<1>1. PICK m \in Nat \ {0} : m = MaxPending
    BY VoiceAssumption
<1>2. PICK p \in Seq(Nat) : p = speaker.pending
    BY DEF VoiceInv, TypeInv
<1>3. PICK n \in Nat : n = Len(p) /\ DOMAIN p = 1..n
    OBVIOUS
<1>4. << >> \in Seq(Nat) /\ ToSet(<< >>) = {} /\ Len(<< >>) = 0
    BY DEF ToSet
<1>5. ASSUME before = Reset
      PROVE  /\ before.pending \in Seq(Nat) /\ before.playing \in Seq(Nat)
             /\ before.playing = playing \/ before.playing = << >>
             /\ ToSet(before.playing) \subseteq ToSet(before.pending)
             /\ Len(before.pending) < MaxPending
    <2>1. before.pending = << >> /\ before.playing = << >>
        BY <1>5 DEF Reset
    <2>2. 0 < m
        OBVIOUS
    <2> QED BY <1>1, <1>4, <2>1, <2>2
<1>6. ASSUME before = Reclaimed, ~(Len(Reclaimed.pending) >= MaxPending)
      PROVE  /\ before.pending \in Seq(Nat) /\ before.playing \in Seq(Nat)
             /\ before.playing = playing \/ before.playing = << >>
             /\ ToSet(before.playing) \subseteq ToSet(before.pending)
             /\ Len(before.pending) < MaxPending
    <2>1. PICK W : W = {i \in DOMAIN p : ~IsDone(p[i])}
        OBVIOUS
    <2>2. PICK first \in Nat :
            /\ first >= 1 /\ first <= n + 1
            /\ first = (IF W = {} THEN Len(p) + 1 ELSE Min(W))
            /\ \A i \in W : first <= i
        <3>1. W \subseteq 1..n /\ W \subseteq Nat
            BY <1>3, <2>1
        <3>2. CASE W = {}
            BY <1>3, <3>2
        <3>3. CASE W # {}
            <4>1. PICK k \in W : k = Min(W) /\ \A i \in W : k <= i
                BY <3>1, <3>3, MinIsLeast
            <4>2. k \in Nat /\ k >= 1 /\ k <= n + 1
                BY <3>1
            <4> QED BY <3>3, <4>1, <4>2
        <3> QED BY <3>2, <3>3
    <2>3. Reclaimed = [pending |-> SubSeq(p, first, Len(p)), playing |-> playing]
        BY <1>2, <2>1, <2>2 DEF Reclaimed
    <2>4. PICK s : s = SubSeq(p, first, n)
        OBVIOUS
    <2>5. before.pending = s /\ before.playing = playing
        BY <1>3, <1>6, <2>3, <2>4
    <2>6. /\ s \in Seq(Nat) /\ Len(s) = n - first + 1
          /\ \A i \in 1..(n - first + 1) : s[i] = p[first + i - 1]
        <3>0. first >= 1 /\ (first <= n \/ first = n + 1) /\ n = Len(p)
            BY <1>3, <2>2
        <3>1. CASE first <= n
            <4>1. /\ SubSeq(p, first, n) \in Seq(Nat) /\ Len(SubSeq(p, first, n)) = n - first + 1
                  /\ \A i \in 1..(n - first + 1) : SubSeq(p, first, n)[i] = p[first + i - 1]
                BY <3>0, <3>1, PartOf
            <4> QED BY <2>4, <4>1
        <3>2. CASE first = n + 1
            <4>1. SubSeq(p, first, n) = << >>
                BY <3>2, SubSeqEmpty
            <4>2. n - first + 1 = 0 /\ 1..(n - first + 1) = {}
                BY <3>2
            <4> QED BY <2>4, <4>1, <4>2
        <3> QED BY <3>0, <3>1, <3>2
    <2>7. ASSUME NEW x \in ToSet(playing) PROVE x \in ToSet(s)
        <3>1. x \in ToSet(p)
            BY <1>2 DEF VoiceInv, OwnInv
        <3>2. PICK i \in 1..n : p[i] = x
            BY <1>3, <3>1 DEF ToSet
        <3>3. ~IsDone(x)
            BY DEF IsDone, ToSet
        <3>4. first <= i
            BY <1>3, <2>1, <2>2, <3>2, <3>3
        <3>5. i - first + 1 \in 1..(n - first + 1) /\ first + (i - first + 1) - 1 = i
            BY <3>4
        <3>6. s[i - first + 1] = x
            BY <2>6, <3>2, <3>5
        <3>7. DOMAIN s = 1..(n - first + 1)
            BY <2>6
        <3> QED BY <3>5, <3>6, <3>7 DEF ToSet
    <2>8. Len(s) < m
        <3>1. ~(Len(s) >= m)
            BY <1>1, <1>6, <2>5
        <3>2. Len(s) \in Nat
            BY <2>6
        <3> QED BY <3>1, <3>2
    <2> QED BY <1>1, <2>5, <2>6, <2>7, <2>8 DEF VoiceInv, TypeInv
<1>7. speaker.open # format => before = Reset
    BY DEF BeforePlay
<1>8. before = Reset \/ (before = Reclaimed /\ ~(Len(Reclaimed.pending) >= MaxPending))
    BY DEF BeforePlay
<1>9. Reset.pending = << >>
    BY DEF Reset
<1>10. CASE before = Reset
    BY <1>5, <1>9, <1>10
<1>11. CASE before # Reset
    BY <1>6, <1>7, <1>8, <1>11
<1> QED BY <1>10, <1>11

\* A frame comes out of the line and its chunk is given to the device.
LEMMA ReceiveKeeps ==
    ASSUME VoiceInv, NEW f, Receive(f)
    PROVE  VoiceInv'
<1>1. /\ f \in down /\ down' = down \ {f} /\ viewer.pc = "loop"
      /\ viewer' = [viewer EXCEPT !.got = @ + 1]
      /\ UNCHANGED <<mic, sender, lagged, sent, gate, up, heard>>
    BY DEF Receive, senderVars
<1>2. PICK x \in Nat : x = f.chunk /\ f.format \in Formats
    BY <1>1 DEF VoiceInv, TypeInv
<1>3. PICK before : before = BeforePlay(f.format)
    OBVIOUS
<1>4. PICK pend \in Seq(Nat), play \in Seq(Nat) :
        /\ pend = before.pending /\ play = before.playing
        /\ play = playing \/ play = << >>
        /\ ToSet(play) \subseteq ToSet(pend)
        /\ Len(pend) < MaxPending
    BY <1>1, <1>3, BeforePlayHolds
<1>5. /\ playing' = Append(play, x)
      /\ speaker' = [open |-> f.format, pending |-> Append(pend, x), freed |-> FALSE]
      /\ speaker.freed = FALSE
    <2>1. /\ speaker.freed = FALSE
          /\ speaker \in [open : Formats \cup {Closed}, pending : Seq(Nat), freed : BOOLEAN]
        BY <1>1 DEF VoiceInv, OwnInv, TypeInv
    <2>2. /\ playing' = Append(play, x)
          /\ speaker' = [speaker EXCEPT !.open = f.format, !.pending = Append(pend, x)]
        BY <1>2, <1>3, <1>4 DEF Receive, Play
    <2> QED BY <2>1, <2>2
<1>6. PICK q : q = Append(pend, x)
    OBVIOUS
<1>7. /\ speaker'.pending = q /\ speaker'.freed = FALSE /\ speaker'.open = f.format
      /\ UNCHANGED Clean
    BY <1>1, <1>5, <1>6 DEF Clean
<1>8. /\ q \in Seq(Nat) /\ ToSet(q) = ToSet(pend) \cup {x} /\ Len(q) = Len(pend) + 1
    BY <1>6, Appended
<1>9. /\ playing' \in Seq(Nat) /\ ToSet(playing') = ToSet(play) \cup {x}
      /\ NoRepeats(play) /\ x \notin ToSet(play) => NoRepeats(playing')
    BY <1>5, Appended
<1>10. ToSet(play) \subseteq ToSet(playing) /\ NoRepeats(play)
    <2>1. ToSet(<< >>) = {} /\ NoRepeats(<< >>)
        BY DEF ToSet, NoRepeats
    <2> QED BY <1>4, <2>1 DEF VoiceInv, WayInv
<1>11. viewer'.pc = "loop" /\ viewer' \in [pc : {"loop", "ended", "failed"}, got : Nat]
    <2>1. viewer \in [pc : {"loop", "ended", "failed"}, got : Nat]
        BY DEF VoiceInv, TypeInv
    <2> QED BY <1>1, <2>1, SMTT(30)
<1>12. TypeInv'
    <2>1. speaker' \in [open : Formats \cup {Closed}, pending : Seq(Nat), freed : BOOLEAN]
        BY <1>2, <1>5, <1>6, <1>8
    <2> QED BY <1>1, <1>9, <1>11, <2>1 DEF VoiceInv, TypeInv
<1>13. MicInv'
    BY <1>1 DEF VoiceInv, MicInv, Finished
<1>14. OwnInv'
    <2>1. Len(q) <= MaxPending
        BY <1>4, <1>8, VoiceAssumption
    <2>2. ToSet(playing') \subseteq ToSet(q)
        BY <1>4, <1>8, <1>9
    <2>3. f.format # Closed
        BY <1>2, VoiceAssumption
    <2> QED BY <1>7, <1>11, <2>1, <2>2, <2>3 DEF OwnInv
<1>15. WayInv'
    <2>1. /\ ChunksOf(up) \cup ChunksOf(down) \cup ToSet(playing) \cup ToSet(Clean) \subseteq ToSet(sent)
          /\ \A d, g \in up : d.chunk = g.chunk => d = g
          /\ \A d, g \in down : d.chunk = g.chunk => d = g
          /\ ChunksOf(up) \cap ChunksOf(down) = {}
          /\ (ChunksOf(up) \cup ChunksOf(down)) \cap (ToSet(playing) \cup ToSet(Clean)) = {}
          /\ ToSet(playing) \cap ToSet(Clean) = {}
          /\ NoRepeats(Clean)
        BY DEF VoiceInv, WayInv
    <2>2. x \in ChunksOf(down)
        BY <1>1, <1>2 DEF ChunksOf
    <2>3. ChunksOf(down') \subseteq ChunksOf(down) /\ x \notin ChunksOf(down')
        BY <1>1, <1>2, <2>1 DEF ChunksOf
    <2>4. x \notin ChunksOf(up) /\ x \notin ToSet(playing) /\ x \notin ToSet(Clean) /\ x \in ToSet(sent)
        BY <2>1, <2>2
    <2>5. x \notin ToSet(play)
        BY <1>10, <2>4
    <2>6. ChunksOf(up) \cup ChunksOf(down') \cup ToSet(playing') \cup ToSet(Clean) \subseteq ToSet(sent)
        BY <1>9, <1>10, <2>1, <2>3, <2>4
    <2>7. ChunksOf(up) \cap ChunksOf(down') = {}
        BY <2>1, <2>3
    <2>8. (ChunksOf(up) \cup ChunksOf(down')) \cap (ToSet(playing') \cup ToSet(Clean)) = {}
        BY <1>9, <1>10, <2>1, <2>3, <2>4
    <2>9. ToSet(playing') \cap ToSet(Clean) = {}
        BY <1>9, <1>10, <2>1, <2>4
    <2>10. \A d, g \in down' : d.chunk = g.chunk => d = g
        BY <1>1, <2>1
    <2>11. ChunksOf(down)' = ChunksOf(down') /\ ChunksOf(up)' = ChunksOf(up)
        BY <1>1 DEF ChunksOf
    <2> QED BY <1>1, <1>7, <1>9, <1>10, <2>1, <2>5, <2>6, <2>7, <2>8, <2>9, <2>10, <2>11 DEF WayInv
<1> QED BY <1>12, <1>13, <1>14, <1>15 DEF VoiceInv

\* Buffers are taken back, or all of them freed, without another one lent.
LEMMA TakenKeeps ==
    ASSUME VoiceInv, UNCHANGED <<mic, lagged, sent, up, down, heard>>,
           viewer' \in [pc : {"loop", "ended", "failed"}, got : Nat],
           playing' = playing \/ playing' = << >>,
           speaker' \in [open : Formats \cup {Closed}, pending : Seq(Nat), freed : BOOLEAN],
           speaker'.freed \/ speaker'.freed = speaker.freed,
           OwnInv'
    PROVE  VoiceInv'
<1>1. << >> \in Seq(Nat) /\ ToSet(<< >>) = {} /\ NoRepeats(<< >>)
    BY DEF ToSet, NoRepeats
<1>2. TypeInv'
    BY <1>1 DEF VoiceInv, TypeInv
<1>3. MicInv'
    BY DEF VoiceInv, MicInv, Finished
<1>4. Clean' = Clean \/ Clean' = << >>
    BY DEF Clean
<1>5. WayInv'
    <2>1. /\ ToSet(playing') \subseteq ToSet(playing) /\ NoRepeats(playing')
          /\ ToSet(Clean') \subseteq ToSet(Clean) /\ NoRepeats(Clean')
        BY <1>1, <1>4 DEF VoiceInv, WayInv
    <2>2. /\ ChunksOf(up) \cup ChunksOf(down) \cup ToSet(playing) \cup ToSet(Clean) \subseteq ToSet(sent)
          /\ (ChunksOf(up) \cup ChunksOf(down)) \cap (ToSet(playing) \cup ToSet(Clean)) = {}
          /\ ToSet(playing) \cap ToSet(Clean) = {}
        BY DEF VoiceInv, WayInv
    <2>3. /\ ChunksOf(up) \cup ChunksOf(down) \cup ToSet(playing') \cup ToSet(Clean') \subseteq ToSet(sent)
          /\ (ChunksOf(up) \cup ChunksOf(down)) \cap (ToSet(playing') \cup ToSet(Clean')) = {}
          /\ ToSet(playing') \cap ToSet(Clean') = {}
        BY <2>1, <2>2
    <2> QED BY <2>1, <2>3 DEF VoiceInv, WayInv, ChunksOf
<1> QED BY <1>2, <1>3, <1>5 DEF VoiceInv

\* The loop ends; what play did before it failed is kept.
LEMMA EndsKeep ==
    ASSUME VoiceInv, NEW how \in {"ended", "failed"}, viewer.pc = "loop", ViewerEnds(how),
           UNCHANGED <<senderVars, gate, up, down, heard>>,
           UNCHANGED <<speaker, playing>> \/ \E f \in down : PlayFails(f)
    PROVE  VoiceInv'
<1>1. UNCHANGED <<mic, lagged, sent, up, down, heard>>
    BY DEF senderVars
<1>2. viewer' \in [pc : {"loop", "ended", "failed"}, got : Nat] /\ viewer'.pc # "loop"
    BY DEF VoiceInv, TypeInv, ViewerEnds
<1>3. speaker \in [open : Formats \cup {Closed}, pending : Seq(Nat), freed : BOOLEAN]
    BY DEF VoiceInv, TypeInv
<1>4. CASE UNCHANGED <<speaker, playing>>
    <2>1. OwnInv'
        BY <1>2, <1>4 DEF VoiceInv, OwnInv
    <2> QED BY <1>1, <1>2, <1>3, <1>4, <2>1, TakenKeeps
<1>5. ASSUME NEW f \in down, NEW before, before = BeforePlay(f.format),
             speaker' = [speaker EXCEPT !.open = IF @ = f.format THEN @ ELSE Closed,
                                        !.pending = before.pending],
             playing' = before.playing
      PROVE  VoiceInv'
    <2>1. /\ before.pending \in Seq(Nat)
          /\ before.playing = playing \/ before.playing = << >>
          /\ ToSet(before.playing) \subseteq ToSet(before.pending)
          /\ Len(before.pending) < MaxPending
          /\ speaker.open # f.format => before.pending = << >>
        BY <1>5, BeforePlayHolds
    <2>2. speaker.freed = FALSE
        BY <1>3 DEF VoiceInv, OwnInv
    <2>3. f.format # Closed
        BY <1>5, VoiceAssumption DEF VoiceInv, TypeInv
    <2>4. PICK o \in Formats \cup {Closed} : o = IF speaker.open = f.format THEN speaker.open ELSE Closed
        BY <1>3
    <2>5. speaker' = [open |-> o, pending |-> before.pending, freed |-> FALSE]
        BY <1>3, <1>5, <2>2, <2>4
    <2>6. Len(before.pending) <= MaxPending
        <3>1. Len(before.pending) \in Nat /\ MaxPending \in Nat
            BY <2>1, VoiceAssumption
        <3> QED BY <2>1, <3>1
    <2>7. /\ speaker'.open = o /\ speaker'.pending = before.pending /\ speaker'.freed = FALSE
          /\ speaker' \in [open : Formats \cup {Closed}, pending : Seq(Nat), freed : BOOLEAN]
        BY <2>1, <2>5
    <2>8. o = Closed => before.pending = << >>
        BY <2>1, <2>3, <2>4
    <2>9. OwnInv'
        BY <1>5, <2>1, <2>6, <2>7, <2>8 DEF OwnInv
    <2>10. playing' = playing \/ playing' = << >>
        BY <1>5, <2>1
    <2> QED BY <1>1, <1>2, <2>2, <2>7, <2>9, <2>10, TakenKeeps
<1> QED BY <1>4, <1>5 DEF PlayFails

\* The speaker is dropped.
LEMMA DropKeeps ==
    ASSUME VoiceInv, DropSpeaker
    PROVE  VoiceInv'
<1>1. UNCHANGED <<mic, lagged, sent, up, down, heard, viewer>> /\ viewer.pc # "loop"
    BY DEF DropSpeaker, senderVars
<1>2. /\ speaker \in [open : Formats \cup {Closed}, pending : Seq(Nat), freed : BOOLEAN]
      /\ viewer \in [pc : {"loop", "ended", "failed"}, got : Nat]
    BY DEF VoiceInv, TypeInv
<1>3. << >> \in Seq(Nat) /\ ToSet(<< >>) = {} /\ Len(<< >>) = 0 /\ 0 <= MaxPending
    BY VoiceAssumption DEF ToSet
<1>4. CASE playing' = << >> /\ speaker' = [speaker EXCEPT !.open = Closed, !.pending = << >>]
    <2>1. speaker' = [open |-> Closed, pending |-> << >>, freed |-> speaker.freed]
        BY <1>2, <1>4
    <2>2. OwnInv'
        BY <1>1, <1>3, <1>4, <2>1 DEF OwnInv
    <2>3. speaker' \in [open : Formats \cup {Closed}, pending : Seq(Nat), freed : BOOLEAN]
        BY <1>2, <1>3, <2>1
    <2> QED BY <1>1, <1>2, <1>4, <2>1, <2>2, <2>3, TakenKeeps
<1>5. CASE playing' = playing /\ speaker' = [open |-> Closed, pending |-> << >>, freed |-> TRUE]
    <2>1. OwnInv'
        BY <1>1, <1>3, <1>5 DEF OwnInv
    <2>2. speaker' \in [open : Formats \cup {Closed}, pending : Seq(Nat), freed : BOOLEAN]
        BY <1>3, <1>5
    <2> QED BY <1>1, <1>2, <1>5, <2>1, <2>2, TakenKeeps
<1> QED BY <1>4, <1>5 DEF DropSpeaker, Reset

\* The device comes to the end of a chunk.
LEMMA PlayOutKeeps ==
    ASSUME VoiceInv, PlayOut
    PROVE  VoiceInv'
<1>1. /\ UNCHANGED <<mic, lagged, sent, up, down, viewer, speaker>>
      /\ playing # << >> /\ playing' = Tail(playing)
      /\ heard' = Append(heard, IF speaker.freed THEN Nothing ELSE Head(playing))
    BY DEF PlayOut, senderVars
<1>2. PICK x : x = Head(playing)
    OBVIOUS
<1>3. /\ playing' \in Seq(Nat) /\ x \in Nat /\ ToSet(playing) = ToSet(playing') \cup {x}
      /\ NoRepeats(playing') /\ x \notin ToSet(playing')
    BY <1>1, <1>2, TailOf DEF VoiceInv, TypeInv, WayInv
<1>4. /\ ChunksOf(up) \cup ChunksOf(down) \cup ToSet(playing) \cup ToSet(Clean) \subseteq ToSet(sent)
      /\ (ChunksOf(up) \cup ChunksOf(down)) \cap (ToSet(playing) \cup ToSet(Clean)) = {}
      /\ ToSet(playing) \cap ToSet(Clean) = {}
      /\ NoRepeats(Clean) /\ heard \in Seq(Nat) /\ speaker.freed \in BOOLEAN
    BY DEF VoiceInv, WayInv, TypeInv
<1>5. /\ heard' \in Seq(Nat) /\ NoRepeats(Clean')
      /\ ToSet(Clean') \subseteq ToSet(Clean) \cup {x}
    <2>1. x \notin ToSet(Clean)
        BY <1>3, <1>4
    <2>2. CASE speaker.freed
        <3>1. heard' = Append(heard, 0) /\ Clean' = Clean
            BY <1>1, <2>2 DEF Clean, Nothing
        <3> QED BY <1>4, <3>1
    <2>3. CASE ~speaker.freed
        <3>1. heard' = Append(heard, x) /\ Clean = heard /\ Clean' = heard'
            BY <1>1, <1>2, <2>3 DEF Clean
        <3>2. heard' \in Seq(Nat) /\ ToSet(heard') = ToSet(heard) \cup {x} /\ NoRepeats(heard')
            BY <1>3, <1>4, <2>1, <3>1, Appended
        <3> QED BY <3>1, <3>2
    <2> QED BY <2>2, <2>3
<1>6. TypeInv'
    BY <1>1, <1>3, <1>5 DEF VoiceInv, TypeInv
<1>7. MicInv'
    BY <1>1 DEF VoiceInv, MicInv, Finished
<1>8. WayInv'
    <2>1. ChunksOf(up) \cup ChunksOf(down) \cup ToSet(playing') \cup ToSet(Clean') \subseteq ToSet(sent)
        BY <1>3, <1>4, <1>5
    <2>2. (ChunksOf(up) \cup ChunksOf(down)) \cap (ToSet(playing') \cup ToSet(Clean')) = {}
        BY <1>3, <1>4, <1>5
    <2>3. ToSet(playing') \cap ToSet(Clean') = {}
        BY <1>3, <1>4, <1>5
    <2> QED BY <1>1, <1>3, <1>5, <2>1, <2>2, <2>3 DEF VoiceInv, WayInv, ChunksOf
<1>9. OwnInv'
    BY <1>1, <1>3 DEF VoiceInv, OwnInv
<1> QED BY <1>6, <1>7, <1>8, <1>9 DEF VoiceInv

\* Every step keeps the invariant.
LEMMA VoiceStep == VoiceInv /\ [Next]_vars => VoiceInv'
<1> SUFFICES ASSUME VoiceInv, [Next]_vars PROVE VoiceInv'
    OBVIOUS
<1>1. CASE Record
    BY <1>1, RecordKeeps
<1>2. CASE Stop \/ StopRequested \/ EmptyTick \/ PollFeedback \/ SenderFails \/ SetVoice \/ UNCHANGED vars
    <2>1. UNCHANGED <<mic, lagged, sent, up, down, viewer, speaker, playing, heard>>
        BY <1>2 DEF Stop, StopRequested, EmptyTick, PollFeedback, SenderFails, SetVoice, vars,
                    senderVars, viewerVars
    <2> QED BY <2>1, SameKeeps
<1>3. CASE Send
    BY <1>3, SendKeeps DEF Send
<1>4. ASSUME NEW f \in up, Forward(f) PROVE VoiceInv'
    <2>1. down' = down \/ down' = down \cup {f}
        BY <1>4, CarriedIs DEF Forward
    <2>2. UNCHANGED <<senderVars, viewerVars>> /\ up' = up \ {f}
        BY <1>4 DEF Forward
    <2>3. up' \subseteq up /\ down' \subseteq down \cup (up \ up')
        BY <2>1, <2>2
    <2> QED BY <2>2, <2>3, LinesKeep
<1>5. ASSUME NEW f, Lose(f) PROVE VoiceInv'
    <2>1. UNCHANGED <<senderVars, viewerVars>> /\ up' \subseteq up /\ down' \subseteq down \cup (up \ up')
        BY <1>5 DEF Lose
    <2> QED BY <2>1, LinesKeep
<1>6. ASSUME NEW f \in down, Receive(f) PROVE VoiceInv'
    BY <1>6, ReceiveKeeps
<1>7. CASE AllReceived \/ IdleTimeout \/ ViewerFails
    <2>1. PICK how \in {"ended", "failed"} :
            /\ ViewerEnds(how) /\ viewer.pc = "loop"
            /\ UNCHANGED <<senderVars, gate, up, down, heard>>
            /\ UNCHANGED <<speaker, playing>> \/ \E f \in down : PlayFails(f)
        BY <1>7 DEF AllReceived, IdleTimeout, ViewerFails
    <2> QED BY <2>1, EndsKeep
<1>8. CASE PlayOut
    BY <1>8, PlayOutKeeps
<1>9. CASE DropSpeaker
    BY <1>9, DropKeeps
<1> QED BY <1>1, <1>2, <1>3, <1>4, <1>5, <1>6, <1>7, <1>8, <1>9 DEF Next

\* The invariant holds in every state.
LEMMA VoiceHolds == Spec => []VoiceInv
BY VoiceInit, VoiceStep, PTL DEF Spec

\* Nothing is sent or heard twice, and nothing out of order by a sender that keeps
\* up, whatever requeue_buffer reuses meanwhile and whatever is lost on the way.
THEOREM SpeechStaysSentOnce == Spec => []SpeechIsSentOnce
<1>1. VoiceInv => SpeechIsSentOnce
    <2> SUFFICES ASSUME VoiceInv PROVE SpeechIsSentOnce
        OBVIOUS
    <2>1. NoRepeats(sent) /\ (lagged \/ InOrder(sent))
        BY DEF VoiceInv, MicInv
    <2>2. ~speaker.freed => ToSet(heard) \subseteq ToSet(sent) /\ NoRepeats(heard)
        BY DEF VoiceInv, WayInv, Clean
    <2> QED BY <2>1, <2>2 DEF SpeechIsSentOnce
<1> QED BY <1>1, VoiceHolds, PTL

\* Win32WaveOutPlayback frees no buffer that the device still plays and never lends
\* it more than the limit, for every limit, any mix of formats and any call that
\* fails, the reset in play included; only a failing reset in Drop is excepted.
THEOREM DeviceStaysOwner == Spec => []DeviceOwnsPending
<1>1. VoiceInv => DeviceOwnsPending
    <2> SUFFICES ASSUME VoiceInv PROVE DeviceOwnsPending
        OBVIOUS
    <2>1. speaker.freed \in BOOLEAN /\ playing \in Seq(Nat)
        BY DEF VoiceInv, TypeInv
    <2>2. /\ speaker.freed => viewer.pc # "loop" /\ speaker.open = Closed
          /\ ~speaker.freed => ToSet(playing) \subseteq ToSet(speaker.pending)
          /\ speaker.open = Closed => speaker.pending = << >>
          /\ Len(speaker.pending) <= MaxPending
        BY DEF VoiceInv, OwnInv
    <2>3. ASSUME speaker.open = Closed, ~speaker.freed PROVE playing = << >>
        <3>1. ToSet(<< >>) = {}
            BY DEF ToSet
        <3>2. ToSet(playing) = {}
            BY <2>2, <2>3, <3>1
        <3>3. playing # << >> => playing[1] \in ToSet(playing)
            BY <2>1 DEF ToSet
        <3> QED BY <3>2, <3>3
    <2> QED BY <2>1, <2>2, <2>3 DEF DeviceOwnsPending
<1> QED BY <1>1, VoiceHolds, PTL

=============================================================================
