--------------------------- MODULE FfiBoundaryProofs ---------------------------
(***************************************************************************)
(* Theorems about FfiBoundary: for every depth of calls back and forth, the*)
(* State is where control is, and the boundary implements OneState.        *)
(***************************************************************************)
EXTENDS FfiBoundary, SequenceTheorems, TLAPS

-----------------------------------------------------------------------------
(* The inductive invariant. No frame but the innermost one holds the State,*)
(* and only if Rust runs in it.                                            *)
HeldOnTop(fs, u, a) ==
    /\ \A i \in 1 .. Len(fs) : fs[i].held => i = Len(fs) /\ fs[i].kind \in RustKinds
    /\ fs # <<>> => IF fs[Len(fs)].kind \in RustKinds
                    THEN fs[Len(fs)].held /\ ~u /\ ~a
                    ELSE u # a
    /\ fs = <<>> => ~(u /\ a)

(* Rust calls C and C calls trampolines; neither calls its own kind here.  *)
Alternates(fs) ==
    /\ fs # <<>> => fs[1].kind # "trampoline"
    /\ \A i \in 1 .. Len(fs) : i # 1 => (fs[i].kind \in RustKinds <=> fs[i - 1].kind \notin RustKinds)

IInv ==
    /\ TypeOK
    /\ HeldOnTop(frames, ud, allocf)
    /\ Alternates(frames)

-----------------------------------------------------------------------------
(* Sequences.                                                              *)

(* The first n elements of a sequence.                                     *)
LEMMA PrefixProperties ==
    ASSUME NEW S, NEW s \in Seq(S), NEW n \in 0 .. Len(s)
    PROVE  /\ SubSeq(s, 1, n) \in Seq(S)
           /\ Len(SubSeq(s, 1, n)) = n
           /\ \A i \in 1 .. n : SubSeq(s, 1, n)[i] = s[i]
  <1>1. Len(s) \in Nat /\ n \in Nat
    BY LenProperties
  <1>2. \A i \in 1 .. n : s[i] \in S
    BY <1>1, ElementOfSeq
  <1>3. /\ SubSeq(s, 1, n) \in Seq(S)
        /\ Len(SubSeq(s, 1, n)) = IF 1 <= n THEN n - 1 + 1 ELSE 0
        /\ \A i \in 1 .. n - 1 + 1 : SubSeq(s, 1, n)[i] = s[1 + i - 1]
    BY <1>1, <1>2, SubSeqProperties
  <1>4. n - 1 + 1 = n /\ (1 <= n \/ n = 0) /\ \A i \in 1 .. n : 1 + i - 1 = i
    BY <1>1
  <1>5. QED
    BY <1>3, <1>4

(* A nonempty sequence without its last element.                           *)
LEMMA FrontProperties ==
    ASSUME NEW S, NEW s \in Seq(S), s # <<>>
    PROVE  /\ Len(s) \in Nat /\ Len(s) >= 1
           /\ Front(s) \in Seq(S)
           /\ Len(Front(s)) = Len(s) - 1
           /\ \A i \in 1 .. Len(s) - 1 : Front(s)[i] = s[i]
  <1>1. Len(s) \in Nat /\ Len(s) >= 1
    BY LenProperties, EmptySeq
  <1>2. Len(s) - 1 \in 0 .. Len(s)
    BY <1>1
  <1>3. QED
    BY <1>1, <1>2, PrefixProperties DEF Front

(* A sequence of frames whose frame d is replaced.                         *)
LEMMA ReplacedFrame ==
    ASSUME NEW fs \in Seq(Frames), NEW d \in 1 .. Len(fs), NEW g \in Frames
    PROVE  /\ [fs EXCEPT ![d] = g] \in Seq(Frames)
           /\ Len([fs EXCEPT ![d] = g]) = Len(fs)
           /\ [fs EXCEPT ![d] = g][d] = g
           /\ \A i \in 1 .. Len(fs) : i # d => [fs EXCEPT ![d] = g][i] = fs[i]
  BY ExceptSeq, LenProperties

-----------------------------------------------------------------------------
(* The current stack.                                                      *)

(* What the invariant says of the innermost frame, and of those under it.  *)
LEMMA Now ==
    ASSUME IInv, frames # <<>>
    PROVE  /\ Depth \in Nat /\ Depth >= 1
           /\ Top \in Frames
           /\ \A i \in 1 .. Depth : frames[i] \in Frames
           /\ \A i \in 1 .. Depth - 1 : ~frames[i].held
           /\ RustRuns => Top.held /\ ~ud /\ ~allocf
           /\ CRuns => ~Top.held /\ ud # allocf
  <1>1. Depth \in Nat /\ Depth >= 1
    BY LenProperties, EmptySeq DEF Depth, IInv, TypeOK
  <1>2. Depth \in 1 .. Depth /\ frames \in Seq(Frames)
    BY <1>1 DEF IInv, TypeOK
  <1>3. \A i \in 1 .. Depth : frames[i] \in Frames
    BY <1>2, ElementOfSeq DEF Depth
  <1>4. \A i \in 1 .. Depth - 1 : i \in 1 .. Depth /\ i # Depth
    BY <1>1
  <1>5. \A i \in 1 .. Depth - 1 : ~frames[i].held
    BY <1>4 DEF IInv, HeldOnTop, Depth
  <1>6. RustRuns => Top.held /\ ~ud /\ ~allocf
    BY DEF IInv, HeldOnTop, RustRuns, Top, Depth
  <1>7. ASSUME CRuns
        PROVE  ~Top.held /\ ud # allocf
    <2>1. Top.kind \notin RustKinds
      BY <1>7 DEF CRuns, CKinds, RustKinds
    <2>2. QED
      BY <1>2, <2>1 DEF IInv, HeldOnTop, Top, Depth
  <1>8. QED
    BY <1>1, <1>2, <1>3, <1>4, <1>5, <1>6, <1>7 DEF Top

(* A stack gs follows if only its innermost frame differs from the current *)
(* one, is in order, and is the one that control and the State go to.      *)
LEMMA StepTo ==
    ASSUME IInv, NEW gs \in Seq(Frames), gs # <<>>,
           NEW u \in BOOLEAN, NEW a \in BOOLEAN,
           \A i \in 1 .. Len(gs) - 1 : i <= Depth /\ gs[i].kind = frames[i].kind /\ ~gs[i].held,
           gs[Len(gs)].kind \in RustKinds => gs[Len(gs)].held /\ ~u /\ ~a,
           gs[Len(gs)].kind \notin RustKinds => ~gs[Len(gs)].held /\ u # a,
           IF Len(gs) = 1
           THEN gs[1].kind # "trampoline"
           ELSE gs[Len(gs)].kind \in RustKinds <=> frames[Len(gs) - 1].kind \notin RustKinds
    PROVE  HeldOnTop(gs, u, a) /\ Alternates(gs)
  <1>1. Len(gs) \in Nat /\ Len(gs) # 0
    BY LenProperties, EmptySeq
  <1>2. \A i \in 1 .. Len(gs) : i = Len(gs) \/ i \in 1 .. Len(gs) - 1
    BY <1>1
  <1>3. HeldOnTop(gs, u, a)
    BY <1>2 DEF HeldOnTop
  <1>4. Alternates(gs)
    <2>1. \A i \in 1 .. Len(gs) - 1 : gs[i].kind = frames[i].kind
      OBVIOUS
    <2>2. frames \in Seq(Frames) /\ Depth \in Nat /\ Depth = Len(frames) /\ Alternates(frames)
      BY LenProperties DEF IInv, TypeOK, Depth
    <2>3. gs[1].kind # "trampoline"
      <3>1. CASE Len(gs) = 1
        BY <3>1
      <3>2. CASE Len(gs) # 1
        <4>1. 1 \in 1 .. Len(gs) - 1
          <5>1. \A k \in Nat : k # 0 /\ k # 1 => 1 \in 1 .. k - 1
            OBVIOUS
          <5>2. QED
            BY <1>1, <3>2, <5>1
        <4>2. frames # <<>>
          BY <2>2, <4>1, EmptySeq
        <4>3. QED
          BY <2>1, <2>2, <4>1, <4>2 DEF Alternates
      <3>3. QED
        BY <3>1, <3>2
    <2>4. ASSUME NEW i \in 1 .. Len(gs), i # 1
          PROVE  gs[i].kind \in RustKinds <=> gs[i - 1].kind \notin RustKinds
      <3>1. i - 1 \in 1 .. Len(gs) - 1 /\ Len(gs) # 1
        BY <1>1, <2>4
      <3>2. CASE i = Len(gs)
        BY <2>1, <3>1, <3>2
      <3>3. CASE i # Len(gs)
        <4>1. i \in 1 .. Len(gs) - 1 /\ i \in 1 .. Len(frames)
          BY <1>1, <2>2, <3>3
        <4>2. QED
          BY <2>1, <2>2, <2>4, <3>1, <4>1 DEF Alternates
      <3>4. QED
        BY <3>2, <3>3
    <2>5. QED
      BY <2>3, <2>4 DEF Alternates
  <1>5. QED
    BY <1>3, <1>4

-----------------------------------------------------------------------------
(* Every action keeps the invariant.                                       *)

(* A call from Rust into C, and the start of a trampoline.                 *)
LEMMA CallKeepsInv ==
    ASSUME IInv, NEW kind \in {"protected", "unprotected"}, CallC(kind)
    PROVE  IInv'
  <1> DEFINE caller == [Top EXCEPT !.held = FALSE]
             low == [frames EXCEPT ![Depth] = caller]
             callee == CFrame(kind)
  <1>1. frames # <<>> /\ arena \in Nat /\ frames \in Seq(Frames)
    BY DEF CallC, RustRuns, IInv, TypeOK
  <1>2. frames' = Append(low, callee)
    BY DEF CallC, Top
  <1>3. caller \in Frames /\ caller.kind = Top.kind /\ ~caller.held
    BY <1>1, Now DEF Frames
  <1>4. callee \in Frames /\ callee.kind \notin RustKinds /\ ~callee.held
    BY <1>1, EmptySeq DEF CFrame, Frames, CKinds, RustKinds
  <1> HIDE DEF caller, callee
  <1>5. /\ Depth \in Nat /\ Depth \in 1 .. Depth
        /\ low \in Seq(Frames) /\ Len(low) = Depth
        /\ \A i \in 1 .. Depth : low[i].kind = frames[i].kind /\ ~low[i].held
    <2>1. Depth \in 1 .. Len(frames) /\ Depth = Len(frames) /\ Depth \in Nat
      BY <1>1, Now DEF Depth
    <2>2. /\ low \in Seq(Frames) /\ Len(low) = Len(frames) /\ low[Depth] = caller
          /\ \A i \in 1 .. Len(frames) : i # Depth => low[i] = frames[i]
      BY <1>1, <1>3, <2>1, ReplacedFrame
    <2>3. \A i \in 1 .. Depth : i # Depth => ~frames[i].held
      <3>1. \A i \in 1 .. Depth : i # Depth => i \in 1 .. Depth - 1
        BY <2>1
      <3>2. QED
        BY <1>1, <3>1, Now
    <2>4. QED
      BY <1>3, <2>1, <2>2, <2>3 DEF Top
  <1> HIDE DEF low
  <1> DEFINE gs == Append(low, callee)
  <1>6. /\ gs \in Seq(Frames) /\ Len(gs) = Depth + 1 /\ gs[Len(gs)] = callee /\ gs # <<>>
        /\ \A i \in 1 .. Len(gs) - 1 : i <= Depth /\ gs[i] = low[i]
    BY <1>4, <1>5, AppendProperties, EmptySeq
  <1>7. ud' = TRUE /\ allocf' = allocf /\ ~allocf /\ UNCHANGED <<arena, exc>>
    BY <1>1, Now DEF CallC
  <1>8. HeldOnTop(gs, TRUE, FALSE) /\ Alternates(gs)
    <2>1. Len(gs) # 1 /\ frames[Len(gs) - 1].kind \in RustKinds
      <3>1. Depth >= 1 /\ Top.kind \in RustKinds
        BY <1>1, Now DEF CallC, RustRuns
      <3> HIDE DEF gs
      <3>2. Len(gs) # 1 /\ Len(gs) - 1 = Depth
        BY <1>5, <1>6, <3>1
      <3>3. QED
        BY <3>1, <3>2 DEF Top
    <2>2. \A i \in 1 .. Len(gs) - 1 : i \in 1 .. Depth
      BY <1>5, <1>6
    <2> HIDE DEF gs
    <2>3. \A i \in 1 .. Len(gs) - 1 : i <= Depth /\ gs[i].kind = frames[i].kind /\ ~gs[i].held
      BY <1>5, <1>6, <2>2
    <2>4. QED
      BY <1>1, <1>4, <1>6, <2>1, <2>3, StepTo
  <1>9. QED
    BY <1>1, <1>2, <1>6, <1>7, <1>8 DEF IInv, TypeOK

(* A trampoline that C enters takes the State out of ud.                   *)
LEMMA EnterKeepsInv ==
    ASSUME IInv, Enter
    PROVE  IInv'
  <1> DEFINE f == RustFrame("trampoline", TRUE, <<arena>>)
             gs == Append(frames, f)
  <1>1. frames # <<>> /\ arena \in Nat /\ frames \in Seq(Frames) /\ Depth = Len(frames)
    BY DEF Enter, CRuns, IInv, TypeOK, Depth
  <1>2. frames' = gs /\ UNCHANGED <<arena, exc>>
    BY DEF Enter
  <1>3. f \in Frames /\ f.kind \in RustKinds /\ f.held
    BY <1>1 DEF RustFrame, Frames, RustKinds
  <1>4. ud' = FALSE /\ allocf' = FALSE
    <2>1. ud # allocf /\ ud \in BOOLEAN /\ allocf \in BOOLEAN
      BY <1>1, Now DEF Enter, IInv, TypeOK
    <2>2. QED
      BY <2>1 DEF Enter, Extract
  <1> HIDE DEF f
  <1>5. /\ gs \in Seq(Frames) /\ Len(gs) = Depth + 1 /\ gs[Len(gs)] = f /\ gs # <<>> /\ Depth \in Nat
        /\ \A i \in 1 .. Len(gs) - 1 : i \in 1 .. Depth /\ gs[i] = frames[i]
    BY <1>1, <1>3, LenProperties, AppendProperties, EmptySeq
  <1>6. \A i \in 1 .. Depth : ~frames[i].held
    <2>1. \A i \in 1 .. Depth : i # Depth => i \in 1 .. Depth - 1
      BY <1>5
    <2>2. ~frames[Depth].held
      BY <1>1, Now DEF Enter, Top
    <2>3. QED
      BY <1>1, <2>1, <2>2, Now
  <1> HIDE DEF gs
  <1>7. HeldOnTop(gs, FALSE, FALSE) /\ Alternates(gs)
    <2>1. \A i \in 1 .. Len(gs) - 1 : i <= Depth /\ gs[i].kind = frames[i].kind /\ ~gs[i].held
      BY <1>5, <1>6
    <2>2. Len(gs) # 1 /\ frames[Len(gs) - 1].kind \notin RustKinds
      <3>1. Depth >= 1 /\ Top.kind \notin RustKinds
        BY <1>1, Now DEF Enter, CRuns, CKinds, RustKinds
      <3>2. Len(gs) # 1 /\ Len(gs) - 1 = Depth
        BY <1>5, <3>1
      <3>3. QED
        BY <3>1, <3>2 DEF Top
    <2>3. QED
      BY <1>1, <1>3, <1>5, <2>1, <2>2, StepTo
  <1>8. QED
    BY <1>1, <1>2, <1>4, <1>5, <1>7 DEF IInv, TypeOK

(* The stack is cut back to its first n frames. The innermost one of them  *)
(* may get the State.                                                      *)
LEMMA CutTo ==
    ASSUME IInv, NEW n \in 1 .. Depth, NEW gs \in Seq(Frames), Len(gs) = n,
           NEW u \in BOOLEAN, NEW a \in BOOLEAN,
           \A i \in 1 .. n - 1 : gs[i] = frames[i],
           gs[n].kind = frames[n].kind,
           frames[n].kind \in RustKinds => gs[n].held /\ ~u /\ ~a,
           frames[n].kind \notin RustKinds => ~gs[n].held /\ u # a
    PROVE  HeldOnTop(gs, u, a) /\ Alternates(gs)
  <1>1. frames \in Seq(Frames) /\ Depth = Len(frames) /\ Depth \in Nat
    BY LenProperties DEF IInv, TypeOK, Depth
  <1>2. gs # <<>> /\ frames # <<>>
    BY <1>1, EmptySeq
  <1>3. \A i \in 1 .. n - 1 : i <= Depth /\ i \in 1 .. Depth - 1 /\ n \in 1 .. Len(frames)
    BY <1>1
  <1>4. \A i \in 1 .. n - 1 : gs[i].kind = frames[i].kind /\ ~gs[i].held
    BY <1>2, <1>3, Now
  <1>5. IF n = 1
        THEN gs[1].kind # "trampoline"
        ELSE gs[n].kind \in RustKinds <=> frames[n - 1].kind \notin RustKinds
    <2>1. n \in 1 .. Len(frames)
      BY <1>1
    <2>2. QED
      BY <1>2, <2>1 DEF IInv, Alternates
  <1>6. QED
    BY <1>2, <1>3, <1>4, <1>5, StepTo

(* A frame of C holds nothing.                                             *)
LEMMA FrameOfC ==
    ASSUME IInv, NEW i \in 1 .. Depth, frames[i].kind \in CKinds
    PROVE  frames[i].ai \in Nat /\ ~frames[i].held /\ frames[i].kind \notin RustKinds
  <1>1. frames \in Seq(Frames) /\ Depth = Len(frames) /\ Depth \in Nat
    BY LenProperties DEF IInv, TypeOK, Depth
  <1>2. frames[i] \in Frames
    BY <1>1, ElementOfSeq
  <1>3. ~frames[i].held
    BY <1>1 DEF IInv, HeldOnTop, RustKinds, CKinds
  <1>4. QED
    BY <1>2, <1>3 DEF Frames, RustKinds, CKinds

(* A longjmp lands in a frame of C. The State is in mrb_state: C raised, or*)
(* the trampoline that raised moved it there.                              *)
LEMMA LandKeepsInv ==
    ASSUME IInv, NEW i \in 1 .. Depth, Catches(i),
           frames' = SubSeq(frames, 1, i), arena' = frames[i].ai, exc' \in BOOLEAN,
           ud' \in BOOLEAN, allocf' \in BOOLEAN, ud' # allocf'
    PROVE  IInv'
  <1>1. frames \in Seq(Frames) /\ Depth = Len(frames) /\ Depth \in Nat /\ i \in 0 .. Len(frames)
    BY LenProperties DEF IInv, TypeOK, Depth
  <1>2. frames[i].kind \in CKinds
    BY DEF Catches, CKinds
  <1>3. /\ frames' \in Seq(Frames) /\ Len(frames') = i
        /\ \A j \in 1 .. i : frames'[j] = frames[j]
    BY <1>1, PrefixProperties
  <1>4. frames'[i].kind = frames[i].kind /\ ~frames'[i].held /\ \A j \in 1 .. i - 1 : frames'[j] = frames[j]
    BY <1>2, <1>3, FrameOfC
  <1>5. HeldOnTop(frames', ud', allocf') /\ Alternates(frames')
    BY <1>2, <1>3, <1>4, FrameOfC, CutTo
  <1>6. arena' \in Nat
    BY <1>2, FrameOfC
  <1>7. QED
    BY <1>3, <1>5, <1>6 DEF IInv, TypeOK

(* The frame under a trampoline is one of C, and one under a frame of C is *)
(* one of Rust.                                                            *)
LEMMA Caller ==
    ASSUME IInv, frames # <<>>
    PROVE  /\ Depth \in Nat
           /\ Top.kind = "trampoline" => Depth # 1
           /\ Depth # 1 => Depth - 1 \in 1 .. Depth
           /\ Depth # 1 /\ Top.kind = "trampoline" => frames[Depth - 1].kind \in CKinds
           /\ Depth # 1 /\ Top.kind \in CKinds => frames[Depth - 1].kind \in RustKinds
           /\ RustKinds \cap CKinds = {}
  <1>1. Depth \in Nat /\ Depth >= 1 /\ Depth = Len(frames)
    BY Now DEF Depth
  <1>2. Depth # 1 => Depth - 1 \in 1 .. Depth /\ Depth \in 1 .. Len(frames)
    BY <1>1
  <1>3. Depth # 1 => (Top.kind \in RustKinds <=> frames[Depth - 1].kind \notin RustKinds)
    BY <1>2 DEF IInv, Alternates, Top
  <1>4. Top.kind = "trampoline" => Depth # 1
    BY DEF IInv, Alternates, Top
  <1>5. Depth # 1 => frames[Depth - 1] \in Frames
    BY <1>2, Now
  <1>6. \A f \in Frames : f.kind \in RustKinds \/ f.kind \in CKinds
    BY DEF Frames
  <1>7. QED
    BY <1>1, <1>2, <1>3, <1>4, <1>5, <1>6 DEF RustKinds, CKinds

(* A trampoline that returns gives the State back to ud.                   *)
LEMMA ReturnKeepsInv ==
    ASSUME IInv, Return
    PROVE  IInv'
  <1>1. frames # <<>> /\ frames \in Seq(Frames) /\ Depth = Len(frames) /\ arena \in Nat
    BY DEF Return, RustRuns, IInv, TypeOK, Depth
  <1>2. Depth - 1 \in 1 .. Depth /\ frames[Depth - 1].kind \in CKinds
    BY <1>1, Caller DEF Return
  <1>3. /\ frames' \in Seq(Frames) /\ Len(frames') = Depth - 1
        /\ \A i \in 1 .. Depth - 1 : frames'[i] = frames[i]
    BY <1>1, FrontProperties DEF Return
  <1>4. ud' = TRUE /\ allocf' = FALSE /\ UNCHANGED <<arena, exc>>
    BY <1>1, Now DEF Return, IInv, TypeOK, Frames
  <1>5. \A i \in 1 .. Depth - 1 - 1 : frames'[i] = frames[i]
    BY <1>2, <1>3
  <1>6. frames'[Depth - 1].kind = frames[Depth - 1].kind /\ ~frames'[Depth - 1].held
    <2>1. Depth - 1 \in 1 .. Depth - 1
      BY <1>2
    <2>2. QED
      BY <1>2, <1>3, <2>1, FrameOfC
  <1>7. HeldOnTop(frames', TRUE, FALSE) /\ Alternates(frames')
    BY <1>1, <1>2, <1>3, <1>5, <1>6, FrameOfC, CutTo
  <1>8. QED
    BY <1>1, <1>3, <1>4, <1>7 DEF IInv, TypeOK

(* A call into C that returns gives the State back to the Rust frame       *)
(* below.                                                                  *)
LEMMA CReturnsKeepsInv ==
    ASSUME IInv, CReturns
    PROVE  IInv'
  <1> DEFINE n == Depth - 1
             caller == [frames[n] EXCEPT !.held = TRUE]
             gs == [Front(frames) EXCEPT ![n] = caller]
  <1>1. frames # <<>> /\ frames \in Seq(Frames) /\ Depth = Len(frames) /\ arena \in Nat
    BY DEF CReturns, CRuns, IInv, TypeOK, Depth
  <1>2. n \in 1 .. Depth /\ frames[n].kind \in RustKinds /\ n \in 1 .. n
    <2>1. Depth # 1 /\ Top.kind \in CKinds
      BY <1>1, Now DEF CReturns, CRuns
    <2>2. QED
      BY <1>1, <2>1, Caller
  <1>3. /\ Front(frames) \in Seq(Frames) /\ Len(Front(frames)) = n
        /\ \A i \in 1 .. n : Front(frames)[i] = frames[i]
    BY <1>1, FrontProperties
  <1>4. Extracted /\ ud' = FALSE /\ allocf' = FALSE
    <2>1. ud # allocf /\ ud \in BOOLEAN /\ allocf \in BOOLEAN
      BY <1>1, Now DEF CReturns, IInv, TypeOK
    <2>2. QED
      BY <2>1 DEF CReturns, Extract, Extracted
  <1>5. frames' = gs
    BY <1>2, <1>3, <1>4 DEF CReturns, Extracted
  <1>6. caller \in Frames /\ caller.kind = frames[n].kind /\ caller.held
    BY <1>1, <1>2, Now DEF Frames
  <1> HIDE DEF caller
  <1>7. /\ gs \in Seq(Frames) /\ Len(gs) = n /\ gs[n] = caller
        /\ \A i \in 1 .. n - 1 : gs[i] = frames[i]
    <2>1. n \in 1 .. Len(Front(frames))
      BY <1>2, <1>3
    <2>2. /\ gs \in Seq(Frames) /\ Len(gs) = n /\ gs[n] = caller
          /\ \A i \in 1 .. n : i # n => gs[i] = frames[i]
      BY <1>3, <1>6, <2>1, ReplacedFrame
    <2>3. \A i \in 1 .. n - 1 : i \in 1 .. n /\ i # n
      BY <1>2
    <2>4. QED
      BY <2>2, <2>3
  <1> HIDE DEF gs
  <1>8. arena' \in Nat /\ exc' \in BOOLEAN
    <2>1. Top.ai \in Nat
      BY <1>1, Now DEF Frames
    <2>2. CASE Top.kind = "protected"
      <3>1. exc' = FALSE /\ arena' \in {Top.ai, Top.ai + 1}
        BY <2>2 DEF CReturns
      <3>2. \A a \in Nat : a + 1 \in Nat
        OBVIOUS
      <3>3. QED
        BY <2>1, <3>1, <3>2, Zenon
    <2>3. CASE Top.kind # "protected"
      BY <1>1, <2>3 DEF CReturns, IInv, TypeOK
    <2>4. QED
      BY <2>2, <2>3
  <1> HIDE DEF n
  <1>9. HeldOnTop(gs, FALSE, FALSE) /\ Alternates(gs)
    BY <1>2, <1>6, <1>7, CutTo
  <1>10. QED
    BY <1>4, <1>5, <1>7, <1>8, <1>9 DEF IInv, TypeOK

(* A stack of one frame of the embedder, which has the State.              *)
LEMMA HostKeepsInv ==
    ASSUME IInv, frames' = <<RustFrame("host", TRUE, <<>>)>>,
           ud' = FALSE, allocf' = FALSE, UNCHANGED <<arena, exc>>
    PROVE  IInv'
  <1> DEFINE f == RustFrame("host", TRUE, <<>>)
  <1>1. arena \in Nat /\ exc \in BOOLEAN
    BY DEF IInv, TypeOK
  <1>2. f \in Frames /\ f.kind = "host" /\ f.kind \in RustKinds /\ f.held
    BY <1>1, EmptySeq DEF RustFrame, Frames, RustKinds, CKinds
  <1> HIDE DEF f
  <1>3. <<f>> \in Seq(Frames) /\ Len(<<f>>) = 1 /\ <<f>>[1] = f /\ \A i \in 1 .. Len(<<f>>) : i = 1
    BY <1>2
  <1>4. HeldOnTop(<<f>>, FALSE, FALSE)
    BY <1>2, <1>3 DEF HeldOnTop
  <1>5. Alternates(<<f>>)
    BY <1>2, <1>3 DEF Alternates
  <1>6. frames' = <<f>>
    BY DEF f
  <1>7. QED
    BY <1>1, <1>3, <1>4, <1>5, <1>6 DEF IInv, TypeOK

(* No frame is left: the State is gone, or waits in mrb_state.             *)
LEMMA EmptyKeepsInv ==
    ASSUME IInv, frames' = <<>>, ud' \in BOOLEAN, allocf' \in BOOLEAN, ~(ud' /\ allocf'),
           UNCHANGED <<arena, exc>>
    PROVE  IInv'
  <1>1. <<>> \in Seq(Frames) /\ Len(<<>>) = 0 /\ \A i \in 1 .. 0 : FALSE
    BY EmptySeq
  <1>2. HeldOnTop(<<>>, ud', allocf') /\ Alternates(<<>>)
    BY <1>1 DEF HeldOnTop, Alternates
  <1>3. QED
    BY <1>1, <1>2 DEF IInv, TypeOK

(* The arena and the savepoints of the innermost frame do not matter: the  *)
(* stack stays, with a frame g of the same kind on top that has the State  *)
(* if that one has it.                                                     *)
LEMMA TopKeepsInv ==
    ASSUME IInv, frames # <<>>, NEW g \in Frames,
           g.kind = Top.kind, g.held = Top.held,
           frames' = [frames EXCEPT ![Depth] = g],
           arena' \in Nat, UNCHANGED <<ud, allocf, exc>>
    PROVE  IInv'
  <1>1. /\ frames \in Seq(Frames) /\ Depth = Len(frames) /\ Depth \in Nat /\ Depth >= 1
        /\ Depth \in 1 .. Len(frames) /\ ud \in BOOLEAN /\ allocf \in BOOLEAN /\ exc \in BOOLEAN
    BY Now DEF IInv, TypeOK, Depth
  <1>2. /\ frames' \in Seq(Frames) /\ Len(frames') = Depth /\ frames'[Depth] = g
        /\ \A i \in 1 .. Depth : i # Depth => frames'[i] = frames[i]
    BY <1>1, ReplacedFrame
  <1>3. \A i \in 1 .. Depth : frames'[i].kind = frames[i].kind /\ frames'[i].held = frames[i].held
    BY <1>2 DEF Top
  <1>4. frames' # <<>>
    BY <1>1, <1>2, EmptySeq
  <1>5. HeldOnTop(frames', ud', allocf')
    BY <1>1, <1>2, <1>3, <1>4 DEF IInv, HeldOnTop
  <1>6. Alternates(frames')
    <2>1. \A i \in 1 .. Depth : i # 1 => i - 1 \in 1 .. Depth
      BY <1>1
    <2>2. 1 \in 1 .. Depth
      BY <1>1
    <2>3. QED
      BY <1>1, <1>2, <1>3, <2>1, <2>2 DEF IInv, Alternates
  <1>7. QED
    BY <1>1, <1>2, <1>5, <1>6 DEF IInv, TypeOK

(* Objects that are allocated, and C code that restores the arena, leave   *)
(* the stack as it is.                                                     *)
LEMMA ArenaKeepsInv ==
    ASSUME IInv, Allocate \/ CRestores
    PROVE  IInv'
  <1>1. frames # <<>> /\ UNCHANGED <<frames, ud, allocf, exc>> /\ arena \in Nat
    BY DEF Allocate, CRestores, CRuns, RustRuns, IInv, TypeOK
  <1>2. Top.ai \in Nat
    BY <1>1, Now DEF Frames
  <1>3. arena' \in Nat
    BY <1>1, <1>2 DEF Allocate, CRestores
  <1>4. QED
    BY <1>1, <1>3 DEF IInv, TypeOK

(* So do the savepoints that Rust code makes and drops.                    *)
LEMMA SaveKeepsInv ==
    ASSUME IInv, Save \/ Restore
    PROVE  IInv'
  <1>1. frames # <<>> /\ arena \in Nat /\ UNCHANGED <<ud, allocf, exc>>
    BY DEF Save, Restore, RustRuns, IInv, TypeOK
  <1>2. Top \in Frames /\ Top.saves \in Seq(Nat)
    BY <1>1, Now DEF Frames
  <1>3. CASE Save
    <2> DEFINE g == [Top EXCEPT !.saves = Append(Top.saves, arena)]
    <2>1. g \in Frames /\ g.kind = Top.kind /\ g.held = Top.held
      BY <1>1, <1>2, AppendProperties DEF Frames
    <2>2. frames' = [frames EXCEPT ![Depth] = g] /\ arena' = arena
      BY <1>3 DEF Save, Top
    <2> HIDE DEF g
    <2>3. QED
      BY <1>1, <2>1, <2>2, TopKeepsInv
  <1>4. CASE Restore
    <2> DEFINE g == [Top EXCEPT !.saves = Front(Top.saves)]
    <2>1. Top.saves # <<>>
      <3>1. Len(Top.saves) > Owned /\ Owned \in {0, 1}
        BY <1>4 DEF Restore, Owned
      <3>2. QED
        BY <1>2, <3>1, EmptySeq
    <2>2. Len(Top.saves) \in 1 .. Len(Top.saves) /\ Front(Top.saves) \in Seq(Nat)
      BY <1>2, <2>1, FrontProperties
    <2>3. arena' \in Nat
      BY <1>2, <1>4, <2>2, ElementOfSeq DEF Restore, Last
    <2>4. g \in Frames /\ g.kind = Top.kind /\ g.held = Top.held
      BY <1>2, <2>2 DEF Frames
    <2>5. frames' = [frames EXCEPT ![Depth] = g]
      BY <1>4 DEF Restore, Top
    <2> HIDE DEF g
    <2>6. QED
      BY <1>1, <2>3, <2>4, <2>5, TopKeepsInv
  <1>5. QED
    BY <1>3, <1>4

-----------------------------------------------------------------------------
(* The theorems.                                                           *)

(* The invariant holds while the interpreter is opened.                    *)
LEMMA InitInv ==
    ASSUME Init
    PROVE  IInv
  <1> DEFINE f == [kind |-> "open", held |-> FALSE, saves |-> <<>>, ai |-> 0]
  <1>1. f \in Frames /\ f.kind \notin RustKinds /\ f.kind # "trampoline" /\ ~f.held
    BY EmptySeq DEF Frames, RustKinds, CKinds
  <1> HIDE DEF f
  <1>2. <<f>> \in Seq(Frames) /\ Len(<<f>>) = 1 /\ <<f>>[1] = f /\ \A i \in 1 .. Len(<<f>>) : i = 1
    BY <1>1
  <1>3. HeldOnTop(<<f>>, FALSE, TRUE) /\ Alternates(<<f>>)
    BY <1>1, <1>2 DEF HeldOnTop, Alternates
  <1>4. frames = <<f>> /\ ud = FALSE /\ allocf = TRUE /\ arena = 0 /\ exc = FALSE
    BY DEF Init, f
  <1>5. QED
    BY <1>2, <1>3, <1>4 DEF IInv, TypeOK

(* Calls and returns, raises, the arena and the embedder keep the invariant*)
LEMMA NextKeepsInv ==
    ASSUME IInv, [Next]_vars
    PROVE  IInv'
  <1>1. CASE UNCHANGED vars
    BY <1>1 DEF vars, IInv, TypeOK
  <1>2. ASSUME NEW kind \in {"protected", "unprotected"}, CallC(kind)
        PROVE  IInv'
    BY <1>2, CallKeepsInv
  <1>3. CASE OpenReturns
    <2>1. frames # <<>> /\ ud # allocf /\ ud \in BOOLEAN /\ allocf \in BOOLEAN
      BY <1>3, Now DEF OpenReturns, CRuns, IInv, TypeOK
    <2>2. Extracted = TRUE /\ ud' = FALSE /\ allocf' = FALSE
      BY <1>3, <2>1 DEF OpenReturns, Extract, Extracted
    <2>3. QED
      BY <1>3, <2>2, HostKeepsInv DEF OpenReturns
  <1>4. ASSUME NEW i \in 1 .. Depth, Raise(i)
        PROVE  IInv'
    <2>1. frames # <<>> /\ Top \in Frames /\ RustRuns
      BY <1>4, Now DEF Raise, RustRuns
    <2>2. ud' = TRUE /\ allocf' = FALSE
      BY <1>4, <2>1, Now DEF Raise, IInv, TypeOK, Frames
    <2>3. frames' = SubSeq(frames, 1, i) /\ arena' = frames[i].ai /\ exc' \in BOOLEAN /\ Catches(i)
      BY <1>4 DEF Raise, Land, LandPending
    <2>4. QED
      BY <2>2, <2>3, LandKeepsInv
  <1>5. ASSUME NEW i \in 1 .. Depth, CRaises(i)
        PROVE  IInv'
    <2>1. ud # allocf /\ ud \in BOOLEAN /\ allocf \in BOOLEAN
      BY <1>5, Now DEF CRaises, CRuns, IInv, TypeOK
    <2>2. ud' = ud /\ allocf' = allocf
      BY <1>5 DEF CRaises
    <2>3. frames' = SubSeq(frames, 1, i) /\ arena' = frames[i].ai /\ exc' \in BOOLEAN /\ Catches(i)
      BY <1>5 DEF CRaises, Land, LandPending
    <2>4. QED
      BY <2>1, <2>2, <2>3, LandKeepsInv
  <1>6. CASE Close
    <2>1. ud' = ud /\ allocf' = allocf /\ frames' = <<>> /\ UNCHANGED <<arena, exc>>
      BY <1>6 DEF Close
    <2>2. frames # <<>>
      BY <1>6, EmptySeq DEF Close, HostRuns, Depth
    <2>3. ~ud /\ ~allocf /\ ud \in BOOLEAN /\ allocf \in BOOLEAN
      BY <1>6, <2>2, Now DEF Close, HostRuns, RustRuns, RustKinds, IInv, TypeOK
    <2>4. QED
      BY <2>1, <2>3, EmptyKeepsInv
  <1>7. CASE IntoRaw
    <2>1. frames # <<>>
      BY <1>7, EmptySeq DEF IntoRaw, HostRuns, Depth
    <2>2. Top.held /\ Top.held \in BOOLEAN /\ ~allocf /\ allocf \in BOOLEAN
      BY <1>7, <2>1, Now DEF IntoRaw, HostRuns, RustRuns, RustKinds, IInv, TypeOK, Frames
    <2>3. ud' = TRUE /\ allocf' = FALSE /\ frames' = <<>> /\ UNCHANGED <<arena, exc>>
      BY <1>7, <2>2 DEF IntoRaw
    <2>4. QED
      BY <2>3, EmptyKeepsInv
  <1>8. CASE FromRaw
    <2>1. ud # allocf /\ ud \in BOOLEAN /\ allocf \in BOOLEAN
      BY <1>8 DEF FromRaw, Extracted, IInv, TypeOK, HeldOnTop
    <2>2. ud' = FALSE /\ allocf' = FALSE
      BY <1>8, <2>1 DEF FromRaw, Extract
    <2>3. QED
      BY <1>8, <2>2, HostKeepsInv DEF FromRaw
  <1>9. QED
    BY <1>1, <1>2, <1>3, <1>4, <1>5, <1>6, <1>7, <1>8, EnterKeepsInv, ReturnKeepsInv,
       CReturnsKeepsInv, ArenaKeepsInv, SaveKeepsInv DEF Next

(* The invariant says more than the property.                              *)
LEMMA InvImplies ==
    ASSUME IInv
    PROVE  StateFollowsControl
  <1>1. frames \in Seq(Frames) /\ Depth = Len(frames) /\ Depth \in Nat /\ DOMAIN frames = 1 .. Depth
    BY LenProperties DEF IInv, TypeOK, Depth
  <1>2. ASSUME RustRuns
        PROVE  Held = {Depth} /\ ~ud /\ ~allocf
    <2>1. frames # <<>> /\ Depth \in DOMAIN frames /\ frames[Depth].held /\ ~ud /\ ~allocf
      BY <1>1, <1>2, Now DEF RustRuns, Top
    <2>2. QED
      BY <1>1, <2>1 DEF Held, IInv, HeldOnTop
  <1>3. ASSUME CRuns
        PROVE  Held = {} /\ ud # allocf
    <2>1. frames # <<>> /\ ~frames[Depth].held /\ ud # allocf
      BY <1>3, Now DEF CRuns, Top
    <2>2. QED
      BY <1>1, <2>1 DEF Held, IInv, HeldOnTop
  <1>4. QED
    BY <1>2, <1>3 DEF StateFollowsControl, IInv, HeldOnTop

(* The invariant holds in all reachable states.                            *)
LEMMA AlwaysInv == Spec => []IInv
  BY InitInv, NextKeepsInv, PTL DEF Spec

(* Every variable of the boundary keeps its type.                          *)
THEOREM BoundaryTypes == Spec => []TypeOK
  <1>1. IInv => TypeOK
    BY DEF IInv
  <1>2. QED
    BY <1>1, AlwaysInv, PTL

(* The State is where control is, for calls back and forth of any depth and*)
(* exceptions that unwind any number of them (artichoke.rs, ffi.rs,        *)
(* error.rs): no trampoline fails to extract the interpreter.              *)
THEOREM StateIsWhereControlIs == Spec => []StateFollowsControl
  BY InvImplies, AlwaysInv, PTL


-----------------------------------------------------------------------------
(* The boundary implements OneState.                                       *)

(* mrb_open_allocf was called by nobody that holds a State.                *)
OpenFirst == \A i \in 2 .. Len(frames) : frames[i].kind # "open"

(* Where the State is in the terms of OneState.                            *)
Located ==
    /\ RustRuns => Owner!InFrame(Len(frames))
    /\ CRuns => Owner!InVm
    /\ frames = <<>> => Places = {} \/ Owner!InVm

LEMMA LocatedNow == IInv => Located
  <1> SUFFICES ASSUME IInv
               PROVE  Located
    OBVIOUS
  <1>1. StateFollowsControl /\ Depth = Len(frames) /\ ud \in BOOLEAN /\ allocf \in BOOLEAN
    BY InvImplies DEF IInv, TypeOK, Depth
  <1>2. ASSUME RustRuns
        PROVE  Owner!InFrame(Len(frames))
    <2>1. Held = {Len(frames)} /\ ~ud /\ ~allocf
      BY <1>1, <1>2 DEF StateFollowsControl
    <2>2. QED
      BY <2>1 DEF Places, Owner!InFrame, Owner!Frame
  <1>3. ASSUME Held = {}, ud # allocf
        PROVE  Owner!InVm
    BY <1>1, <1>3 DEF Places, Owner!InVm
  <1>4. ASSUME frames = <<>>
        PROVE  Places = {} \/ Owner!InVm
    <2>1. Held = {} /\ ~(ud /\ allocf)
      BY <1>1, <1>4 DEF Held, StateFollowsControl
    <2>2. CASE ud # allocf
      BY <2>1, <2>2, <1>3
    <2>3. CASE ~ud /\ ~allocf
      BY <2>1, <2>3 DEF Places
    <2>4. QED
      BY <1>1, <2>1, <2>2, <2>3
  <1>5. QED
    BY <1>1, <1>2, <1>3, <1>4 DEF Located, StateFollowsControl

LEMMA LocatedNext == IInv' => Located'
  BY LocatedNow, PTL

(* Pushing a frame, and replacing the innermost one.                       *)
LEMMA PushedFrame ==
    ASSUME NEW fs \in Seq(Frames), NEW f \in Frames
    PROVE  /\ Append(fs, f) # <<>>
           /\ Len(Append(fs, f)) = Len(fs) + 1
           /\ Append(fs, f)[Len(fs) + 1] = f
           /\ \A i \in 1 .. Len(fs) : Append(fs, f)[i] = fs[i]
  BY AppendProperties, LenProperties

LEMMA ReplacedTop ==
    ASSUME IInv, frames # <<>>, NEW g \in Frames, g.kind = Top.kind, NEW gs,
           gs = [frames EXCEPT ![Depth] = g]
    PROVE  /\ gs \in Seq(Frames) /\ gs # <<>> /\ Len(gs) = Depth
           /\ \A i \in 1 .. Depth : gs[i].kind = frames[i].kind
  <1>1. frames \in Seq(Frames) /\ Depth = Len(frames) /\ Depth \in 1 .. Len(frames)
    BY Now DEF IInv, TypeOK, Depth
  <1>2. /\ gs \in Seq(Frames) /\ Len(gs) = Len(frames) /\ gs[Depth] = g
        /\ \A i \in 1 .. Len(frames) : i # Depth => gs[i] = frames[i]
    BY <1>1, ReplacedFrame
  <1>3. gs # <<>>
    BY <1>1, <1>2, EmptySeq
  <1>4. QED
    BY <1>1, <1>2, <1>3 DEF Top


(* A stack that is cut keeps the kinds of its frames.                      *)
LEMMA CutKinds ==
    ASSUME IInv, OpenFirst, NEW n \in 1 .. Len(frames),
           frames' # <<>>, Len(frames') = n,
           \A i \in 1 .. n : frames'[i].kind = frames[i].kind
    PROVE  /\ frames[n].kind \in RustKinds => RustRuns'
           /\ frames[n].kind \in CKinds => CRuns'
           /\ OpenFirst'
  <1>1. Len(frames) \in Nat /\ n \in 1 .. n /\ \A i \in 2 .. n : i \in 1 .. n /\ i \in 2 .. Len(frames)
    BY LenProperties DEF IInv, TypeOK
  <1>2. Top'.kind = frames[n].kind
    BY <1>1 DEF Top, Depth
  <1>3. OpenFirst'
    BY <1>1 DEF OpenFirst
  <1>4. QED
    BY <1>2, <1>3 DEF RustRuns, CRuns

(* A stack that grows by a frame keeps the kinds of the others.            *)
LEMMA GrownKinds ==
    ASSUME IInv, OpenFirst, NEW f \in Frames, f.kind # "open",
           NEW fs \in Seq(Frames), Len(fs) = Len(frames),
           \A i \in 1 .. Len(frames) : fs[i].kind = frames[i].kind,
           frames' = Append(fs, f)
    PROVE  /\ Len(frames') = Len(frames) + 1
           /\ f.kind \in RustKinds => RustRuns'
           /\ f.kind \in CKinds => CRuns'
           /\ OpenFirst'
  <1>1. Len(frames) \in Nat
    BY LenProperties DEF IInv, TypeOK
  <1>2. /\ frames' # <<>> /\ Len(frames') = Len(frames) + 1
        /\ frames'[Len(frames) + 1] = f
        /\ \A i \in 1 .. Len(frames) : frames'[i] = fs[i]
    BY PushedFrame
  <1>3. Top' = f
    BY <1>2 DEF Top, Depth
  <1>4. ASSUME NEW i \in 2 .. Len(frames')
        PROVE  frames'[i].kind # "open"
    <2>1. CASE i = Len(frames) + 1
      BY <1>2, <2>1
    <2>2. CASE i # Len(frames) + 1
      <3>1. i \in 2 .. Len(frames) /\ i \in 1 .. Len(frames)
        BY <1>1, <1>2, <2>2
      <3>2. QED
        BY <1>2, <3>1 DEF OpenFirst
    <2>3. QED
      BY <2>1, <2>2
  <1>5. QED
    BY <1>2, <1>3, <1>4 DEF RustRuns, CRuns, OpenFirst

(* Each action of the boundary is one of OneState, or moves nothing.       *)
LEMMA CallIsLend ==
    ASSUME IInv, IInv', OpenFirst, NEW kind \in {"protected", "unprotected"}, CallC(kind)
    PROVE  Owner!Lend /\ OpenFirst'
  <1> DEFINE f == [Top EXCEPT !.held = FALSE]
             fs == [frames EXCEPT ![Depth].held = FALSE]
  <1>1. frames # <<>> /\ frames \in Seq(Frames) /\ Depth = Len(frames) /\ Depth \in Nat /\ Depth >= 1 /\ Top \in Frames
    BY Now DEF CallC, RustRuns, IInv, TypeOK, Depth
  <1>2. f \in Frames /\ f.kind = Top.kind /\ fs = [frames EXCEPT ![Depth] = f]
    BY <1>1 DEF Frames, Top
  <1> HIDE DEF f, fs
  <1>3. fs \in Seq(Frames) /\ Len(fs) = Depth /\ \A i \in 1 .. Depth : fs[i].kind = frames[i].kind
    BY <1>1, <1>2, ReplacedTop
  <1>4. CFrame(kind) \in Frames /\ CFrame(kind).kind = kind /\ kind \in CKinds
    BY EmptySeq DEF CFrame, Frames, CKinds, IInv, TypeOK
  <1>5. frames' = Append(fs, CFrame(kind)) /\ RustRuns
    BY DEF CallC, fs
  <1>6. Len(frames') = Len(frames) + 1 /\ CRuns' /\ OpenFirst'
    BY <1>1, <1>3, <1>4, <1>5, GrownKinds
  <1>7. Owner!InFrame(Len(frames)) /\ Owner!InVm'
    BY <1>5, <1>6, LocatedNow, LocatedNext DEF Located
  <1>8. QED
    BY <1>1, <1>6, <1>7 DEF Owner!Lend, Owner!InVm, Owner!ToVm

LEMMA CReturnsIsTakeBack ==
    ASSUME IInv, IInv', OpenFirst, CReturns
    PROVE  Owner!TakeBack /\ OpenFirst'
  <1> DEFINE n == Depth - 1
             f == [frames[n] EXCEPT !.held = Extracted]
             gs == [Front(frames) EXCEPT ![n] = f]
  <1>1. frames # <<>> /\ frames \in Seq(Frames) /\ Depth = Len(frames) /\ Depth \in Nat /\ Depth > 1 /\ CRuns
    BY Now DEF CReturns, CRuns, IInv, TypeOK, Depth
  <1>2. n \in 1 .. Depth /\ n \in 1 .. n /\ frames[n].kind \in RustKinds /\ frames[n] \in Frames
    <2>1. Top.kind \in CKinds
      BY <1>1 DEF CRuns
    <2>2. QED
      BY <1>1, <2>1, Now, Caller
  <1>3. /\ Front(frames) \in Seq(Frames) /\ Len(Front(frames)) = n
        /\ \A i \in 1 .. n : Front(frames)[i] = frames[i]
    BY <1>1, FrontProperties
  <1>4. f \in Frames /\ f.kind = frames[n].kind
    BY <1>2 DEF Frames, Extracted, IInv, TypeOK
  <1>5. frames' = gs
    BY <1>2, <1>3 DEF CReturns
  <1> HIDE DEF f
  <1>6. /\ frames' \in Seq(Frames) /\ Len(frames') = n /\ frames'[n] = f
        /\ \A i \in 1 .. n : i # n => frames'[i] = frames[i]
    BY <1>2, <1>3, <1>4, <1>5, ReplacedFrame
  <1> HIDE DEF gs
  <1>7. frames' # <<>> /\ \A i \in 1 .. n : frames'[i].kind = frames[i].kind
    BY <1>2, <1>4, <1>6, EmptySeq
  <1>8. RustRuns' /\ OpenFirst'
    BY <1>1, <1>2, <1>6, <1>7, CutKinds
  <1>9. Owner!InVm /\ Owner!InFrame(Len(frames))'
    BY <1>1, <1>8, LocatedNow, LocatedNext DEF Located
  <1>10. QED
    BY <1>1, <1>6, <1>8, <1>9 DEF Owner!TakeBack, Owner!InFrame, Owner!ToFrame

LEMMA OpenReturnsIsOpen ==
    ASSUME IInv, IInv', OpenFirst, OpenReturns
    PROVE  Owner!Open /\ OpenFirst'
  <1>1. frames # <<>> /\ Depth = Len(frames) /\ Depth \in Nat /\ Depth >= 1 /\ CRuns /\ Top.kind = "open"
    BY Now DEF OpenReturns, CRuns, Depth
  <1>2. Depth = 1
    BY <1>1 DEF OpenFirst, Top
  <1>3. Len(frames') = 1 /\ frames' # <<>> /\ frames'[1].kind = "host"
    BY DEF OpenReturns, RustFrame
  <1>4. RustRuns' /\ OpenFirst'
    BY <1>3 DEF RustRuns, Top, Depth, RustKinds, OpenFirst
  <1>5. Owner!InVm /\ Owner!InFrame(Len(frames))'
    BY <1>1, <1>4, LocatedNow, LocatedNext DEF Located
  <1>6. QED
    BY <1>1, <1>2, <1>3, <1>4, <1>5 DEF Owner!Open, Owner!InFrame, Owner!ToFrame

LEMMA EnterIsTake ==
    ASSUME IInv, IInv', OpenFirst, Enter
    PROVE  Owner!Take /\ OpenFirst'
  <1> DEFINE f == RustFrame("trampoline", TRUE, <<arena>>)
  <1>1. frames \in Seq(Frames) /\ arena \in Nat /\ CRuns /\ frames' = Append(frames, f) /\ Len(frames) \in Nat
    BY LenProperties DEF Enter, IInv, TypeOK
  <1>2. f \in Frames /\ f.kind = "trampoline"
    BY <1>1 DEF RustFrame, Frames, RustKinds
  <1> HIDE DEF f
  <1>3. Len(frames') = Len(frames) + 1 /\ RustRuns' /\ OpenFirst'
    BY <1>1, <1>2, GrownKinds DEF RustKinds
  <1>4. Owner!InVm /\ Owner!InFrame(Len(frames))'
    BY <1>1, <1>3, LocatedNow, LocatedNext DEF Located
  <1>5. QED
    BY <1>3, <1>4 DEF Owner!Take, Owner!InFrame, Owner!ToFrame

LEMMA ReturnIsGiveBack ==
    ASSUME IInv, IInv', OpenFirst, Return
    PROVE  Owner!GiveBack /\ OpenFirst'
  <1> DEFINE n == Depth - 1
  <1>1. frames # <<>> /\ frames \in Seq(Frames) /\ Depth = Len(frames) /\ Depth \in Nat /\ RustRuns
    BY Now DEF Return, RustRuns, IInv, TypeOK, Depth
  <1>2. n \in 1 .. Len(frames) /\ frames[n].kind \in CKinds
    BY <1>1, Caller DEF Return
  <1>3. Len(frames') = n /\ \A i \in 1 .. n : frames'[i] = frames[i]
    BY <1>1, FrontProperties DEF Return
  <1>4. frames' # <<>>
    BY <1>2, <1>3
  <1>5. CRuns' /\ OpenFirst'
    BY <1>2, <1>3, <1>4, CutKinds
  <1>6. Owner!InFrame(Len(frames)) /\ Owner!InVm'
    BY <1>1, <1>5, LocatedNow, LocatedNext DEF Located
  <1>7. QED
    BY <1>1, <1>2, <1>3, <1>5, <1>6 DEF Owner!GiveBack, Owner!InVm, Owner!ToVm


LEMMA InvAfter == IInv' => StateFollowsControl'
  BY InvImplies, PTL

(* A longjmp cuts the stack at the frame of C that catches it.             *)
LEMMA LandIsJump ==
    ASSUME IInv, IInv', OpenFirst, NEW i \in 1 .. Depth, Raise(i) \/ CRaises(i)
    PROVE  Owner!Jump /\ OpenFirst'
  <1>1. frames # <<>> /\ frames \in Seq(Frames) /\ Depth = Len(frames) /\ Depth \in Nat /\ Depth >= 1
    BY Now DEF Raise, CRaises, RustRuns, CRuns, IInv, TypeOK, Depth
  <1>2. frames' = SubSeq(frames, 1, i) /\ frames[i].kind \in CKinds
    BY DEF Raise, CRaises, Land, LandPending, Catches, CKinds
  <1>3. Len(frames') = i /\ \A j \in 1 .. i : frames'[j] = frames[j]
    BY <1>1, <1>2, PrefixProperties
  <1>4. frames' # <<>>
    BY <1>3
  <1>5. CRuns' /\ OpenFirst'
    BY <1>1, <1>2, <1>3, <1>4, CutKinds
  <1>6. CASE Raise(i)
    <2>1. Owner!InFrame(Len(frames)) /\ Owner!InVm' /\ i < Len(frames)
      BY <1>1, <1>5, <1>6, LocatedNow, LocatedNext DEF Located, Raise
    <2>2. QED
      BY <1>1, <1>3, <1>5, <2>1 DEF Owner!Jump, Owner!InVm, Owner!ToVm
  <1>7. CASE CRaises(i)
    <2>1. Owner!InVm /\ CRuns /\ ud' = ud /\ allocf' = allocf
      BY <1>7, LocatedNow DEF Located, CRaises
    <2>2. Held = {} /\ Held' = {}
      BY <1>5, <2>1, InvImplies, InvAfter DEF StateFollowsControl
    <2>3. Places' = Places
      BY <2>1, <2>2 DEF Places
    <2>4. QED
      BY <1>1, <1>3, <1>5, <2>1, <2>3 DEF Owner!Jump
  <1>8. QED
    BY <1>6, <1>7

(* The interpreter is closed, or turned into a raw pointer and back.       *)
LEMMA CloseIsDrop ==
    ASSUME IInv, IInv', Close
    PROVE  Owner!Drop /\ OpenFirst'
  <1>1. Len(frames) = 1 /\ frames # <<>> /\ RustRuns /\ frames' = <<>> /\ ud' = ud /\ allocf' = allocf
    BY EmptySeq DEF Close, HostRuns, RustRuns, RustKinds, Depth
  <1>2. Owner!InFrame(1) /\ ~ud /\ ~allocf
    BY <1>1, LocatedNow, InvImplies DEF Located, StateFollowsControl
  <1>3. Held' = {} /\ Len(frames') = 0
    BY <1>1, EmptySeq DEF Held
  <1>4. Places' = {} /\ OpenFirst'
    BY <1>1, <1>2, <1>3 DEF Places, OpenFirst
  <1>5. QED
    BY <1>1, <1>2, <1>3, <1>4 DEF Owner!Drop

LEMMA IntoRawIsGiveBack ==
    ASSUME IInv, IInv', IntoRaw
    PROVE  Owner!GiveBack /\ OpenFirst'
  <1>1. Len(frames) = 1 /\ frames # <<>> /\ RustRuns /\ frames' = <<>> /\ ud' = Top.held /\ allocf' = allocf
    BY EmptySeq DEF IntoRaw, HostRuns, RustRuns, RustKinds, Depth
  <1>2. Owner!InFrame(1) /\ Top.held /\ ~allocf
    BY <1>1, LocatedNow, Now DEF Located
  <1>3. Held' = {} /\ Len(frames') = 0
    BY <1>1, EmptySeq DEF Held
  <1>4. ud' /\ ~allocf'
    BY <1>1, <1>2
  <1>5. Places' = {UserData} /\ OpenFirst'
    BY <1>3, <1>4 DEF Places, OpenFirst
  <1>6. QED
    BY <1>1, <1>2, <1>3, <1>5 DEF Owner!GiveBack, Owner!ToVm

LEMMA FromRawIsTake ==
    ASSUME IInv, IInv', FromRaw
    PROVE  Owner!Take /\ OpenFirst'
  <1>1. frames = <<>> /\ Len(frames) = 0 /\ Extracted
    BY EmptySeq DEF FromRaw
  <1>2. Len(frames') = 1 /\ frames' # <<>> /\ frames'[1].kind = "host"
    BY DEF FromRaw, RustFrame
  <1>3. RustRuns' /\ OpenFirst'
    BY <1>2 DEF RustRuns, Top, Depth, RustKinds, OpenFirst
  <1>4. Places # {}
    BY <1>1 DEF Extracted, Places
  <1>5. Owner!InVm /\ Owner!InFrame(Len(frames))'
    BY <1>1, <1>3, <1>4, LocatedNow, LocatedNext DEF Located
  <1>6. QED
    BY <1>1, <1>2, <1>3, <1>5 DEF Owner!Take, Owner!InFrame, Owner!ToFrame

(* Savepoints come and go without the State.                               *)
LEMMA SavingMovesNothing ==
    ASSUME IInv, IInv', OpenFirst, Save \/ Restore
    PROVE  UNCHANGED <<Len(frames), Places>> /\ OpenFirst'
  <1> DEFINE f == Top
             saves == IF Save THEN Append(f.saves, arena) ELSE Front(f.saves)
             g == [f EXCEPT !.saves = saves]
  <1>1. frames # <<>> /\ Depth = Len(frames) /\ Depth \in 1 .. Len(frames) /\ RustRuns
    BY Now DEF Save, Restore, RustRuns, Depth
  <1>2. f \in Frames /\ f.saves \in Seq(Nat) /\ arena \in Nat /\ frames' = [frames EXCEPT ![Depth] = g]
    BY <1>1, Now DEF Save, Restore, Top, Frames, IInv, TypeOK
  <1> HIDE DEF f
  <1>3. saves \in Seq(Nat)
    <2>1. CASE Save
      BY <1>2, <2>1, AppendProperties
    <2>2. CASE ~Save
      <3>1. f.saves # <<>>
        BY <2>2, EmptySeq DEF Restore, Owned, f
      <3>2. QED
        BY <1>2, <2>2, <3>1, FrontProperties
    <2>3. QED
      BY <2>1, <2>2
  <1> HIDE DEF saves
  <1>4. g \in Frames /\ g.kind = f.kind
    BY <1>2, <1>3 DEF Frames
  <1> HIDE DEF g
  <1>5. /\ frames' # <<>> /\ Len(frames') = Depth
        /\ \A i \in 1 .. Depth : frames'[i].kind = frames[i].kind
    BY <1>1, <1>2, <1>4, ReplacedTop DEF f
  <1>6. RustRuns' /\ OpenFirst'
    BY <1>1, <1>5, CutKinds DEF RustRuns, Top
  <1>7. Places = {Owner!Frame(Len(frames))} /\ Places' = {Owner!Frame(Len(frames'))}
    BY <1>1, <1>6, LocatedNow, LocatedNext DEF Located, Owner!InFrame, Owner!Frame
  <1>8. QED
    BY <1>1, <1>5, <1>6, <1>7

(* Every step of the boundary is a step of OneState, or a stutter.         *)
LEMMA StepMaps ==
    ASSUME IInv, IInv', OpenFirst, [Next]_vars
    PROVE  [Owner!Next]_<<Len(frames), Places>> /\ OpenFirst'
  <1> USE DEF Owner!Next
  <1>1. ASSUME NEW kind \in {"protected", "unprotected"}, CallC(kind)
        PROVE  Owner!Next /\ OpenFirst'
    BY <1>1, CallIsLend
  <1>2. ASSUME NEW i \in 1 .. Depth, Raise(i) \/ CRaises(i)
        PROVE  Owner!Next /\ OpenFirst'
    BY <1>2, LandIsJump
  <1>3. ASSUME UNCHANGED <<frames, ud, allocf>>
        PROVE  UNCHANGED <<Len(frames), Places>> /\ OpenFirst'
    BY <1>3 DEF Places, Held, OpenFirst
  <1>4. CASE CReturns \/ OpenReturns \/ Enter \/ Return
    BY <1>4, CReturnsIsTakeBack, OpenReturnsIsOpen, EnterIsTake, ReturnIsGiveBack
  <1>5. CASE Allocate \/ CRestores \/ UNCHANGED vars
    BY <1>3, <1>5 DEF Allocate, CRestores, vars
  <1>6. CASE Save \/ Restore
    BY <1>6, SavingMovesNothing
  <1>7. CASE Close \/ IntoRaw \/ FromRaw
    BY <1>7, CloseIsDrop, IntoRawIsGiveBack, FromRawIsTake
  <1>8. QED
    BY <1>1, <1>2, <1>4, <1>5, <1>6, <1>7 DEF Next

(* For calls back and forth of any depth, with exceptions that unwind any  *)
(* number of them, the boundary implements OneState: one State moves with  *)
(* control (artichoke.rs, ffi.rs, macros.rs, error.rs), and is gone for    *)
(* good once the interpreter is closed.                                    *)
THEOREM ImplementsOneState == Spec => KeepsOneState
  <1>1. Init => OpenFirst /\ Owner!Init
    <2> SUFFICES ASSUME Init
                 PROVE  OpenFirst /\ Owner!Init
      OBVIOUS
    <2>1. Len(frames) = 1 /\ CRuns
      BY DEF Init, CRuns, Top, Depth, CKinds
    <2>2. Owner!InVm
      BY <2>1, InitInv, LocatedNow DEF Located
    <2>3. QED
      BY <2>1, <2>2 DEF OpenFirst, Owner!Init
  <1>2. IInv /\ IInv' /\ OpenFirst /\ [Next]_vars => [Owner!Next]_<<Len(frames), Places>> /\ OpenFirst'
    BY StepMaps
  <1>3. QED
    BY <1>1, <1>2, AlwaysInv, PTL DEF Spec, KeepsOneState, Owner!Spec

(* OneState itself: the State is never in two places, nor in a frame that  *)
(* is not the innermost one, and is lost only when it is dropped.          *)
THEOREM OnePlaceAtATime == KeepsOneState => []Owner!TypeOK
  <1>1. Owner!Init => Owner!TypeOK
    BY DEF Owner!Init, Owner!TypeOK
  <1>2. Owner!TypeOK /\ [Owner!Next]_<<Len(frames), Places>> => Owner!TypeOK'
    <2> SUFFICES ASSUME Owner!TypeOK, [Owner!Next]_<<Len(frames), Places>>
                 PROVE  Owner!TypeOK'
      OBVIOUS
    <2> USE DEF Owner!TypeOK
    <2>1. ASSUME Owner!InVm \/ Owner!ToVm, Len(frames') \in Nat, Owner!ToVm \/ UNCHANGED Places
          PROVE  Owner!TypeOK'
      BY <2>1 DEF Owner!InVm, Owner!ToVm
    <2>2. CASE Owner!Lend \/ Owner!GiveBack
      <3>1. Len(frames') \in Nat /\ Owner!ToVm
        BY <2>2 DEF Owner!Lend, Owner!GiveBack
      <3>2. QED
        BY <2>1, <3>1
    <2>3. CASE Owner!Jump
      <3>1. Len(frames') \in Nat
        BY <2>3 DEF Owner!Jump
      <3>2. QED
        BY <2>1, <2>3, <3>1 DEF Owner!Jump
    <2>4. CASE Owner!Open \/ Owner!Take \/ Owner!TakeBack
      <3>1. PICK n \in Nat : n > 0 /\ Len(frames') = n /\ Owner!ToFrame(n)
        <4>1. CASE Owner!Open
          BY <4>1 DEF Owner!Open
        <4>2. CASE Owner!Take
          BY <4>2 DEF Owner!Take
        <4>3. CASE Owner!TakeBack
          BY <4>3 DEF Owner!TakeBack
        <4>4. QED
          BY <2>4, <4>1, <4>2, <4>3
      <3>2. QED
        BY <3>1 DEF Owner!ToFrame, Owner!InFrame
    <2>5. CASE Owner!Drop
      BY <2>5 DEF Owner!Drop
    <2>6. CASE UNCHANGED <<Len(frames), Places>>
      BY <2>6 DEF Owner!InVm, Owner!InFrame
    <2>7. QED
      BY <2>2, <2>3, <2>4, <2>5, <2>6 DEF Owner!Next
  <1>3. QED
    BY <1>1, <1>2, PTL DEF KeepsOneState, Owner!Spec

=============================================================================
