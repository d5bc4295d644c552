--------------------------- MODULE Display_proofs ---------------------------
(***************************************************************************)
(* Proofs about the mailbox, for any queries, depths of the FIFOs, old     *)
(* answers and messages of other channels, and about the text console, for *)
(* any size of the screen, bytes and colours: it implements Terminal.      *)
(***************************************************************************)
EXTENDS Display, TLAPS

(***************************************************************************)
(* The mailbox.                                                            *)
(***************************************************************************)

Messages == [channel : {8}, addr : Buffers]

\* The GPU has at most one request at hand, and is sent requests only.
TypeOK == /\ mbCall = Idle \/ mbCall \in [of : Buffers, at : {"write", "read"}]
          /\ toGpu \in Seq(Messages)
          /\ gpu = << >> \/ \E m \in Messages : gpu = << m >>
          /\ DOMAIN buffer = Buffers
          /\ toArm \in Seq({toArm[i] : i \in DOMAIN toArm})
          /\ inStep \in BOOLEAN

\* A buffer that says success holds the answer to its own request.
BuffersRight == \A b \in Buffers : Succeeded(b) => buffer[b].data = b \/ NoMemory(b)

\* No answer is in the FIFO s; exactly one is, and it is m.
Clear(s) == \A i \in 1 .. Len(s) : s[i] = Other
One(s, m) == \E k \in 1 .. Len(s) : s[k] = m /\ \A i \in 1 .. Len(s) : i # k => s[i] = Other

\* The request of the call under way is in one place: on its way to the GPU,
\* at the GPU, or on its way back.
InOnePlace ==
  LET m == Property(mbCall.of)
  IN  \/ toGpu = << m >> /\ gpu = << >> /\ Clear(toArm)
      \/ toGpu = << >> /\ gpu = << m >> /\ Clear(toArm)
      \/ toGpu = << >> /\ gpu = << >> /\ One(toArm, m)

InFlight == inStep => IF mbCall.at = "read" THEN InOnePlace
                      ELSE toGpu = << >> /\ gpu = << >> /\ Clear(toArm)

Results == result.ok => result.data = result.of

MInv == TypeOK /\ BuffersRight /\ InFlight /\ Results

-----------------------------------------------------------------------------
(***************************************************************************)
(* FIFOs.                                                                  *)
(***************************************************************************)

\* Sequences over the set of their elements.
LEMMA Fifo ==
  ASSUME NEW S, NEW s \in Seq(S)
  PROVE  /\ DOMAIN s = 1 .. Len(s) /\ Len(s) \in Nat
         /\ s \in Seq({s[i] : i \in DOMAIN s})
OBVIOUS

LEMMA ClearTail ==
  ASSUME NEW S, NEW s \in Seq(S), s # << >>, Clear(s)
  PROVE  Clear(Tail(s)) /\ Head(s) = Other
<1>1. Len(s) \in Nat /\ Len(s) >= 1 /\ Len(Tail(s)) = Len(s) - 1 /\ Head(s) = s[1]
  OBVIOUS
<1>2. \A i \in 1 .. Len(s) - 1 : Tail(s)[i] = s[i + 1]
  OBVIOUS
<1> DEFINE n == Len(s)
<1> HIDE DEF n
<1>3. \A i \in 1 .. n - 1 : i + 1 \in 1 .. n
  BY <1>1 DEF n
<1> QED BY <1>1, <1>2, <1>3 DEF Clear, n

LEMMA OneTail ==
  ASSUME NEW S, NEW s \in Seq(S), NEW m, m # Other, One(s, m)
  PROVE  /\ s # << >>
         /\ Head(s) = m => Clear(Tail(s))
         /\ Head(s) # m => Head(s) = Other /\ One(Tail(s), m)
<1> DEFINE n == Len(s)
           t == Tail(s)
<1>1. PICK k \in 1 .. n : s[k] = m /\ \A i \in 1 .. n : i # k => s[i] = Other
  BY DEF One
<1>2. n \in Nat /\ n >= 1 /\ s # << >>
  BY <1>1
<1>3. Len(t) = n - 1 /\ Head(s) = s[1] /\ \A i \in 1 .. n - 1 : t[i] = s[i + 1]
  BY <1>2
<1> HIDE DEF n, t
<1>4. \A i \in 1 .. n - 1 : i + 1 \in 1 .. n /\ i + 1 # 1
  BY <1>2
<1>5. ASSUME Head(s) = m PROVE Clear(t)
  <2>1. 1 \in 1 .. n
    BY <1>2
  <2>2. k = 1
    BY <1>1, <1>3, <1>5, <2>1
  <2> QED BY <2>2, <1>1, <1>3, <1>4 DEF Clear
<1>6. ASSUME Head(s) # m PROVE Head(s) = Other /\ One(t, m)
  <2>1. k # 1 /\ 1 \in 1 .. n
    BY <1>1, <1>2, <1>3, <1>6
  <2>2. k - 1 \in 1 .. n - 1 /\ (k - 1) + 1 = k
    BY <1>2, <2>1
  <2>3. t[k - 1] = m
    BY <1>1, <1>3, <2>2
  <2>4. ASSUME NEW i \in 1 .. n - 1, i # k - 1 PROVE t[i] = Other
    <3>1. i + 1 # k /\ i + 1 \in 1 .. n
      BY <2>4, <1>4
    <3> QED BY <3>1, <1>1, <1>3
  <2>5. Head(s) = Other
    BY <1>1, <1>3, <2>1
  <2> QED BY <2>2, <2>3, <2>4, <2>5, <1>3 DEF One
<1> QED BY <1>2, <1>5, <1>6 DEF t

LEMMA Appended ==
  ASSUME NEW S, NEW s \in Seq(S), NEW x
  PROVE  /\ Append(s, x) \in Seq(S \cup {x}) /\ s \o << x >> = Append(s, x)
         /\ Clear(s) /\ x = Other => Clear(Append(s, x))
         /\ Clear(s) => One(Append(s, x), x)
         /\ \A m : One(s, m) /\ x = Other => One(Append(s, x), m)
<1> DEFINE n == Len(s)
           t == Append(s, x)
<1>1. n \in Nat /\ t \in Seq(S \cup {x}) /\ Len(t) = n + 1 /\ (\A i \in 1 .. n : t[i] = s[i]) /\ t[n + 1] = x
  OBVIOUS
<1>2. s \o << x >> = t
  OBVIOUS
<1> HIDE DEF n, t
<1>3. (\A i \in 1 .. n + 1 : i \in 1 .. n \/ i = n + 1) /\ n + 1 \in 1 .. n + 1
  BY <1>1
<1>4. ASSUME Clear(s), x = Other PROVE Clear(t)
  BY <1>1, <1>3, <1>4 DEF Clear, n
<1>5. ASSUME Clear(s) PROVE One(t, x)
  BY <1>1, <1>3, <1>5 DEF Clear, One, n
<1>6. ASSUME NEW m, One(s, m), x = Other PROVE One(t, m)
  <2>1. PICK k \in 1 .. n : s[k] = m /\ \A i \in 1 .. n : i # k => s[i] = Other
    BY <1>6 DEF One, n
  <2>2. k \in 1 .. n + 1
    BY <1>1
  <2> QED BY <1>1, <1>3, <1>6, <2>1, <2>2 DEF One
<1> QED BY <1>1, <1>2, <1>4, <1>5, <1>6 DEF t
-----------------------------------------------------------------------------
(***************************************************************************)
(* The driver and the GPU.                                                 *)
(***************************************************************************)
LEMMA Apart == /\ \A b : Property(b) # Other /\ Property(b).channel = 8 /\ Property(b).addr = b
               /\ Other.channel # 8
               /\ \A b \in Buffers : Property(b) \in Messages
               /\ Idle.at = "idle"
               /\ \A b, a : [of |-> b, at |-> a].at = a /\ [of |-> b, at |-> a].of = b
BY DEF Property, Other, Messages, Idle

LEMMA CallFacts ==
  ASSUME TypeOK, mbCall.at \in {"write", "read"}
  PROVE  mbCall.of \in Buffers /\ mbCall = [of |-> mbCall.of, at |-> mbCall.at]
BY Apart DEF TypeOK

\* The calls start.
LEMMA CallSteps ==
  ASSUME MInv, NEW q, (q \in Queries /\ query(q)) \/ framebuffer_new \/ call_unaligned
  PROVE  MInv'
<1>1. UNCHANGED <<toGpu, toArm, gpu, inStep>> /\ mbCall = Idle
  BY DEF query, framebuffer_new, call_unaligned
<1>2. CASE q \in Queries /\ query(q)
  <2>1. mbCall' = [of |-> q, at |-> "write"] /\ UNCHANGED <<buffer, result>> /\ q \in Buffers
    BY <1>2 DEF query, Buffers
  <2>2. TypeOK'
    BY <1>1, <2>1 DEF MInv, TypeOK
  <2>3. BuffersRight' /\ Results'
    BY <2>1 DEF MInv, BuffersRight, Results, Succeeded, NoMemory
  <2>4. InFlight'
    BY <1>1, <2>1, Apart DEF MInv, InFlight, Clear
  <2> QED BY <2>2, <2>3, <2>4 DEF MInv
<1>3. CASE framebuffer_new
  <2>1. mbCall' = [of |-> Frame, at |-> "write"] /\ UNCHANGED result /\ Frame \in Buffers
    BY <1>3 DEF framebuffer_new, Buffers
  <2>2. buffer' = [buffer EXCEPT ![Frame] = Request] /\ DOMAIN buffer = Buffers
    BY <1>3 DEF framebuffer_new, MInv, TypeOK
  <2>3. TypeOK'
    BY <1>1, <2>1, <2>2 DEF MInv, TypeOK
  <2>4. BuffersRight'
    <3> SUFFICES ASSUME NEW b \in Buffers, Succeeded(b)' PROVE buffer'[b].data = b \/ NoMemory(b)'
      BY DEF BuffersRight
    <3>1. b # Frame
      BY <2>1, <2>2 DEF Succeeded, Request
    <3>2. buffer'[b] = buffer[b]
      BY <3>1, <2>2
    <3> QED BY <3>2 DEF MInv, BuffersRight, Succeeded, NoMemory
  <2>5. InFlight'
    BY <1>1, <2>1, Apart DEF MInv, InFlight, Clear
  <2> QED BY <2>1, <2>3, <2>4, <2>5 DEF MInv, Results
<1>4. CASE call_unaligned
  <2>1. result' = [of |-> "unaligned", ok |-> FALSE] /\ UNCHANGED <<buffer, mbCall>>
    BY <1>4 DEF call_unaligned
  <2>2. TypeOK' /\ BuffersRight'
    BY <1>1, <2>1 DEF MInv, TypeOK, BuffersRight, Succeeded, NoMemory
  <2>3. InFlight'
    BY <1>1, <2>1 DEF MInv, InFlight, InOnePlace, Clear, One
  <2>4. Results'
    BY <2>1 DEF Results
  <2> QED BY <2>2, <2>3, <2>4 DEF MInv
<1> QED BY <1>2, <1>3, <1>4

LEMMA WriteStep ==
  ASSUME MInv, write_data
  PROVE  MInv'
<1>1. /\ mbCall.at = "write" /\ toGpu' = Append(toGpu, Property(mbCall.of)) /\ mbCall' = [mbCall EXCEPT !.at = "read"]
      /\ UNCHANGED <<toArm, buffer, gpu, result, inStep>>
  BY DEF write_data
<1>2. mbCall.of \in Buffers /\ mbCall = [of |-> mbCall.of, at |-> "write"]
  BY <1>1, CallFacts DEF MInv
<1>3. mbCall' = [of |-> mbCall.of, at |-> "read"]
  BY <1>1, <1>2
<1>4. TypeOK'
  <2>1. toGpu' \in Seq(Messages)
    BY <1>1, <1>2, Apart DEF MInv, TypeOK
  <2>2. mbCall' \in [of : Buffers, at : {"write", "read"}]
    BY <1>2, <1>3
  <2> QED BY <1>1, <2>1, <2>2 DEF MInv, TypeOK
<1>5. InFlight'
  <2> SUFFICES ASSUME inStep PROVE InOnePlace'
    BY <1>1, <1>3, Apart DEF InFlight
  <2>1. toGpu = << >> /\ gpu = << >> /\ Clear(toArm)
    BY <1>1 DEF MInv, InFlight
  <2>2. toGpu' = << Property(mbCall'.of) >>
    BY <1>1, <1>3, <2>1
  <2> QED BY <1>1, <2>1, <2>2 DEF InOnePlace, Clear
<1> QED BY <1>1, <1>4, <1>5 DEF MInv, BuffersRight, Results, Succeeded, NoMemory

\* The driver takes a message from the FIFO.
LEMMA ReceiveSteps ==
  ASSUME MInv, skip_message \/ wrong_address \/ own_address
  PROVE  MInv'
<1>1. /\ mbCall.at = "read" /\ toArm # << >> /\ toArm' = Tail(toArm)
      /\ UNCHANGED <<toGpu, buffer, gpu, inStep>>
  BY DEF skip_message, wrong_address, own_address, Received
<1>2. mbCall.of \in Buffers
  BY <1>1, CallFacts DEF MInv
<1> DEFINE S == {toArm[i] : i \in DOMAIN toArm}
           m == Property(mbCall.of)
<1>3. toArm \in Seq(S)
  BY DEF MInv, TypeOK
<1> HIDE DEF S
<1>4. toArm' \in Seq({toArm'[i] : i \in DOMAIN toArm'})
  <2>1. toArm' \in Seq(S)
    BY <1>1, <1>3
  <2> QED BY <2>1, Fifo
<1>5. BuffersRight'
  BY <1>1 DEF MInv, BuffersRight, Succeeded, NoMemory
<1>6. ASSUME inStep, InOnePlace PROVE \/ Head(toArm) = Other /\ InOnePlace
                                      \/ Head(toArm) = m /\ toGpu = << >> /\ gpu = << >> /\ Clear(Tail(toArm))
  <2>1. CASE Clear(toArm)
    BY <1>1, <1>3, <1>6, <2>1, ClearTail
  <2>2. CASE toGpu = << >> /\ gpu = << >> /\ One(toArm, m)
    BY <1>3, <1>6, <2>2, OneTail, Apart
  <2> QED BY <1>6, <2>1, <2>2 DEF InOnePlace
<1>7. CASE skip_message
  <2>1. Head(toArm).channel # 8 /\ UNCHANGED <<mbCall, result>>
    BY <1>7 DEF skip_message
  <2>2. TypeOK'
    BY <1>1, <1>4, <2>1 DEF MInv, TypeOK
  <2>3. ASSUME inStep PROVE InOnePlace'
    <3>1. InOnePlace
      BY <1>1, <2>3 DEF MInv, InFlight
    <3>2. Head(toArm) # m
      BY <2>1, Apart
    <3>3. Clear(toArm) => Clear(Tail(toArm))
      BY <1>1, <1>3, ClearTail
    <3>4. One(toArm, m) => One(Tail(toArm), m)
      BY <1>3, <3>2, OneTail, Apart
    <3> QED BY <1>1, <2>1, <3>1, <3>3, <3>4 DEF InOnePlace, Clear, One
  <2>4. InFlight'
    BY <1>1, <2>1, <2>3 DEF InFlight
  <2> QED BY <1>5, <2>1, <2>2, <2>4 DEF MInv, Results
<1>8. CASE wrong_address \/ own_address
  <2>1. Head(toArm).channel = 8 /\ mbCall' = Idle
    BY <1>8 DEF wrong_address, own_address
  <2>2. TypeOK'
    BY <1>1, <1>4, <2>1 DEF MInv, TypeOK
  <2>3. InFlight'
    <3> SUFFICES ASSUME inStep PROVE toGpu = << >> /\ gpu = << >> /\ Clear(Tail(toArm))
      BY <1>1, <2>1, Apart DEF InFlight, Clear
    <3>1. InOnePlace
      BY <1>1 DEF MInv, InFlight
    <3>2. Head(toArm) # Other
      BY <2>1, Apart
    <3> QED BY <1>6, <3>1, <3>2
  <2>4. Results'
    <3>1. CASE wrong_address
      <4>1. result' = [of |-> mbCall.of, ok |-> FALSE]
        BY <3>1 DEF wrong_address
      <4> QED BY <4>1 DEF Results
    <3>2. CASE own_address /\ Succeeded(mbCall.of) /\ ~ NoMemory(mbCall.of)
      <4>1. result' = [of |-> mbCall.of, ok |-> TRUE, data |-> buffer[mbCall.of].data]
        BY <3>2 DEF own_address
      <4>2. buffer[mbCall.of].data = mbCall.of
        BY <1>2, <3>2 DEF MInv, BuffersRight
      <4> QED BY <4>1, <4>2 DEF Results
    <3>3. CASE own_address /\ ~ (Succeeded(mbCall.of) /\ ~ NoMemory(mbCall.of))
      <4>1. result' = [of |-> mbCall.of, ok |-> FALSE]
        BY <3>3 DEF own_address
      <4> QED BY <4>1 DEF Results
    <3> QED BY <1>8, <3>1, <3>2, <3>3
  <2> QED BY <1>5, <2>2, <2>3, <2>4 DEF MInv
<1> QED BY <1>7, <1>8

LEMMA GpuWritesStep ==
  ASSUME MInv, gpu_writes
  PROVE  MInv'
<1> DEFINE h == Head(toGpu)
           b == h.addr
<1>1. /\ gpu = << >> /\ toGpu # << >> /\ gpu' = << h >> /\ toGpu' = Tail(toGpu)
      /\ UNCHANGED <<toArm, mbCall, result, inStep>>
  BY DEF gpu_writes
<1>2. h \in Messages /\ b \in Buffers /\ DOMAIN buffer = Buffers /\ toGpu' \in Seq(Messages)
  <2>1. toGpu \in Seq(Messages) /\ DOMAIN buffer = Buffers
    BY DEF MInv, TypeOK
  <2>2. h \in Messages /\ Tail(toGpu) \in Seq(Messages)
    BY <1>1, <2>1
  <2> QED BY <1>1, <2>1, <2>2 DEF Messages
<1>3. \/ \E d \in {b} \cup (IF b = Frame THEN {"none"} ELSE {}) :
           buffer' = [buffer EXCEPT ![b] = [code |-> "success", data |-> d]]
      \/ buffer' = [buffer EXCEPT ![b].code = "error"]
      \/ UNCHANGED buffer
  BY DEF gpu_writes
<1> HIDE DEF h, b
<1>4. DOMAIN buffer' = Buffers /\ BuffersRight'
  <2>1. CASE UNCHANGED buffer
    BY <2>1, <1>2 DEF MInv, BuffersRight, Succeeded, NoMemory
  <2>2. ASSUME NEW d \in {b} \cup (IF b = Frame THEN {"none"} ELSE {}),
               buffer' = [buffer EXCEPT ![b] = [code |-> "success", data |-> d]]
        PROVE  DOMAIN buffer' = Buffers /\ BuffersRight'
    <3>1. DOMAIN buffer' = Buffers /\ buffer'[b] = [code |-> "success", data |-> d]
      BY <1>2, <2>2
    <3>2. \A c \in Buffers : c # b => buffer'[c] = buffer[c]
      BY <1>2, <2>2
    <3>3. ASSUME NEW c \in Buffers, Succeeded(c)' PROVE buffer'[c].data = c \/ NoMemory(c)'
      <4>1. CASE c = b
        <5>1. buffer'[c].data = d
          BY <4>1, <3>1
        <5> QED BY <4>1, <5>1 DEF NoMemory
      <4>2. CASE c # b
        BY <3>2, <3>3, <4>2 DEF MInv, BuffersRight, Succeeded, NoMemory
      <4> QED BY <4>1, <4>2
    <3> QED BY <3>1, <3>3 DEF BuffersRight
  <2>3. CASE buffer' = [buffer EXCEPT ![b].code = "error"]
    <3>1. DOMAIN buffer' = Buffers /\ buffer'[b] = [buffer[b] EXCEPT !.code = "error"]
      BY <1>2, <2>3
    <3>2. \A c \in Buffers : c # b => buffer'[c] = buffer[c]
      BY <1>2, <2>3
    <3>3. ASSUME NEW c \in Buffers, Succeeded(c)' PROVE buffer'[c].data = c \/ NoMemory(c)'
      <4>1. CASE c = b
        BY <4>1, <3>1, <3>3 DEF Succeeded
      <4>2. CASE c # b
        BY <3>2, <3>3, <4>2 DEF MInv, BuffersRight, Succeeded, NoMemory
      <4> QED BY <4>1, <4>2
    <3> QED BY <3>1, <3>3 DEF BuffersRight
  <2> QED BY <1>3, <2>1, <2>2, <2>3
<1>5. TypeOK'
  BY <1>1, <1>2, <1>4 DEF MInv, TypeOK
<1>6. InFlight'
  <2>1. CASE inStep /\ mbCall.at = "read"
    <3>1. InOnePlace
      BY <2>1 DEF MInv, InFlight
    <3>2. toGpu = << Property(mbCall.of) >> /\ Clear(toArm)
      BY <1>1, <3>1 DEF InOnePlace
    <3>3. h = Property(mbCall.of) /\ Tail(toGpu) = << >>
      BY <3>2 DEF h
    <3>4. InOnePlace'
      BY <1>1, <3>2, <3>3 DEF InOnePlace, Clear
    <3> QED BY <1>1, <2>1, <3>4 DEF InFlight
  <2>2. CASE inStep /\ mbCall.at # "read"
    BY <1>1, <2>2 DEF MInv, InFlight
  <2>3. CASE ~ inStep
    BY <1>1, <2>3 DEF InFlight
  <2> QED BY <2>1, <2>2, <2>3
<1> QED BY <1>1, <1>4, <1>5, <1>6 DEF MInv, Results

LEMMA ArrivalSteps ==
  ASSUME MInv, gpu_replies \/ gpu_noise
  PROVE  MInv'
<1>0. UNCHANGED <<toGpu, buffer, mbCall, result, inStep>>
  BY DEF gpu_replies, gpu_noise
<1> DEFINE S == {toArm[i] : i \in DOMAIN toArm}
<1>1. toArm \in Seq(S)
  BY DEF MInv, TypeOK
<1> HIDE DEF S
<1>2. BuffersRight' /\ Results'
  BY <1>0 DEF MInv, BuffersRight, Succeeded, NoMemory, Results
<1>3. CASE gpu_replies
  <2>1. PICK m \in Messages : gpu = << m >>
    BY <1>3 DEF gpu_replies, MInv, TypeOK
  <2>2. gpu # << >> /\ gpu' = << >> /\ toArm' = Append(toArm, m)
    BY <1>1, <1>3, <2>1, Appended DEF gpu_replies
  <2>3. toArm' \in Seq({toArm'[i] : i \in DOMAIN toArm'})
    <3>1. toArm' \in Seq(S \cup {m})
      BY <1>1, <2>2, Appended
    <3> QED BY <3>1, Fifo
  <2>4. TypeOK'
    BY <1>0, <2>2, <2>3 DEF MInv, TypeOK
  <2>5. InFlight'
    <3>1. CASE inStep /\ mbCall.at = "read"
      <4>1. InOnePlace
        BY <3>1 DEF MInv, InFlight
      <4>2. toGpu = << >> /\ m = Property(mbCall.of) /\ Clear(toArm)
        BY <2>1, <4>1 DEF InOnePlace
      <4>3. One(toArm', m)
        BY <1>1, <2>2, <4>2, Appended
      <4>4. InOnePlace'
        BY <1>0, <2>2, <4>2, <4>3 DEF InOnePlace, One
      <4> QED BY <1>0, <3>1, <4>4 DEF InFlight
    <3>2. CASE inStep /\ mbCall.at # "read"
      BY <2>2, <3>2 DEF MInv, InFlight
    <3>3. CASE ~ inStep
      BY <1>0, <3>3 DEF InFlight
    <3> QED BY <3>1, <3>2, <3>3
  <2> QED BY <1>2, <2>4, <2>5 DEF MInv
<1>4. CASE gpu_noise
  <2>1. gpu' = gpu /\ toArm' = Append(toArm, Other)
    BY <1>4 DEF gpu_noise
  <2>2. toArm' \in Seq({toArm'[i] : i \in DOMAIN toArm'})
    <3>1. toArm' \in Seq(S \cup {Other})
      BY <1>1, <2>1, Appended
    <3> QED BY <3>1, Fifo
  <2>3. TypeOK'
    BY <1>0, <2>1, <2>2 DEF MInv, TypeOK
  <2>4. Clear(toArm) => Clear(toArm')
    BY <1>1, <2>1, Appended
  <2>5. \A m : One(toArm, m) => One(toArm', m)
    BY <1>1, <2>1, Appended
  <2>6. InOnePlace => InOnePlace'
    BY <1>0, <2>1, <2>4, <2>5 DEF InOnePlace, Clear, One
  <2>7. InFlight'
    BY <1>0, <2>1, <2>4, <2>6 DEF MInv, InFlight, Clear
  <2> QED BY <1>2, <2>3, <2>7 DEF MInv
<1> QED BY <1>3, <1>4

-----------------------------------------------------------------------------
(***************************************************************************)
(* The theorem.                                                            *)
(***************************************************************************)
LEMMA InvInit == Init => MInv
<1> SUFFICES ASSUME Init PROVE MInv
  OBVIOUS
<1>1. /\ toGpu = << >> /\ gpu = << >> /\ toArm \in Leftovers /\ mbCall = Idle
      /\ buffer = [b \in Buffers |-> Request] /\ result = [of |-> "nobody", ok |-> FALSE]
      /\ inStep = (\A i \in DOMAIN toArm : toArm[i].channel # 8)
  BY DEF Init
<1>2. /\ toArm \in Seq({toArm[i] : i \in DOMAIN toArm})
      /\ \A i \in DOMAIN toArm : toArm[i] = Other \/ toArm[i].channel = 8
  BY <1>1, LeftoversAssumption
<1>3. TypeOK
  BY <1>1, <1>2 DEF TypeOK
<1>4. BuffersRight
  BY <1>1 DEF BuffersRight, Succeeded, Request
<1>5. InFlight
  <2>1. DOMAIN toArm = 1 .. Len(toArm)
    BY <1>2, Fifo
  <2>2. inStep => Clear(toArm)
    BY <1>1, <1>2, <2>1 DEF Clear
  <2> QED BY <1>1, <2>2, Apart DEF InFlight
<1>6. Results
  BY <1>1 DEF Results
<1> QED BY <1>3, <1>4, <1>5, <1>6 DEF MInv

LEMMA InvNext == MInv /\ [Next]_mbVars => MInv'
<1> SUFFICES ASSUME MInv, [Next]_mbVars PROVE MInv'
  OBVIOUS
<1>1. CASE \E q \in Queries : query(q)
  BY <1>1, CallSteps
<1>2. CASE framebuffer_new \/ call_unaligned
  BY <1>2, CallSteps
<1>3. CASE Driver
  BY <1>3, WriteStep, ReceiveSteps DEF Driver
<1>4. CASE gpu_writes \/ gpu_replies \/ gpu_noise
  BY <1>4, GpuWritesStep, ArrivalSteps
<1>5. CASE poll \/ UNCHANGED mbVars
  <2>1. UNCHANGED <<toGpu, toArm, buffer, gpu, mbCall, result, inStep>>
    BY <1>5 DEF poll, mbVars
  <2>2. TypeOK' /\ BuffersRight' /\ Results'
    BY <2>1 DEF MInv, TypeOK, BuffersRight, Results, Succeeded, NoMemory
  <2>3. InFlight'
    BY <2>1 DEF MInv, InFlight, InOnePlace, Clear, One
  <2> QED BY <2>2, <2>3 DEF MInv
<1> QED BY <1>1, <1>2, <1>3, <1>4, <1>5 DEF Next

LEMMA InvAnswers == MInv => AnswersMatchCalls
<1> SUFFICES ASSUME MInv PROVE AnswersMatchCalls
  OBVIOUS
<1>1. ASSUME inStep, mbCall = Idle
      PROVE  toGpu = << >> /\ gpu = << >> /\ \A i \in DOMAIN toArm : toArm[i] = Other
  <2>1. toGpu = << >> /\ gpu = << >> /\ Clear(toArm)
    BY <1>1, Apart DEF MInv, InFlight
  <2>2. DOMAIN toArm = 1 .. Len(toArm)
    BY Fifo DEF MInv, TypeOK
  <2> QED BY <2>1, <2>2 DEF Clear
<1> QED BY <1>1 DEF MInv, Results, AnswersMatchCalls

\* A call of the mailbox (mailbox.rs) that succeeds hands out what the GPU
\* answered to that very request; and unless the FIFO held an old answer at
\* the start, no request or answer outlives the call that sent it.
THEOREM AnswersRight == Spec => []AnswersMatchCalls
<1> QED BY InvInit, InvNext, InvAnswers, PTL DEF Spec
-----------------------------------------------------------------------------
(***************************************************************************)
(* The text console.                                                       *)
(***************************************************************************)

Glyphs == [ch : Printed \cup {"space"}, attr : Colors]
TextRows == [1 .. VGA_COLS -> Glyphs]
Screens == {s \in Seq(TextRows) : Len(s) = VGA_ROWS}

\* The fields of the driver are on the screen, and the CRT controller's cursor
\* is where they say.
TextType == /\ cells \in Screens /\ scrolled \in Seq(TextRows) /\ attr \in Colors
            /\ row \in 0 .. VGA_ROWS - 1 /\ col \in 0 .. VGA_COLS - 1
TextInv == TextType /\ hw_cursor = row * VGA_COLS + col

\* A cursor position has one row and one column.
LEMMA DivUnique ==
  ASSUME NEW d \in Nat \ {0}, NEW q \in Nat, NEW r \in 0 .. d - 1
  PROVE  (q * d + r) \div d = q /\ (q * d + r) % d = r
  OBVIOUS

LEMMA CursorPlace ==
  ASSUME Text!VgaConstants, NEW h, NEW r \in 0 .. VGA_ROWS - 1, NEW c \in 0 .. VGA_COLS - 1,
         h = r * VGA_COLS + c
  PROVE  (h \div VGA_COLS) = r /\ (h % VGA_COLS) = c
<1>1. VGA_COLS \in Nat \ {0} /\ r \in Nat
  BY DEF Text!VgaConstants
<1> QED BY <1>1, DivUnique

\* Sequences with equal elements are equal.
LEMMA SameSeq ==
  ASSUME NEW S, NEW s \in Seq(S), NEW t \in Seq(S), Len(s) = Len(t),
         \A i \in 1 .. Len(s) : s[i] = t[i]
  PROVE  s = t
  OBVIOUS

\* A blank row, and a screen of them.
LEMMA BlankRows ==
  ASSUME Text!VgaConstants, NEW a \in Colors
  PROVE  /\ Text!RowOf("space", a) \in TextRows
         /\ [r \in 1 .. VGA_ROWS |-> Text!RowOf("space", a)] \in Screens
<1>1. Text!RowOf("space", a) \in TextRows
  BY DEF Text!RowOf, Text!Cell, TextRows, Glyphs
<1>2. \A R \in TextRows : [r \in 1 .. VGA_ROWS |-> R] \in Screens
  BY DEF Screens, Text!VgaConstants
<1> QED BY <1>1, <1>2

\* Putting a row into the end of a sequence.
LEMMA PutRow ==
  ASSUME NEW T, NEW s \in Seq(T), NEW c \in Seq(T), NEW k \in 1 .. Len(c), NEW v \in T
  PROVE  /\ [c EXCEPT ![k] = v] \in Seq(T) /\ Len([c EXCEPT ![k] = v]) = Len(c)
         /\ Len(s) + k \in 1 .. Len(s \o c) /\ (s \o c)[Len(s) + k] = c[k]
         /\ [s \o c EXCEPT ![Len(s) + k] = v] = s \o [c EXCEPT ![k] = v]
<1> DEFINE d == [c EXCEPT ![k] = v]
           p == s \o c
           q == [p EXCEPT ![Len(s) + k] = v]
           t == s \o d
<1>1. /\ d \in Seq(T) /\ Len(d) = Len(c) /\ d[k] = v
      /\ \A i \in 1 .. Len(c) : i # k => d[i] = c[i]
  OBVIOUS
<1>2. Len(s) \in Nat /\ Len(c) \in Nat /\ k \in Nat /\ k >= 1 /\ k <= Len(c)
  OBVIOUS
<1>3. /\ p \in Seq(T) /\ Len(p) = Len(s) + Len(c)
      /\ \A i \in 1 .. Len(s) + Len(c) : p[i] = IF i <= Len(s) THEN s[i] ELSE c[i - Len(s)]
  OBVIOUS
<1>4. /\ t \in Seq(T) /\ Len(t) = Len(s) + Len(c)
      /\ \A i \in 1 .. Len(s) + Len(c) : t[i] = IF i <= Len(s) THEN s[i] ELSE d[i - Len(s)]
  <2> HIDE DEF d
  <2> QED BY <1>1
<1>5. Len(s) + k \in 1 .. Len(p) /\ Len(s) + k > Len(s) /\ (Len(s) + k) - Len(s) = k
  <2> HIDE DEF p
  <2> QED BY <1>2, <1>3
<1>6. /\ q \in Seq(T) /\ Len(q) = Len(s) + Len(c) /\ q[Len(s) + k] = v
      /\ \A i \in 1 .. Len(s) + Len(c) : i # Len(s) + k => q[i] = p[i]
  <2> HIDE DEF p
  <2> QED BY <1>3, <1>5
<1>7. \A i \in 1 .. Len(s) + Len(c) : q[i] = t[i]
  <2> SUFFICES ASSUME NEW i \in 1 .. Len(s) + Len(c) PROVE q[i] = t[i]
    OBVIOUS
  <2> HIDE DEF d, p, q, t
  <2>1. CASE i <= Len(s)
    <3>1. i # Len(s) + k
      BY <2>1, <1>2
    <3>2. q[i] = p[i]
      BY <3>1, <1>6
    <3> QED BY <2>1, <3>2, <1>3, <1>4
  <2>2. CASE i = Len(s) + k
    <3>1. ~ (i <= Len(s)) /\ i - Len(s) = k
      BY <2>2, <1>2
    <3>2. t[i] = d[k]
      BY <3>1, <1>4
    <3> QED BY <2>2, <3>2, <1>1, <1>6
  <2>3. CASE i > Len(s) /\ i # Len(s) + k
    <3>1. i - Len(s) \in 1 .. Len(c) /\ i - Len(s) # k /\ ~ (i <= Len(s))
      BY <2>3, <1>2
    <3>2. q[i] = c[i - Len(s)] /\ t[i] = d[i - Len(s)]
      BY <2>3, <3>1, <1>3, <1>4, <1>6
    <3> QED BY <3>1, <3>2, <1>1
  <2> QED BY <2>1, <2>2, <2>3, <1>2
<1>8. q = t
  <2> HIDE DEF q, t
  <2> QED BY <1>4, <1>6, <1>7, SameSeq
<1>9. p[Len(s) + k] = c[k]
  <2> HIDE DEF p
  <2> QED BY <1>2, <1>3, <1>5
<1> QED BY <1>1, <1>5, <1>8, <1>9

\* write_cell puts one cell on the screen, and so on the paper.
LEMMA CellWritten ==
  ASSUME Text!VgaConstants, TextType, NEW b \in Printed \cup {"space"}, NEW c \in 0 .. VGA_COLS - 1
  PROVE  /\ Text!write_cell(c, row, b) \in Screens
         /\ [scrolled \o cells EXCEPT ![Len(scrolled) + row + 1][c + 1] = [ch |-> b, attr |-> attr]]
              = scrolled \o Text!write_cell(c, row, b)
<1> DEFINE g == [ch |-> b, attr |-> attr]
           k == row + 1
           R == [cells[k] EXCEPT ![c + 1] = g]
<1>1. g \in Glyphs
  BY DEF TextType, Glyphs
<1>2. c + 1 \in 1 .. VGA_COLS
  BY DEF Text!VgaConstants
<1>3. scrolled \in Seq(TextRows) /\ cells \in Seq(TextRows) /\ Len(cells) = VGA_ROWS
  BY DEF TextType, Screens
<1>4. k \in 1 .. Len(cells) /\ Len(scrolled) + row + 1 = Len(scrolled) + k
  <2>1. VGA_ROWS \in Nat /\ row \in 0 .. VGA_ROWS - 1 /\ Len(scrolled) \in Nat
    BY <1>3 DEF TextType, Text!VgaConstants
  <2> QED BY <2>1, <1>3
<1>5. cells[k] \in TextRows
  <2> HIDE DEF k
  <2> QED BY <1>3, <1>4
<1>6. R \in TextRows
  <2> HIDE DEF g, k
  <2> QED BY <1>1, <1>2, <1>5 DEF TextRows
<1>7. Text!write_cell(c, row, b) = [cells EXCEPT ![k] = R]
  BY DEF Text!write_cell, Text!Cell
<1> HIDE DEF k, g
<1>8. /\ [cells EXCEPT ![k] = R] \in Seq(TextRows) /\ Len([cells EXCEPT ![k] = R]) = Len(cells)
      /\ (scrolled \o cells)[Len(scrolled) + k] = cells[k]
      /\ [scrolled \o cells EXCEPT ![Len(scrolled) + k] = R] = scrolled \o [cells EXCEPT ![k] = R]
  <2> HIDE DEF R
  <2> QED BY <1>3, <1>4, <1>6, PutRow
<1>9. [scrolled \o cells EXCEPT ![Len(scrolled) + k][c + 1] = g]
        = [scrolled \o cells EXCEPT ![Len(scrolled) + k] = R]
  BY <1>8
<1>10. [scrolled \o cells EXCEPT ![Len(scrolled) + row + 1][c + 1] = g]
         = scrolled \o [cells EXCEPT ![k] = R]
  BY <1>4, <1>8, <1>9
<1> QED BY <1>3, <1>7, <1>8, <1>10 DEF Screens, g
\* Scrolling moves the first row of the screen to what left it, and puts a
\* row at the end.
LEMMA Scrolls ==
  ASSUME NEW T, NEW s \in Seq(T), NEW c \in Seq(T), c # << >>, NEW v \in T
  PROVE  /\ Append(s, Head(c)) \in Seq(T) /\ Len(Append(s, Head(c))) = Len(s) + 1
         /\ Tail(c) \o << v >> \in Seq(T) /\ Len(Tail(c) \o << v >>) = Len(c)
         /\ Append(s, Head(c)) \o (Tail(c) \o << v >>) = Append(s \o c, v)
<1> DEFINE a == Append(s, Head(c))
           b == Tail(c) \o << v >>
           t == a \o b
           q == Append(s \o c, v)
<1>1. Len(s) \in Nat /\ Len(c) \in Nat /\ Len(c) >= 1 /\ Head(c) = c[1] /\ Head(c) \in T
  OBVIOUS
<1>2. /\ a \in Seq(T) /\ Len(a) = Len(s) + 1 /\ a[Len(s) + 1] = c[1]
      /\ \A i \in 1 .. Len(s) : a[i] = s[i]
  BY <1>1
<1>3. /\ b \in Seq(T) /\ Len(b) = Len(c) /\ b[Len(c)] = v
      /\ \A i \in 1 .. Len(c) - 1 : b[i] = c[i + 1]
  <2>1. Tail(c) \in Seq(T) /\ Len(Tail(c)) = Len(c) - 1
        /\ \A i \in 1 .. Len(c) - 1 : Tail(c)[i] = c[i + 1]
    BY <1>1
  <2>2. b = Append(Tail(c), v)
    BY <2>1
  <2> QED BY <1>1, <2>1, <2>2
<1>4. /\ t \in Seq(T) /\ Len(t) = Len(s) + 1 + Len(c)
      /\ \A i \in 1 .. Len(s) + 1 + Len(c) :
            t[i] = IF i <= Len(s) + 1 THEN a[i] ELSE b[i - (Len(s) + 1)]
  <2> HIDE DEF a, b
  <2>1. /\ t \in Seq(T) /\ Len(t) = Len(a) + Len(b)
        /\ \A i \in 1 .. Len(a) + Len(b) : t[i] = IF i <= Len(a) THEN a[i] ELSE b[i - Len(a)]
    <3>1. a \in Seq(T) /\ b \in Seq(T)
      BY <1>2, <1>3
    <3> QED BY <3>1
  <2> QED BY <1>2, <1>3, <2>1
<1>5. /\ q \in Seq(T) /\ Len(q) = Len(s) + 1 + Len(c) /\ q[Len(s) + 1 + Len(c)] = v
      /\ \A i \in 1 .. Len(s) + Len(c) : q[i] = IF i <= Len(s) THEN s[i] ELSE c[i - Len(s)]
  OBVIOUS
<1>6. \A i \in 1 .. Len(s) + 1 + Len(c) : t[i] = q[i]
  <2> SUFFICES ASSUME NEW i \in 1 .. Len(s) + 1 + Len(c) PROVE t[i] = q[i]
    OBVIOUS
  <2> HIDE DEF a, b, t, q
  <2>1. CASE i <= Len(s)
    <3>1. i \in 1 .. Len(s) /\ i <= Len(s) + 1 /\ i \in 1 .. Len(s) + Len(c)
      BY <2>1, <1>1
    <3> QED BY <3>1, <2>1, <1>2, <1>4, <1>5
  <2>2. CASE i = Len(s) + 1
    <3>1. i - Len(s) = 1 /\ ~ (i <= Len(s)) /\ i \in 1 .. Len(s) + Len(c) /\ i <= Len(s) + 1
      BY <2>2, <1>1
    <3> QED BY <3>1, <2>2, <1>2, <1>4, <1>5
  <2>3. CASE i > Len(s) + 1
    <3> DEFINE j == i - (Len(s) + 1)
    <3>1. j \in 1 .. Len(c) /\ ~ (i <= Len(s) + 1) /\ j + 1 = i - Len(s)
      BY <2>3, <1>1
    <3>2. t[i] = b[j]
      BY <3>1, <1>4
    <3>3. CASE j = Len(c)
      <4>1. i = Len(s) + 1 + Len(c)
        BY <3>3, <1>1
      <4> QED BY <4>1, <3>2, <3>3, <1>3, <1>5
    <3>4. CASE j # Len(c)
      <4>1. j \in 1 .. Len(c) - 1 /\ i \in 1 .. Len(s) + Len(c) /\ ~ (i <= Len(s))
        BY <3>1, <3>4, <1>1
      <4>2. b[j] = c[j + 1] /\ q[i] = c[i - Len(s)]
        <5> HIDE DEF j
        <5> QED BY <4>1, <1>3, <1>5
      <4> QED BY <4>2, <3>1, <3>2
    <3> QED BY <3>3, <3>4
  <2> QED BY <2>1, <2>2, <2>3, <1>1
<1>7. t = q
  <2> HIDE DEF t, q
  <2> QED BY <1>4, <1>5, <1>6, SameSeq
<1> QED BY <1>2, <1>3, <1>7

\* newline goes to the next row, a new one at the end of the paper if the
\* screen has no more.
LEMMA NextRow ==
  ASSUME Text!VgaConstants, TextType, NEW S \in Screens, Text!newline(S), UNCHANGED attr
  PROVE  /\ TextType' /\ col' = 0
         /\ Len(scrolled') + row' + 1 = Len(scrolled) + row + 2
         /\ scrolled' \o cells' = IF Len(scrolled) + row + 2 > Len(scrolled \o S)
                                  THEN Append(scrolled \o S, Text!RowOf("space", attr))
                                  ELSE scrolled \o S
<1>1. /\ S \in Seq(TextRows) /\ Len(S) = VGA_ROWS /\ scrolled \in Seq(TextRows)
      /\ VGA_ROWS \in Nat \ {0} /\ VGA_COLS \in Nat \ {0} /\ Len(scrolled) \in Nat
      /\ row \in 0 .. VGA_ROWS - 1 /\ attr \in Colors
      /\ Len(scrolled \o S) = Len(scrolled) + VGA_ROWS
  BY DEF TextType, Screens, Text!VgaConstants
<1>2. Text!RowOf("space", attr) \in TextRows
  BY <1>1, BlankRows
<1>3. CASE row + 1 >= VGA_ROWS
  <2>1. /\ cells' = Tail(S) \o << Text!RowOf("space", attr) >> /\ col' = 0
        /\ scrolled' = Append(scrolled, Head(S)) /\ row' = VGA_ROWS - 1
    BY <1>3 DEF Text!newline, Text!scroll_up
  <2>2. S # << >>
    BY <1>1
  <2>3. /\ scrolled' \in Seq(TextRows) /\ Len(scrolled') = Len(scrolled) + 1
        /\ cells' \in Seq(TextRows) /\ Len(cells') = VGA_ROWS
        /\ scrolled' \o cells' = Append(scrolled \o S, Text!RowOf("space", attr))
    BY <1>1, <1>2, <2>1, <2>2, Scrolls
  <2>4. row = VGA_ROWS - 1 /\ Len(scrolled) + row + 2 > Len(scrolled \o S)
    BY <1>1, <1>3
  <2>5. Len(scrolled') + row' + 1 = Len(scrolled) + row + 2
    BY <1>1, <2>1, <2>3, <2>4
  <2>6. TextType'
    BY <1>1, <2>1, <2>3 DEF TextType, Screens
  <2> QED BY <2>1, <2>3, <2>4, <2>5, <2>6
<1>4. CASE ~ (row + 1 >= VGA_ROWS)
  <2>1. cells' = S /\ col' = 0 /\ row' = row + 1 /\ scrolled' = scrolled
    BY <1>4 DEF Text!newline
  <2>2. row + 1 \in 0 .. VGA_ROWS - 1 /\ ~ (Len(scrolled) + row + 2 > Len(scrolled \o S))
    BY <1>1, <1>4
  <2>3. TextType'
    BY <1>1, <2>1, <2>2 DEF TextType, Screens
  <2>4. Len(scrolled') + row' + 1 = Len(scrolled) + row + 2
    BY <1>1, <2>1
  <2> QED BY <2>1, <2>2, <2>3, <2>4
<1> QED BY <1>3, <1>4
\* The cursor of the terminal is the one of the CRT controller.
LEMMA Mapped ==
  ASSUME Text!VgaConstants, TextInv
  PROVE  /\ Len(scrolled) \in Nat /\ row \in Nat /\ col \in Nat
         /\ Len(scrolled) + (hw_cursor \div VGA_COLS) + 1 = Len(scrolled) + row + 1
         /\ (hw_cursor % VGA_COLS) + 1 = col + 1
         /\ Len(scrolled \o cells) - VGA_ROWS + 1 = Len(scrolled) + 1
         /\ Len(scrolled \o cells) = Len(scrolled) + VGA_ROWS
<1>1. (hw_cursor \div VGA_COLS) = row /\ (hw_cursor % VGA_COLS) = col
  BY CursorPlace DEF TextInv, TextType
<1>2. scrolled \in Seq(TextRows) /\ cells \in Seq(TextRows) /\ Len(cells) = VGA_ROWS
      /\ VGA_ROWS \in Nat
  BY DEF TextInv, TextType, Screens, Text!VgaConstants
<1>3. Len(scrolled \o cells) = Len(scrolled) + VGA_ROWS /\ Len(scrolled) \in Nat
  BY <1>2
<1>4. row \in Nat /\ col \in Nat
  BY DEF TextInv, TextType
<1> QED BY <1>1, <1>2, <1>3, <1>4

\* update_hw_cursor keeps the controller with the fields.
LEMMA MappedNext ==
  ASSUME Text!VgaConstants, TextType', Text!update_hw_cursor
  PROVE  /\ TextInv'
         /\ (Len(scrolled) + (hw_cursor \div VGA_COLS) + 1)' = Len(scrolled') + row' + 1
         /\ ((hw_cursor % VGA_COLS) + 1)' = col' + 1
<1>1. hw_cursor' = row' * VGA_COLS + col'
  BY DEF Text!update_hw_cursor
<1>2. row' \in 0 .. VGA_ROWS - 1 /\ col' \in 0 .. VGA_COLS - 1
  BY DEF TextType
<1>3. (hw_cursor' \div VGA_COLS) = row' /\ (hw_cursor' % VGA_COLS) = col'
  BY <1>1, <1>2, CursorPlace
<1> QED BY <1>1, <1>3 DEF TextInv

LEMMA NewlineRefines ==
  ASSUME Text!VgaConstants, TextInv, Text!write_newline
  PROVE  TextInv' /\ Text!Console!Next
<1>1. /\ Text!newline(cells) /\ Text!update_hw_cursor /\ UNCHANGED attr /\ did' = << "newline" >>
      /\ TextType /\ cells \in Screens
  BY DEF Text!write_newline, TextInv, TextType
<1>2. /\ TextType' /\ col' = 0
      /\ Len(scrolled') + row' + 1 = Len(scrolled) + row + 2
      /\ scrolled' \o cells' = IF Len(scrolled) + row + 2 > Len(scrolled \o cells)
                               THEN Append(scrolled \o cells, Text!RowOf("space", attr))
                               ELSE scrolled \o cells
  BY <1>1, NextRow
<1>3. TextInv'
  BY <1>1, <1>2, MappedNext
<1>4. (Len(scrolled) + (hw_cursor \div VGA_COLS) + 1) + 1 = Len(scrolled) + row + 2
  BY Mapped
<1>5. Text!RowOf("space", attr) = Text!Console!BlankRow
  BY DEF Text!RowOf, Text!Cell, Text!Console!BlankRow, Text!Console!Blank
<1>6. Text!Console!Newline
  <2>1. (Len(scrolled) + (hw_cursor \div VGA_COLS) + 1)' = (Len(scrolled) + (hw_cursor \div VGA_COLS) + 1) + 1
    BY <1>1, <1>2, <1>4, MappedNext
  <2>2. ((hw_cursor % VGA_COLS) + 1)' = 1
    BY <1>1, <1>2, MappedNext
  <2> QED BY <1>2, <1>4, <1>5, <2>1, <2>2 DEF Text!Console!Newline, Text!Console!Goto
<1> QED BY <1>1, <1>3, <1>6 DEF Text!Console!Next
LEMMA PrintRefines ==
  ASSUME Text!VgaConstants, TextInv, NEW b \in Printed, Text!write_printed(b)
  PROVE  TextInv' /\ Text!Console!Next
<1> DEFINE S == Text!write_cell(col, row, b)
           p == [scrolled \o cells EXCEPT
                   ![Len(scrolled) + (hw_cursor \div VGA_COLS) + 1][(hw_cursor % VGA_COLS) + 1] =
                       [ch |-> b, attr |-> attr]]
<1>1. /\ Text!advance_cursor(S) /\ Text!update_hw_cursor /\ UNCHANGED attr /\ did' = << "print", b >>
      /\ TextType /\ col \in 0 .. VGA_COLS - 1 /\ VGA_COLS \in Nat \ {0} /\ VGA_ROWS \in Nat \ {0}
  BY DEF Text!write_printed, TextInv, TextType, Text!VgaConstants
<1>2. S \in Screens /\ p = scrolled \o S
  BY <1>1, Mapped, CellWritten
<1> HIDE DEF S, p
<1>3. Len(scrolled \o S) = Len(scrolled) + VGA_ROWS /\ scrolled \in Seq(TextRows)
  <2>1. S \in Seq(TextRows) /\ Len(S) = VGA_ROWS /\ scrolled \in Seq(TextRows)
    BY <1>1, <1>2 DEF Screens, TextType
  <2> QED BY <2>1
<1>4. CASE col + 1 >= VGA_COLS
  <2>1. Text!newline(S)
    BY <1>1, <1>4 DEF Text!advance_cursor
  <2>2. /\ TextType' /\ col' = 0
        /\ Len(scrolled') + row' + 1 = Len(scrolled) + row + 2
        /\ scrolled' \o cells' = IF Len(scrolled) + row + 2 > Len(scrolled \o S)
                                 THEN Append(scrolled \o S, Text!RowOf("space", attr))
                                 ELSE scrolled \o S
    BY <1>1, <1>2, <2>1, NextRow
  <2>3. /\ (Len(scrolled) + (hw_cursor \div VGA_COLS) + 1) + 1 = Len(scrolled) + row + 2
        /\ (hw_cursor % VGA_COLS) + 1 = VGA_COLS
    BY <1>1, <1>4, Mapped
  <2>4. Text!RowOf("space", attr) = Text!Console!BlankRow
    BY DEF Text!RowOf, Text!Cell, Text!Console!BlankRow, Text!Console!Blank
  <2>5. /\ (Len(scrolled) + (hw_cursor \div VGA_COLS) + 1)' = (Len(scrolled) + (hw_cursor \div VGA_COLS) + 1) + 1
        /\ ((hw_cursor % VGA_COLS) + 1)' = 1 /\ TextInv'
    BY <1>1, <2>2, <2>3, MappedNext
  <2>6. Text!Console!Goto((Len(scrolled) + (hw_cursor \div VGA_COLS) + 1) + 1, 1, p)
    BY <1>2, <2>2, <2>3, <2>4, <2>5 DEF Text!Console!Goto
  <2>7. Text!Console!Type(b)
    BY <2>3, <2>6 DEF Text!Console!Type, p
  <2> QED BY <1>1, <2>5, <2>7 DEF Text!Console!Next
<1>5. CASE ~ (col + 1 >= VGA_COLS)
  <2>1. col' = col + 1 /\ cells' = S /\ row' = row /\ scrolled' = scrolled
    BY <1>1, <1>5 DEF Text!advance_cursor
  <2>2. TextType'
    BY <1>1, <1>2, <1>5, <2>1 DEF TextType
  <2>3. /\ Len(scrolled) + (hw_cursor \div VGA_COLS) + 1 = Len(scrolled) + row + 1
        /\ (hw_cursor % VGA_COLS) + 1 = col + 1 /\ col + 1 # VGA_COLS
        /\ ~ (Len(scrolled) + row + 1 > Len(scrolled \o S))
    <3>1. row \in 0 .. VGA_ROWS - 1 /\ Len(scrolled) \in Nat
      BY <1>1, <1>3 DEF TextType
    <3> QED BY <1>1, <1>3, <1>5, <3>1, Mapped
  <2>4. /\ (Len(scrolled) + (hw_cursor \div VGA_COLS) + 1)' = Len(scrolled) + row + 1
        /\ ((hw_cursor % VGA_COLS) + 1)' = (col + 1) + 1 /\ TextInv'
    BY <1>1, <2>1, <2>2, MappedNext
  <2>5. Text!Console!Goto(Len(scrolled) + (hw_cursor \div VGA_COLS) + 1, ((hw_cursor % VGA_COLS) + 1) + 1, p)
    BY <1>2, <2>1, <2>3, <2>4 DEF Text!Console!Goto
  <2>6. Text!Console!Type(b)
    BY <2>3, <2>5 DEF Text!Console!Type, p
  <2> QED BY <1>1, <2>4, <2>6 DEF Text!Console!Next
<1> QED BY <1>4, <1>5

LEMMA ReturnRefines ==
  ASSUME Text!VgaConstants, TextInv, Text!write_return
  PROVE  TextInv' /\ Text!Console!Next
<1>1. /\ col' = 0 /\ UNCHANGED <<cells, row, attr, scrolled>> /\ Text!update_hw_cursor
      /\ did' = << "return" >> /\ VGA_COLS \in Nat \ {0} /\ row \in 0 .. VGA_ROWS - 1
      /\ VGA_ROWS \in Nat
  BY DEF Text!write_return, Text!VgaConstants, TextInv, TextType
<1>2. TextType'
  BY <1>1 DEF TextInv, TextType
<1>3. /\ (Len(scrolled) + (hw_cursor \div VGA_COLS) + 1)' = Len(scrolled) + (hw_cursor \div VGA_COLS) + 1
      /\ ((hw_cursor % VGA_COLS) + 1)' = 1 /\ TextInv'
  BY <1>1, <1>2, Mapped, MappedNext
<1>4. ~ (Len(scrolled) + (hw_cursor \div VGA_COLS) + 1 > Len(scrolled \o cells))
  BY <1>1, Mapped
<1>5. Text!Console!Return
  BY <1>1, <1>3, <1>4 DEF Text!Console!Return, Text!Console!Goto
<1> QED BY <1>1, <1>3, <1>5 DEF Text!Console!Next

LEMMA BackspaceRefines ==
  ASSUME Text!VgaConstants, TextInv, Text!write_backspace
  PROVE  TextInv' /\ Text!Console!Next
<1> DEFINE S == Text!write_cell(col', row, "space")
           l == Len(scrolled) + (hw_cursor \div VGA_COLS) + 1
           k == (hw_cursor % VGA_COLS) + 1
           c == IF k = 1 THEN 1 ELSE k - 1
           p == [scrolled \o cells EXCEPT ![l][c] = Text!Console!Blank]
<1>1. /\ UNCHANGED <<row, attr, scrolled>> /\ Text!update_hw_cursor /\ did' = << "backspace" >>
      /\ cells' = S /\ col' = (IF col > 0 THEN col - 1 ELSE col)
      /\ VGA_COLS \in Nat \ {0} /\ row \in 0 .. VGA_ROWS - 1 /\ col \in 0 .. VGA_COLS - 1
      /\ VGA_ROWS \in Nat /\ TextType
  BY DEF Text!write_backspace, Text!VgaConstants, TextInv, TextType
<1>2. l = Len(scrolled) + row + 1 /\ k = col + 1
  BY Mapped
<1>3. col' \in 0 .. VGA_COLS - 1 /\ c = col' + 1
  <2> HIDE DEF k
  <2> QED BY <1>1, <1>2
<1>4. S \in Screens /\ p = scrolled \o S
  <2> HIDE DEF l, k, c
  <2> QED BY <1>1, <1>2, <1>3, CellWritten DEF Text!Console!Blank
<1>5. TextType'
  <2> HIDE DEF S
  <2> QED BY <1>1, <1>3, <1>4 DEF TextType
<1>6. l' = l /\ k' = c /\ TextInv'
  <2>1. l' = Len(scrolled') + row' + 1 /\ k' = col' + 1 /\ TextInv'
    BY <1>1, <1>5, MappedNext
  <2> HIDE DEF l, k, c
  <2> QED BY <1>1, <1>2, <1>3, <2>1
<1>7. ~ (l > Len(p))
  <2>1. Len(p) = Len(scrolled) + VGA_ROWS /\ Len(scrolled) \in Nat
    <3>1. S \in Seq(TextRows) /\ Len(S) = VGA_ROWS /\ scrolled \in Seq(TextRows)
      BY <1>1, <1>4 DEF Screens, TextType
    <3> HIDE DEF S
    <3>2. Len(scrolled \o S) = Len(scrolled) + VGA_ROWS /\ Len(scrolled) \in Nat
      BY <3>1
    <3>3. p = scrolled \o S
      BY <1>4
    <3> HIDE DEF p
    <3> QED BY <3>2, <3>3
  <2> HIDE DEF l, p
  <2> QED BY <1>1, <1>2, <2>1
<1>8. Text!Console!Goto(l, c, p)
  <2>1. (scrolled \o cells)' = p
    <3> HIDE DEF p, S
    <3> QED BY <1>1, <1>4
  <2> HIDE DEF p, c
  <2> QED BY <1>6, <1>7, <2>1 DEF Text!Console!Goto
<1>9. Text!Console!Erase
  BY <1>8 DEF Text!Console!Erase
<1> QED BY <1>1, <1>6, <1>9 DEF Text!Console!Next
\* Wiping the screen leaves what scrolled off as it was.
LEMMA Wiped ==
  ASSUME NEW T, NEW s \in Seq(T), NEW c \in Seq(T), NEW n, n = Len(c), NEW v \in T,
         NEW f, f = Len(s) + 1
  PROVE  s \o [r \in 1 .. n |-> v]
           = [l \in DOMAIN (s \o c) |-> IF l >= f THEN v ELSE (s \o c)[l]]
<1> DEFINE d == [r \in 1 .. n |-> v]
           p == s \o c
           q == [l \in DOMAIN p |-> IF l >= f THEN v ELSE p[l]]
           t == s \o d
<1>1. d \in Seq(T) /\ Len(d) = Len(c) /\ \A i \in 1 .. Len(c) : d[i] = v
  OBVIOUS
<1>2. Len(s) \in Nat /\ Len(c) \in Nat
  OBVIOUS
<1>3. /\ p \in Seq(T) /\ Len(p) = Len(s) + Len(c) /\ DOMAIN p = 1 .. Len(s) + Len(c)
      /\ \A i \in 1 .. Len(s) + Len(c) : p[i] = IF i <= Len(s) THEN s[i] ELSE c[i - Len(s)]
  OBVIOUS
<1>4. /\ t \in Seq(T) /\ Len(t) = Len(s) + Len(c)
      /\ \A i \in 1 .. Len(s) + Len(c) : t[i] = IF i <= Len(s) THEN s[i] ELSE d[i - Len(s)]
  <2> HIDE DEF d
  <2> QED BY <1>1
<1>5. /\ q \in Seq(T) /\ Len(q) = Len(s) + Len(c)
      /\ \A i \in 1 .. Len(s) + Len(c) : q[i] = IF i >= f THEN v ELSE p[i]
  <2> HIDE DEF p
  <2>1. \A i \in 1 .. Len(s) + Len(c) : p[i] \in T
    BY <1>3
  <2>2. q = [l \in 1 .. Len(s) + Len(c) |-> IF l >= f THEN v ELSE p[l]]
    BY <1>3
  <2>3. q \in [1 .. Len(s) + Len(c) -> T]
    BY <2>1, <2>2
  <2>4. Len(s) + Len(c) \in Nat
    BY <1>2
  <2>5. q \in Seq(T) /\ Len(q) = Len(s) + Len(c)
    <3> DEFINE m == Len(s) + Len(c)
    <3>1. m \in Nat /\ q \in [1 .. m -> T]
      BY <2>3, <2>4
    <3> HIDE DEF m, q
    <3>2. q \in Seq(T) /\ Len(q) = m
      BY <3>1
    <3> QED BY <3>2 DEF m
  <2> QED BY <2>2, <2>5
<1>6. \A i \in 1 .. Len(s) + Len(c) : t[i] = q[i]
  <2> SUFFICES ASSUME NEW i \in 1 .. Len(s) + Len(c) PROVE t[i] = q[i]
    OBVIOUS
  <2> HIDE DEF d, p, q, t
  <2>1. CASE i <= Len(s)
    <3>1. ~ (i >= f)
      BY <2>1, <1>2
    <3> QED BY <2>1, <3>1, <1>3, <1>4, <1>5
  <2>2. CASE i > Len(s)
    <3>1. i >= f /\ ~ (i <= Len(s)) /\ i - Len(s) \in 1 .. Len(c)
      BY <2>2, <1>2
    <3>2. t[i] = d[i - Len(s)] /\ q[i] = v
      BY <3>1, <1>4, <1>5
    <3> QED BY <3>1, <3>2, <1>1
  <2> QED BY <2>1, <2>2, <1>2
<1>7. t = q
  <2> HIDE DEF t, q
  <2> QED BY <1>4, <1>5, <1>6, SameSeq
<1> QED BY <1>7

LEMMA ClearRefines ==
  ASSUME Text!VgaConstants, TextInv, Text!clear
  PROVE  TextInv' /\ Text!Console!Next
<1> DEFINE B == Text!RowOf("space", attr)
<1>1. /\ cells' = [r \in 1 .. VGA_ROWS |-> B] /\ col' = 0 /\ row' = 0 /\ did' = << "clear" >>
      /\ UNCHANGED <<attr, scrolled>> /\ Text!update_hw_cursor
      /\ VGA_COLS \in Nat \ {0} /\ VGA_ROWS \in Nat \ {0} /\ attr \in Colors
  BY DEF Text!clear, Text!VgaConstants, TextInv, TextType
<1>2. B \in TextRows /\ cells' \in Screens
  BY <1>1, BlankRows
<1>3. TextType'
  BY <1>1, <1>2 DEF TextInv, TextType
<1>4. B = Text!Console!BlankRow
  BY DEF Text!RowOf, Text!Cell, Text!Console!BlankRow, Text!Console!Blank
<1> HIDE DEF B
<1>5. /\ (Len(scrolled) + (hw_cursor \div VGA_COLS) + 1)' = Text!Console!First
      /\ ((hw_cursor % VGA_COLS) + 1)' = 1 /\ TextInv'
      /\ Text!Console!First = Len(scrolled) + 1
      /\ Len(scrolled) \in Nat /\ Len(scrolled \o cells) = Len(scrolled) + VGA_ROWS
  BY <1>1, <1>3, Mapped, MappedNext DEF Text!Console!First
<1> DEFINE q == [l \in DOMAIN (scrolled \o cells) |->
                   IF l >= Text!Console!First THEN Text!Console!BlankRow ELSE (scrolled \o cells)[l]]
<1>6. (scrolled \o cells)' = q
  <2>1. scrolled \in Seq(TextRows) /\ cells \in Seq(TextRows) /\ Len(cells) = VGA_ROWS
    BY DEF TextInv, TextType, Screens
  <2>2. scrolled \o [r \in 1 .. VGA_ROWS |-> B]
          = [l \in DOMAIN (scrolled \o cells) |->
               IF l >= Text!Console!First THEN B ELSE (scrolled \o cells)[l]]
    BY <1>2, <1>5, <2>1, Wiped
  <2> QED BY <1>1, <1>4, <2>2
<1>7. ~ (Text!Console!First > Len(q))
  <2>1. Len(q) = Len(scrolled') + Len(cells')
    <3>1. scrolled' \in Seq(TextRows) /\ cells' \in Seq(TextRows)
      BY <1>3 DEF TextType, Screens
    <3> HIDE DEF q
    <3> QED BY <3>1, <1>6
  <2>2. Len(cells') = VGA_ROWS /\ scrolled' = scrolled
    BY <1>1, <1>2 DEF Screens
  <2> HIDE DEF q
  <2> QED BY <1>1, <1>5, <2>1, <2>2
<1>8. Text!Console!Clear
  <2> HIDE DEF q
  <2>1. Text!Console!Goto(Text!Console!First, 1, q)
    BY <1>5, <1>6, <1>7 DEF Text!Console!Goto
  <2> QED BY <2>1 DEF Text!Console!Clear, q
<1> QED BY <1>1, <1>5, <1>8 DEF Text!Console!Next

LEMMA NewRefines ==
  ASSUME Text!VgaConstants, TextInv, Text!new
  PROVE  TextInv' /\ Text!Console!Next
<1> DEFINE B == Text!RowOf("space", Default)
<1>1. /\ cells' = [r \in 1 .. VGA_ROWS |-> B] /\ col' = 0 /\ row' = 0 /\ did' = << "new" >>
      /\ UNCHANGED scrolled /\ attr' = Default /\ Text!update_hw_cursor
      /\ VGA_COLS \in Nat \ {0} /\ VGA_ROWS \in Nat \ {0} /\ Default \in Colors
  BY DEF Text!new, Text!VgaConstants
<1>2. B \in TextRows /\ cells' \in Screens
  BY <1>1, BlankRows
<1>3. TextType'
  BY <1>1, <1>2 DEF TextInv, TextType
<1>4. B = [c \in 1 .. VGA_COLS |-> [ch |-> "space", attr |-> attr']]
  BY <1>1 DEF Text!RowOf, Text!Cell
<1> HIDE DEF B
<1>5. /\ (Len(scrolled) + (hw_cursor \div VGA_COLS) + 1)' = Text!Console!First
      /\ ((hw_cursor % VGA_COLS) + 1)' = 1 /\ TextInv'
      /\ Text!Console!First = Len(scrolled) + 1
  BY <1>1, <1>3, Mapped, MappedNext DEF Text!Console!First
<1>6. (scrolled \o cells)' =
        [l \in DOMAIN (scrolled \o cells) |->
           IF l >= Text!Console!First THEN B ELSE (scrolled \o cells)[l]]
  <2>1. scrolled \in Seq(TextRows) /\ cells \in Seq(TextRows) /\ Len(cells) = VGA_ROWS
    BY DEF TextInv, TextType, Screens
  <2>2. scrolled \o [r \in 1 .. VGA_ROWS |-> B]
          = [l \in DOMAIN (scrolled \o cells) |->
               IF l >= Text!Console!First THEN B ELSE (scrolled \o cells)[l]]
    BY <1>2, <1>5, <2>1, Wiped
  <2> QED BY <1>1, <2>2
<1>7. Text!Console!Renew
  BY <1>1, <1>4, <1>5, <1>6 DEF Text!Console!Renew
<1> QED BY <1>1, <1>5, <1>7 DEF Text!Console!Next

LEMMA CursorRefines ==
  ASSUME Text!VgaConstants, TextInv,
         NEW c \in 0 .. VGA_COLS, NEW r \in 0 .. VGA_ROWS, Text!set_cursor(c, r)
  PROVE  TextInv' /\ Text!Console!Next
<1>1. /\ UNCHANGED <<cells, attr, scrolled>> /\ Text!update_hw_cursor
      /\ col' = (IF c > VGA_COLS - 1 THEN VGA_COLS - 1 ELSE c)
      /\ row' = (IF r > VGA_ROWS - 1 THEN VGA_ROWS - 1 ELSE r)
      /\ did' = << "goto", col' + 1, row' + 1 >>
      /\ VGA_COLS \in Nat \ {0} /\ VGA_ROWS \in Nat \ {0}
  BY DEF Text!set_cursor, Text!VgaConstants
<1>2. col' \in 0 .. VGA_COLS - 1 /\ row' \in 0 .. VGA_ROWS - 1
  BY <1>1
<1>3. TextType'
  BY <1>1, <1>2 DEF TextInv, TextType
<1>4. /\ (Len(scrolled) + (hw_cursor \div VGA_COLS) + 1)' = Text!Console!First + (row' + 1) - 1
      /\ ((hw_cursor % VGA_COLS) + 1)' = col' + 1 /\ TextInv'
      /\ ~ (Text!Console!First + (row' + 1) - 1 > Len(scrolled \o cells))
  <2>1. Text!Console!First = Len(scrolled) + 1 /\ Len(scrolled) \in Nat
        /\ Len(scrolled \o cells) = Len(scrolled) + VGA_ROWS
    BY Mapped DEF Text!Console!First
  <2>2. /\ (Len(scrolled) + (hw_cursor \div VGA_COLS) + 1)' = Len(scrolled') + row' + 1
        /\ ((hw_cursor % VGA_COLS) + 1)' = col' + 1 /\ TextInv'
    BY <1>1, <1>3, MappedNext
  <2> QED BY <1>1, <1>2, <2>1, <2>2
<1>5. Text!Console!Goto(Text!Console!First + (row' + 1) - 1, col' + 1, scrolled \o cells)
  BY <1>1, <1>4 DEF Text!Console!Goto
<1>6. row' + 1 \in 1 .. VGA_ROWS /\ col' + 1 \in 1 .. VGA_COLS
  BY <1>1, <1>2
<1> QED BY <1>1, <1>4, <1>5, <1>6 DEF Text!Console!Next

LEMMA ColorRefines ==
  ASSUME Text!VgaConstants, TextInv, NEW a \in Colors, Text!set_color(a)
  PROVE  TextInv' /\ Text!Console!Next
<1>1. /\ attr' = a /\ did' = << "color" >>
      /\ UNCHANGED <<cells, col, row, hw_cursor, scrolled>>
  BY DEF Text!set_color
<1>2. TextInv'
  BY <1>1 DEF TextInv, TextType
<1> QED BY <1>1, <1>2 DEF Text!Console!Next

LEMMA TextInitRefines ==
  ASSUME Text!VgaConstants, Text!Init
  PROVE  TextInv /\ Text!Console!Init
<1> DEFINE B == Text!RowOf("space", Default)
<1>1. /\ cells = [r \in 1 .. VGA_ROWS |-> B] /\ col = 0 /\ row = 0 /\ did = << "new" >>
      /\ scrolled = << >> /\ attr = Default /\ hw_cursor = 0
      /\ VGA_COLS \in Nat \ {0} /\ VGA_ROWS \in Nat \ {0} /\ Default \in Colors
  BY DEF Text!Init, Text!VgaConstants
<1>2. B \in TextRows /\ cells \in Screens
  BY <1>1, BlankRows
<1>3. TextInv
  BY <1>1, <1>2 DEF TextInv, TextType
<1>4. B = Text!Console!BlankRow
  BY <1>1 DEF Text!RowOf, Text!Cell, Text!Console!BlankRow, Text!Console!Blank
<1>5. scrolled \o cells = cells
  BY <1>1, <1>2 DEF Screens
<1>6. Len(scrolled) + (hw_cursor \div VGA_COLS) + 1 = 1 /\ (hw_cursor % VGA_COLS) + 1 = 1
  <2>1. Len(scrolled) = 0
    BY <1>1
  <2> QED BY <1>1, <1>3, <2>1, Mapped
<1> HIDE DEF B
<1> QED BY <1>1, <1>3, <1>4, <1>5, <1>6 DEF Text!Console!Init

\* A step of the driver is a step of the terminal.
LEMMA TextRefines ==
  ASSUME Text!VgaConstants, TextInv, Text!Next
  PROVE  TextInv' /\ Text!Console!Next
BY PrintRefines, NewlineRefines, ReturnRefines, BackspaceRefines, ClearRefines, NewRefines,
   CursorRefines, ColorRefines DEF Text!Next

\* VgaText (vga_text.rs) is a terminal: whatever is printed, wrapped, scrolled,
\* erased and wiped, the screen shows the end of the paper, and the cursor of
\* the CRT controller is where the next byte goes.
THEOREM ConsoleIsTerminal == DisplaySpec => ImplementsTerminal
<1>1. DisplayInit => TextInv /\ Text!Console!Init
  BY TextInitRefines, DisplayAssumption DEF DisplayInit
<1>2. TextInv /\ [MailboxStep \/ PixelStep \/ TextStep]_all
        => TextInv' /\ [Text!Console!Next]_(Text!Console!page)
  <2> SUFFICES ASSUME TextInv, [MailboxStep \/ PixelStep \/ TextStep]_all
               PROVE  TextInv' /\ [Text!Console!Next]_(Text!Console!page)
    OBVIOUS
  <2>1. CASE TextStep
    BY <2>1, TextRefines, DisplayAssumption DEF TextStep, TextPart
  <2>2. CASE UNCHANGED vgaVars
    BY <2>2 DEF vgaVars, TextInv, TextType, Text!Console!page
  <2> QED BY <2>1, <2>2 DEF MailboxStep, PixelStep, MailboxPart, PixelPart, all
<1> QED BY <1>1, <1>2, PTL DEF DisplaySpec, ImplementsTerminal, Text!ImplementsTerminal, Text!Console!Spec

\* The same of the specification of the whole display.
THEOREM DisplayAnswers == DisplaySpec => []AnswersMatchCalls
<1>1. DisplayInit => MInv
  BY InvInit DEF DisplayInit
<1>2. MInv /\ [MailboxStep \/ PixelStep \/ TextStep]_all => MInv'
  BY InvNext DEF MailboxStep, PixelStep, TextStep, MailboxPart, PixelPart, TextPart, all
<1> QED BY <1>1, <1>2, InvAnswers, PTL DEF DisplaySpec
=============================================================================
