------------------------------ MODULE Mailbox ------------------------------
(***************************************************************************)
(* The mailbox (drivers/src/peripheral/bcm2835/mailbox.rs) between the ARM *)
(* and the GPU: two FIFOs of messages, each the address of a request       *)
(* buffer and a channel.  A call sends its buffer's address and waits for  *)
(* it to come back; the GPU has then written its answer into the buffer.   *)
(* The queries (get_arm_memory and its like) have a static buffer each,    *)
(* whose code is never set back to 0; Bcm2835Framebuffer::new              *)
(* (bcm2835/framebuffer.rs) has one on its stack, call_with_buffer its     *)
(* caller's.  The GPU is external.  There may be an answer in the FIFO that *)
(* the boot loader never fetched.                                          *)
(***************************************************************************)
EXTENDS Integers, Sequences, FiniteSets

CONSTANTS Queries,     \* the static buffers
          Leftovers,   \* what the FIFO to the ARM may hold at the start
          FifoDepth,   \* messages a FIFO holds
          MaxNoise     \* bound on messages of other channels

Frame == "frame"       \* the request on the stack of Bcm2835Framebuffer::new
Buffers == Queries \cup {Frame}

VARIABLES toGpu, toArm,  \* the FIFOs
          buffer,        \* each buffer's code and data
          gpu,           \* the message the GPU has at hand, if any
          mbCall,        \* the call under way: [of, at], or Idle
          result,        \* what the last call gave: [of, ok, data]
          inStep,        \* history: the FIFO held no answer at the start
          noise

mbVars == <<toGpu, toArm, buffer, gpu, mbCall, result, inStep, noise>>

Idle == [at |-> "idle"]
Property(b) == [channel |-> 8, addr |-> b]
Other == [channel |-> 0, addr |-> "other"]
Request == [code |-> "request", data |-> "blank"]

\* Old answers, and messages of another channel, in any number.
ASSUME LeftoversAssumption ==
  \A s \in Leftovers : /\ s \in Seq({s[i] : i \in DOMAIN s})
                       /\ \A i \in DOMAIN s : s[i] = Other \/ s[i].channel = 8

Init == /\ toGpu = << >> /\ toArm \in Leftovers /\ gpu = << >>
        /\ buffer = [b \in Buffers |-> Request]
        /\ mbCall = Idle /\ result = [of |-> "nobody", ok |-> FALSE]
        /\ inStep = (\A i \in DOMAIN toArm : toArm[i].channel # 8)
        /\ noise = 0

(*** Calls *****************************************************************)

\* A query leaves its buffer as the last answer left it.
query(q) == /\ mbCall = Idle
            /\ mbCall' = [of |-> q, at |-> "write"]
            /\ UNCHANGED <<toGpu, toArm, buffer, gpu, result, inStep, noise>>

\* Bcm2835Framebuffer::new fills in its request first.
framebuffer_new == /\ mbCall = Idle
                   /\ buffer' = [buffer EXCEPT ![Frame] = Request]
                   /\ mbCall' = [of |-> Frame, at |-> "write"]
                   /\ UNCHANGED <<toGpu, toArm, gpu, result, inStep, noise>>

\* call_with_buffer turns a buffer away that has address bits in the channel's.
call_unaligned == /\ mbCall = Idle
                  /\ result' = [of |-> "unaligned", ok |-> FALSE]
                  /\ UNCHANGED <<toGpu, toArm, buffer, gpu, mbCall, inStep, noise>>

\* wait_for_write and write_data.
write_data == /\ mbCall.at = "write"
              /\ Len(toGpu) < FifoDepth
              /\ toGpu' = Append(toGpu, Property(mbCall.of))
              /\ mbCall' = [mbCall EXCEPT !.at = "read"]
              /\ UNCHANGED <<toArm, buffer, gpu, result, inStep, noise>>

\* wait_for_read and read_data: a message of another channel is dropped, ...
\* (ReceivedAgain leaves the message in the FIFO)
ReceivedAgain == mbCall.at = "read" /\ toArm # << >> /\ UNCHANGED toArm
Received == mbCall.at = "read" /\ toArm # << >> /\ toArm' = Tail(toArm)
skip_message == /\ Received /\ Head(toArm).channel # 8
                /\ UNCHANGED <<toGpu, buffer, gpu, mbCall, result, inStep, noise>>

\* ... an answer with another address fails the call, ...
OwnAddress(m, b) == m.addr = b
wrong_address == /\ Received /\ Head(toArm).channel = 8 /\ ~ OwnAddress(Head(toArm), mbCall.of)
                 /\ result' = [of |-> mbCall.of, ok |-> FALSE]
                 /\ mbCall' = Idle
                 /\ UNCHANGED <<toGpu, buffer, gpu, inStep, noise>>

\* ... and one with the right address ends it as the code in the buffer says.
\* The framebuffer must also have been given memory.
\* (AnyCode does not look at the code)
AnyCode(b) == TRUE
Succeeded(b) == buffer[b].code = "success"
NoMemory(b) == b = Frame /\ buffer[b].data = "none"
own_address == LET b == mbCall.of
               IN /\ Received /\ Head(toArm).channel = 8 /\ OwnAddress(Head(toArm), b)
                  /\ result' = IF Succeeded(b) /\ ~ NoMemory(b)
                               THEN [of |-> b, ok |-> TRUE, data |-> buffer[b].data]
                               ELSE [of |-> b, ok |-> FALSE]
                  /\ mbCall' = Idle
                  /\ UNCHANGED <<toGpu, buffer, gpu, inStep, noise>>

\* The loops of wait_for_write and wait_for_read.
poll == /\ \/ mbCall.at = "write" /\ Len(toGpu) = FifoDepth
           \/ mbCall.at = "read" /\ toArm = << >>
        /\ UNCHANGED mbVars

Driver == write_data \/ skip_message \/ wrong_address \/ own_address

(*** The GPU ***************************************************************)

\* It answers a request: with what was asked for, an error, or, to the
\* framebuffer, no memory.  A buffer whose code says that it is an answer may
\* be left as it is.
gpu_writes ==
  /\ gpu = << >> /\ toGpu # << >>
  /\ gpu' = << Head(toGpu) >> /\ toGpu' = Tail(toGpu)
  /\ LET b == Head(toGpu).addr
     IN \/ \E d \in {b} \cup (IF b = Frame THEN {"none"} ELSE {}) :
             buffer' = [buffer EXCEPT ![b] = [code |-> "success", data |-> d]]
        \/ buffer' = [buffer EXCEPT ![b].code = "error"]
        \/ buffer[b].code # "request" /\ UNCHANGED buffer
  /\ UNCHANGED <<toArm, mbCall, result, inStep, noise>>
gpu_replies ==
  /\ gpu # << >> /\ Len(toArm) < FifoDepth
  /\ toArm' = toArm \o gpu /\ gpu' = << >>
  /\ UNCHANGED <<toGpu, buffer, mbCall, result, inStep, noise>>
gpu_noise ==
  /\ noise < MaxNoise /\ Len(toArm) < FifoDepth
  /\ toArm' = Append(toArm, Other) /\ noise' = noise + 1
  /\ UNCHANGED <<toGpu, buffer, gpu, mbCall, result, inStep>>

Next == \/ \E q \in Queries : query(q)
        \/ framebuffer_new \/ call_unaligned
        \/ Driver \/ poll
        \/ gpu_writes \/ gpu_replies \/ gpu_noise

\* The driver polls until it has its message; the GPU answers what it is sent.
Fairness == WF_mbVars(Driver) /\ WF_mbVars(gpu_writes) /\ WF_mbVars(gpu_replies)
Spec == Init /\ [][Next]_mbVars /\ Fairness

(*** Properties ************************************************************)

\* A call that succeeds hands out what the GPU once answered to that very
\* request, never a blank buffer, another's answer or no memory, even when
\* the FIFO held an old answer; and if it did not, then no answer, and no
\* buffer on a stack, is ever left to the GPU after the call that sent it.
AnswersMatchCalls ==
  /\ result.ok => result.data = result.of
  /\ inStep /\ mbCall = Idle =>
       toGpu = << >> /\ gpu = << >> /\ \A i \in DOMAIN toArm : toArm[i] = Other

\* Every call comes back, however many messages of other channels are in its way.
MailboxReturns == mbCall # Idle ~> mbCall = Idle
=============================================================================
