------------------------------ MODULE CallArgs ------------------------------
(***************************************************************************)
(* The arguments of a VE function call (CallArgs.cpp): an argument object  *)
(* is filled by the application, laid out as the image of a VE stack frame *)
(* when a call is made, copied to the VE by call_handler(), and the image  *)
(* that comes back is copied into the buffers of the arguments with intent *)
(* OUT.  The object may be changed, cleared and used again, on the same or *)
(* on another context, while earlier calls are still running.              *)
(*                                                                         *)
(* Memory is a sequence of bytes ("cells"); a cell says where its content  *)
(* comes from.  Argument n is element n+1 of the sequence arguments.  The  *)
(* images fit into one URPC message: AsyncTransfer.tla models the calls    *)
(* whose image does not.                                                   *)
(***************************************************************************)
EXTENDS Integers, Sequences, FiniteSets, SequencesExt

CONSTANTS Contexts,              \* VEO contexts of one VE process
          Buffers,               \* VH buffers passed on the stack
          BufLen,                \* their lengths
          Stacked,               \* the buffers and intents used
          ValueSizes,            \* sizeof(T) of the integers passed
          Null,
          Word,                  \* 8 in the code
          PARAM_AREA_OFFSET,     \* 176
          NUM_ARGS_ON_REGISTER,  \* 8
          VeSp,                  \* stack pointer of call_handler() per context
          ReservedStack,         \* RESERVED_STACK_SIZE
          Page,                  \* a stack frame may not cross its boundary
          MaxArgs, MaxSets, MaxCalls   \* bounds of the instance

ASSUME CallArgsAssumption ==
  /\ Null \notin Buffers
  /\ Word \in Nat \ {0} /\ Word % 2 = 0 /\ NUM_ARGS_ON_REGISTER \in Nat /\ ReservedStack \in Nat
  /\ PARAM_AREA_OFFSET \in Nat /\ PARAM_AREA_OFFSET % Word = 0
  /\ BufLen \in [Buffers -> Nat] /\ ValueSizes \subseteq 1 .. Word
  /\ Stacked \subseteq Buffers \X {"IN", "OUT", "INOUT"}
  /\ VeSp \in [Contexts -> Nat] /\ Page \in Nat \ {0}
  /\ \A c \in Contexts : (VeSp[c] - ReservedStack) % (2 * Word) = 0

VARIABLES
  arguments,    \* the arguments of the object, Null where none is set
  stack_top, stack_size, stack_buf, copied_in, copied_out,
  heap,         \* stack buffers allocated by setup(): their content
  vh,           \* content of the VH buffers
  calls,        \* the calls made, in order
  sets          \* number of changes the application has made

objVars == <<arguments, stack_top, stack_size, stack_buf, copied_in, copied_out>>
vars == <<objVars, heap, vh, calls, sets>>

copiedin(intent) == intent \in {"IN", "INOUT"}
copiedout(intent) == intent \in {"OUT", "INOUT"}

-----------------------------------------------------------------------------
(***************************************************************************)
(* Bytes.                                                                  *)
(***************************************************************************)
Zero == <<"zero">>
Zeros(n) == [i \in 1 .. n |-> Zero]
Junk == <<"junk">>
Pointer(a) == [i \in 1 .. Word |-> <<"ptr", a, i>>]

\* the bytes from offset off (0-based) of a sequence
Bytes(s, off, n) == SubSeq(s, off + 1, off + n)
Overwrite(s, off, b) == SubSeq(s, 1, off) \o b \o SubSeq(s, off + Len(b) + 1, Len(s))

\* mutant: nothing is added to a length that is not a multiple of the word
padNone(n) == 0

pad(n) == IF n % Word > 0 THEN Word - (n % Word) ELSE 0
align16(n) == 2 * Word * ((n + 2 * Word - 1) \div (2 * Word))

-----------------------------------------------------------------------------
(***************************************************************************)
(* The two classes of arguments: ArgType (a value, of any type) and        *)
(* ArgOnStack (a buffer passed by address).  vemva is set by setup().      *)
(***************************************************************************)
Value(v, size) == [kind |-> "value", val |-> v, size |-> size, float |-> FALSE]
Float(v) == [kind |-> "value", val |-> v, size |-> Word \div 2, float |-> TRUE]
OnStack(b, intent) == [kind |-> "stack", buff |-> b, intent |-> intent, vemva |-> Null]

valueBytes(a) == [i \in 1 .. a.size |-> <<"val", a.val, i>>]

\* what is put into the parameter area; a float is the upper half of a word
imageBytes(a) == IF a.float THEN Zeros(Word - a.size) \o valueBytes(a) ELSE valueBytes(a)

\* getRegVal(): an integer is extended to the width of a register
getRegVal(a) ==
  IF a.kind = "stack" THEN Pointer(a.vemva)
  ELSE imageBytes(a) \o [i \in 1 .. (Word - Len(imageBytes(a))) |-> <<"ext", a.val>>]

\* set_value(): extend the image if needed, put the bytes, clear the padding
set_value(img, off, b) ==
  LET ext == img \o Zeros(IF Len(img) < off THEN off - Len(img) ELSE 0)
      put == b \o Zeros(pad(Len(b)))
  IN  SubSeq(ext, 1, off) \o put \o SubSeq(ext, off + Len(put) + 1, Len(ext))

slot(n) == PARAM_AREA_OFFSET + Word * n

\* mutant: the padding is left out of the size
sizeOnStackBare(a) == IF a.kind = "stack" THEN BufLen[a.buff] ELSE 0

sizeOnStack(a) == IF a.kind = "stack" THEN BufLen[a.buff] + pad(BufLen[a.buff]) ELSE 0

\* setStackImage() of argument n: the image it leaves, its vemva, the flags
setStackImage(a, sp, img, n) ==
  IF a.kind = "value"
  THEN [img |-> IF n < NUM_ARGS_ON_REGISTER THEN img ELSE set_value(img, slot(n), imageBytes(a)),
        arg |-> a, in |-> n >= NUM_ARGS_ON_REGISTER, out |-> FALSE]
  ELSE LET len  == BufLen[a.buff]
           mva  == sp + Len(img)
           img2 == img \o (IF copiedin(a.intent) THEN vh[a.buff] ELSE Zeros(len))
                       \o Zeros(pad(len))
       IN  [img |-> IF n < NUM_ARGS_ON_REGISTER THEN img2 ELSE set_value(img2, slot(n), Pointer(mva)),
            arg |-> [a EXCEPT !.vemva = mva],
            in  |-> copiedin(a.intent), out |-> copiedout(a.intent)]

\* getStackImage(): the size first, then the loop over the arguments
stackSize(args) ==
  align16(slot(Len(args)) + FoldLeft(LAMBDA s, a : s + sizeOnStack(a), 0, args))

getStackImage(args, top) ==
  LET place(acc, i) ==
        LET r == setStackImage(args[i], top, acc.img, i - 1)
        IN  [img |-> r.img, args |-> Append(acc.args, r.arg),
             in |-> acc.in \/ r.in, out |-> acc.out \/ r.out]
      all == FoldLeftDomain(place, [img |-> Zeros(slot(Len(args))), args |-> <<>>,
                                    in |-> FALSE, out |-> FALSE], args)
  IN  [all EXCEPT !.img = @ \o Zeros(align16(Len(@)) - Len(@))]

-----------------------------------------------------------------------------
(***************************************************************************)
(* The application changes the object.                                     *)
(***************************************************************************)
\* the arguments an application may set; v tells its values apart
Values(v) == {Value(v, size) : size \in ValueSizes} \cup {Float(v)}
Settings(v) == Values(v) \cup {OnStack(x[1], x[2]) : x \in Stacked}

\* an object with any list of arguments set
Init ==
  /\ \E n \in 0 .. MaxArgs : arguments \in [1 .. n -> Settings(0)]
  /\ stack_top = 0 /\ stack_size = 0 /\ stack_buf = Null
  /\ copied_in = FALSE /\ copied_out = FALSE
  /\ heap = <<>> /\ calls = <<>> /\ sets = 0
  /\ vh = [b \in Buffers |-> [i \in 1 .. BufLen[b] |-> <<"vh", b, 0, i>>]]

change == sets < MaxSets /\ sets' = sets + 1

\* set_() and setOnStack() extend the vector, leaving nullptr in the gap
put(argnum, a) ==
  arguments' = [i \in 1 .. (IF Len(arguments) < argnum + 1 THEN argnum + 1 ELSE Len(arguments)) |->
                  IF i = argnum + 1 THEN a
                  ELSE IF i \in DOMAIN arguments THEN arguments[i] ELSE Null]

set(argnum, a) ==
  /\ change /\ put(argnum, a)
  /\ UNCHANGED <<stack_top, stack_size, stack_buf, copied_in, copied_out, heap, vh, calls>>

setOnStack(argnum, b, intent) ==
  /\ change /\ put(argnum, OnStack(b, intent))
  /\ UNCHANGED <<stack_top, stack_size, stack_buf, copied_in, copied_out, heap, vh, calls>>

clear ==
  /\ change /\ arguments' = <<>>
  /\ UNCHANGED <<stack_top, stack_size, stack_buf, copied_in, copied_out, heap, vh, calls>>

\* the buffers allocated after delete[] of buffer b
delete(b) == [x \in DOMAIN heap \ {b} |-> heap[x]]

\* veo_args_free(), and veo_args_alloc() for the next call
veo_args_free ==
  /\ change
  /\ arguments' = <<>> /\ stack_top' = 0 /\ stack_size' = 0 /\ stack_buf' = Null
  /\ heap' = delete(stack_buf)
  /\ UNCHANGED <<copied_in, copied_out, vh, calls>>

\* the application writes into a buffer of its own
Write(b) ==
  /\ change
  /\ vh' = [vh EXCEPT ![b] = [i \in 1 .. BufLen[b] |-> <<"vh", b, sets + 1, i>>]]
  /\ UNCHANGED <<objVars, heap, calls>>

-----------------------------------------------------------------------------
(***************************************************************************)
(* A call.                                                                 *)
(***************************************************************************)
FreshBuf == Min((1 .. (Cardinality(DOMAIN heap) + 1)) \ DOMAIN heap)

\* mutant: buffers with intent INOUT are not copied out
copyoutOnlyOut(args, top, out) ==
  IF ~out THEN <<>>
  ELSE [i \in DOMAIN args |->
          IF args[i].kind = "stack" /\ args[i].intent = "OUT"
          THEN [buff |-> args[i].buff, off |-> args[i].vemva - top, len |-> BufLen[args[i].buff]]
          ELSE Null]

\* copyout(): what the lambda captures, per argument with intent OUT
copyout(args, top, out) ==
  IF ~out THEN <<>>
  ELSE [i \in DOMAIN args |->
          IF args[i].kind = "stack" /\ copiedout(args[i].intent)
          THEN [buff |-> args[i].buff, off |-> args[i].vemva - top, len |-> BufLen[args[i].buff]]
          ELSE Null]

\* mutant: doCallAsync() leaves the buffer to the object as well
takeKeep(buf) == buf

\* doCallAsync() takes the buffer from the object
take(buf) == Null

\* callAsync(): setup() and doCallAsync().  A frame that crosses a page is
\* refused; the buffer then stays with the object.
callAsync(c) ==
  LET sp   == VeSp[c] - ReservedStack
      size == stackSize(arguments)
      top  == sp - size
      im   == getStackImage(arguments, top)
      left == delete(stack_buf)
      buf  == FreshBuf
  IN  /\ Len(calls) < MaxCalls /\ Null \notin Range(arguments)
      /\ stack_top' = top /\ stack_size' = size
      /\ copied_in' = im.in /\ copied_out' = im.out /\ arguments' = im.args
      /\ heap' = [x \in DOMAIN left \cup {buf} |-> IF x = buf THEN im.img ELSE left[x]]
      /\ IF VeSp[c] \div Page # top \div Page
         THEN stack_buf' = buf /\ UNCHANGED calls
         ELSE /\ stack_buf' = take(buf)
              /\ calls' = Append(calls,
                   [phase |-> "queued", ctx |-> c, top |-> top, size |-> size,
                    in |-> im.in, out |-> im.out, stack |-> buf,
                    regs |-> [i \in 1 .. Min({Len(im.args), NUM_ARGS_ON_REGISTER}) |->
                                getRegVal(im.args[i])],
                    outs |-> copyout(im.args, top, im.out),
                    args |-> im.args, data |-> vh, seen |-> <<>>, reply |-> <<>>])
      /\ UNCHANGED <<vh, sets>>

\* the first call of a context that has not reached a phase yet
Oldest(k, phase) ==
  /\ k \in DOMAIN calls /\ calls[k].phase = phase
  /\ \A j \in 1 .. (k - 1) : calls[j].phase # "done" => calls[j].ctx # calls[k].ctx

\* mutant: the handler copies no image to the stack
noFrame(call) == [i \in 1 .. call.size |-> Junk]

\* the frame a VE function is started on: call_handler() copies the image of
\* CALL_STKIN and CALL_STKINOUT only; what lies below the stack pointer
\* otherwise is left over from earlier calls
frame(call) ==
  IF call.in THEN Bytes(heap[call.stack], 0, call.size) ELSE [i \in 1 .. call.size |-> Junk]

\* argument n as the VE function finds it: in a register, or in its slot of
\* the parameter area (CALL starts the function on the handler's own frame)
argument(call, mem, n) ==
  IF n < NUM_ARGS_ON_REGISTER THEN call.regs[n + 1]
  ELSE IF call.in \/ call.out THEN Bytes(mem, slot(n), Word)
  ELSE [i \in 1 .. Word |-> Junk]

\* the offset in the frame that a pointer to len bytes of it names, or Null
offset(call, cells, len) ==
  LET a == cells[1][2] - call.top
  IN  IF cells[1][1] = "ptr" /\ cells = Pointer(cells[1][2]) /\ a \in 0 .. (call.size - len)
      THEN a ELSE Null

written(k, n, len) == [i \in 1 .. len |-> <<"ve", k, n, i>>]

\* call_handler() runs call k: prepare the frame, load the registers, call the
\* function, which reads its arguments and fills every buffer with intent OUT,
\* and copy the frame back word by word.
call_handler(k) ==
  LET call == calls[k]
      mem  == frame(call)
      read(i) == LET a     == call.args[i]
                     cells == argument(call, mem, i - 1)
                     off   == IF a.kind = "stack" THEN offset(call, cells, BufLen[a.buff]) ELSE Null
                 IN  [cells |-> cells, off |-> off,
                      data |-> IF off = Null THEN <<>> ELSE Bytes(mem, off, BufLen[a.buff])]
      seen == FoldLeftDomain(LAMBDA acc, i : Append(acc, read(i)), <<>>, call.args)
      write(m, i) == IF seen[i].off = Null \/ ~copiedout(call.args[i].intent) THEN m
                     ELSE Overwrite(m, seen[i].off, written(k, i - 1, BufLen[call.args[i].buff]))
      after == FoldLeftDomain(write, mem, call.args)
  IN  /\ Oldest(k, "queued")
      /\ calls' = [calls EXCEPT
           ![k].phase = "ran", ![k].seen = seen,
           ![k].reply = IF call.out THEN Bytes(after, 0, Word * (call.size \div Word)) ELSE <<>>]
      /\ UNCHANGED <<objVars, heap, vh, sets>>

\* mutant: the last byte is not copied
copyoutFromStackImageShort(buffers, o, reply) ==
  IF o = Null THEN buffers ELSE [buffers EXCEPT ![o.buff] = Bytes(reply, o.off, o.len - 1)]

copyoutFromStackImage(buffers, o, reply) ==
  IF o = Null THEN buffers ELSE [buffers EXCEPT ![o.buff] = Bytes(reply, o.off, o.len)]

\* the result function of simpleCallAsync(): copy out, delete the buffer
Result(k) ==
  LET call == calls[k]
  IN  /\ Oldest(k, "ran")
      /\ vh' = FoldLeft(LAMBDA m, o : copyoutFromStackImage(m, o, call.reply), vh, call.outs)
      /\ heap' = delete(call.stack)
      /\ calls' = [calls EXCEPT ![k] = [phase |-> "done"]]
      /\ UNCHANGED <<objVars, sets>>

Next ==
  \/ \E n \in 0 .. (MaxArgs - 1) :
       \/ \E a \in Values(sets + 1) : set(n, a)
       \/ \E x \in Stacked : setOnStack(n, x[1], x[2])
  \/ clear \/ veo_args_free
  \/ \E b \in Buffers : Write(b)
  \/ \E c \in Contexts : callAsync(c)
  \/ \E k \in DOMAIN calls : call_handler(k) \/ Result(k)

Spec == Init /\ [][Next]_vars

-----------------------------------------------------------------------------
(***************************************************************************)
(* Properties.                                                             *)
(***************************************************************************)
InFlight == {k \in DOMAIN calls : calls[k].phase # "done"}
Ran == {k \in DOMAIN calls : calls[k].phase = "ran"}

TypeOK ==
  /\ Len(arguments) <= MaxArgs /\ Len(calls) <= MaxCalls /\ sets \in 0 .. MaxSets
  /\ DOMAIN heap \subseteq 1 .. (MaxCalls + 1) /\ stack_buf \in DOMAIN heap \cup {Null}
  /\ \A b \in Buffers : Len(vh[b]) = BufLen[b]

\* The image is as long as the size computed before it was built: the
\* VEO_ASSERT of setup(), for every list of arguments and every alignment.
ImageSize == \A k \in InFlight : Len(heap[calls[k].stack]) = calls[k].size

\* The buffers passed on the stack lie between the parameter area and the end
\* of the image, on word boundaries, and do not overlap: the VE function can
\* use all of them as local variables of its caller.
RegionsFit ==
  \A k \in InFlight :
    LET call == calls[k]
        S    == {i \in DOMAIN call.args : call.args[i].kind = "stack"}
        lo(i) == call.args[i].vemva
        hi(i) == lo(i) + BufLen[call.args[i].buff]
    IN  \A i \in S :
          /\ call.top + slot(Len(call.args)) <= lo(i) /\ hi(i) <= call.top + call.size
          /\ (lo(i) - call.top) % Word = 0
          /\ \A j \in S : i < j => hi(i) <= lo(j)

\* argument i of a call reached the VE function as it was when callAsync() was
\* called, whatever the application did to the object and its buffers since
Arrived(call, i) ==
  LET a == call.args[i]  s == call.seen[i]
  IN  IF a.kind = "value"
      THEN Bytes(s.cells, IF a.float THEN Word - a.size ELSE 0, a.size) = valueBytes(a)
      ELSE s.cells = Pointer(a.vemva) /\ (copiedin(a.intent) => s.data = call.data[a.buff])

\* every argument is in a register or the image is copied to the VE
Delivered(call) == call.in \/ Len(call.args) <= NUM_ARGS_ON_REGISTER

\* A VE function sees the arguments of the call that started it, although the
\* object has been changed, freed or laid out for another context since.
ArgumentsArrive ==
  \A k \in Ran : Delivered(calls[k]) => \A i \in DOMAIN calls[k].args : Arrived(calls[k], i)

\* The documentation of veo_args_set_stack() supports VEO_INTENT_OUT for any
\* argument number, and copied_in tells whether the image must reach the VE.
EveryArgumentArrives ==
  \A k \in Ran : \A i \in DOMAIN calls[k].args : Arrived(calls[k], i)

\* The result of a call fills exactly its buffers with intent OUT, each with
\* what the VE function wrote for it, also when the object has been laid out
\* anew while the call ran.
OutArgs(call, b) ==
  {i \in DOMAIN call.args : LET a == call.args[i]
                            IN  a.kind = "stack" /\ a.buff = b /\ copiedout(a.intent)}
CopiedOut(k) ==
  \A b \in Buffers :
    LET I == OutArgs(calls[k], b)
    IN  vh'[b] = IF I = {} THEN vh[b]
                 ELSE written(k, Max(I) - 1, BufLen[b])
OutBuffers ==
  [][\A k \in Ran : calls'[k].phase = "done" /\ Delivered(calls[k]) => CopiedOut(k)]_vars

\* Every stack buffer allocated by setup() has exactly one owner, the object or
\* a call in flight, so none is deleted twice, used after delete[] or lost.
BuffersOwned ==
  /\ \A j, k \in InFlight : calls[j].stack = calls[k].stack => j = k
  /\ \A k \in InFlight : calls[k].stack # stack_buf
  /\ DOMAIN heap = {calls[k].stack : k \in InFlight} \cup ({stack_buf} \ {Null})
=============================================================================
