------------------------------ MODULE TensorLayout ------------------------------
(***************************************************************************)
(* Tensor descriptors of NCAPI v2 and the conversions between them         *)
(* (getLayout, getStrides, getTotalSize, convertDataTypeAndLayout). A      *)
(* descriptor has the sizes and the strides of three dimensions; memory is *)
(* a function from the addresses where numbers begin to the numbers.       *)
(***************************************************************************)
EXTENDS Integers, FiniteSets, HalfFloat, FiniteSetsExt

Dims == {"h", "w", "c"}
DataTypes == {"FP16", "FP32"}
SizeOf(type) == IF type = "FP16" THEN 2 ELSE 4

\* The dimensions of a layout from the innermost on.
Inner == [HWC |-> <<"c", "w", "h">>, CHW |-> <<"w", "h", "c">>,
          HCW |-> <<"w", "c", "h">>, CWH |-> <<"h", "w", "c">>,
          WCH |-> <<"h", "c", "w">>, WHC |-> <<"c", "h", "w">>]
Layouts == DOMAIN Inner

\* MAX_3: the third unless another is strictly the greatest.
Max3(a, b, c) ==
  IF a > b /\ a > c THEN a ELSE IF b > c /\ b > a THEN b ELSE c

getLayout(td) ==
  LET s == td.stride
      max == Max3(s.h, s.w, s.c)
  IN CASE max = s.h -> IF s.w >= s.c THEN "HWC" ELSE "HCW"
       [] max = s.c /\ max # s.h -> IF s.h >= s.w THEN "CHW" ELSE "CWH"
       [] OTHER -> IF s.h >= s.c THEN "WHC" ELSE "WCH"

\* The strides of a dense tensor.
getStrides(layout, dim, type) ==
  LET order == Inner[layout]
  IN [d \in Dims |->
        CASE d = order[1] -> SizeOf(type)
          [] d = order[2] -> SizeOf(type) * dim[order[1]]
          [] OTHER -> SizeOf(type) * dim[order[1]] * dim[order[2]]]

\* The greatest stride times the greatest of the sizes that have it.
getTotalSize(td) ==
  LET max == Max({td.stride[d] : d \in Dims})
  IN max * Max({td.dim[d] : d \in {e \in Dims : td.stride[e] = max}})

\* A descriptor of a dense tensor; n is 1.
Dense(layout, dim, type) ==
  LET td == [dim |-> dim, stride |-> getStrides(layout, dim, type),
             dataType |-> type, totalSize |-> 0]
  IN [td EXCEPT !.totalSize = getTotalSize(td)]

IsDense(td) == \E l \in Layouts : td = Dense(l, td.dim, td.dataType)

-----------------------------------------------------------------------------
(* Tensors in memory.                                                        *)

Positions(dim) ==
  {<<h, w, c>> : h \in 0 .. dim.h - 1, w \in 0 .. dim.w - 1, c \in 0 .. dim.c - 1}

Address(td, p) == p[1] * td.stride.h + p[2] * td.stride.w + p[3] * td.stride.c

\* The memory of a tensor, and the tensor in a memory.
InMemory(td, tensor) ==
  [a \in {Address(td, p) : p \in Positions(td.dim)} |->
     tensor[CHOOSE p \in Positions(td.dim) : Address(td, p) = a]]
FromMemory(td, mem) ==
  [p \in Positions(td.dim) |->
     IF Address(td, p) \in DOMAIN mem THEN mem[Address(td, p)] ELSE <<0, 0>>]

Number(x, from, to) ==
  CASE from = to -> x
    [] from = "FP16" /\ to = "FP32" -> half2float(x)
    [] OTHER -> float2half(x)

convertDataTypeAndLayout(mem, src, dst, from, to) ==
  InMemory(dst, [p \in Positions(src.dim) |->
                   Number(FromMemory(src, mem)[p], from, to)])

\* Mutant of Transfer: half floats are never moved.
TransferRaw(mem, src, dst, from, to) ==
  IF "FP32" \in {from, to} THEN convertDataTypeAndLayout(mem, src, dst, from, to) ELSE mem

\* What ncFifoWriteElem sends and ncFifoReadElem gives back: the memory as it is
\* when both sides have half floats in one layout.
Transfer(mem, src, dst, from, to) ==
  IF "FP32" \in {from, to} \/ getLayout(src) # getLayout(dst)
  THEN convertDataTypeAndLayout(mem, src, dst, from, to)
  ELSE mem

=============================================================================
