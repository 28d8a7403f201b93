------------------------------ MODULE DmaBuf ------------------------------
(***************************************************************************)
(* DmaBufExporter and ExportedDmaBuf of backend/wpe/dmabuf.rs: the        *)
(* exporter's capability probe, the early returns of export_egl_image,    *)
(* and the ownership of the file descriptors an export hands out, which   *)
(* close_fds and Drop give back.                                          *)
(*                                                                         *)
(* EGL and the kernel are the environment.  Whether the display is null,  *)
(* the extension is listed, a function pointer resolves, the query and    *)
(* the export succeed, and how many planes the query reports, are inputs. *)
(* The kernel hands out the lowest file descriptor numbers not open       *)
(* (POSIX open/dup semantics), so a number closed by one buffer is the    *)
(* next one handed to another.  fdOwner records, for each number, which   *)
(* export opened it and has not closed it yet (0 when it is not open).    *)
(* An exported buffer is owned by one caller; close_fds and the drop are  *)
(* its &mut calls, one step each.                                         *)
(***************************************************************************)
EXTENDS Naturals, SequencesExt

CONSTANTS
    FdNums,         \* file descriptor numbers the process has free
    PlaneCounts,    \* num_planes values the query may report
    MaxExports      \* successful exports in one behaviour

NoFd   == -1       \* an unused slot of fds
NoBuf  == [live |-> FALSE]
Slots  == 1..4      \* fds: [i32; 4]
Ids    == 1..MaxExports

VARIABLES
    exporter,       \* "none" until DmaBufExporter::new, then "live"
    supported,      \* DmaBufExporter.supported
    bufs,           \* export id -> its ExportedDmaBuf (fds, num_planes), or NoBuf
    fdOwner,        \* fd number -> the export id holding it open, 0 if closed
    exports         \* successful exports so far

dvars == <<exporter, supported, bufs, fdOwner, exports>>

Buf == [live : {TRUE}, fds : [Slots -> FdNums \cup {NoFd}], planes : 1..4]

DTypeOK ==
    /\ exporter \in {"none", "live"} /\ supported \in BOOLEAN
    /\ bufs \in [Ids -> Buf \cup {NoBuf}]
    /\ fdOwner \in [FdNums -> 0..MaxExports]
    /\ exports \in 0..MaxExports

DInit ==
    /\ exporter = "none" /\ supported = FALSE
    /\ bufs = [i \in Ids |-> NoBuf]
    /\ fdOwner = [f \in FdNums |-> 0]
    /\ exports = 0

-----------------------------------------------------------------------------
\* DmaBufExporter::new: unsupported for a null display or without the
\* EGL_MESA_image_dma_buf_export extension; else supported when both
\* function pointers resolve.
DNew ==
    /\ exporter = "none"
    /\ \E null, hasExt, hasImage, hasQuery \in BOOLEAN :
         supported' = (~null /\ hasExt /\ hasImage /\ hasQuery)
    /\ exporter' = "live"
    /\ UNCHANGED <<bufs, fdOwner, exports>>

\* The n lowest numbers that are not open, in increasing order.
LowestFree(n) ==
    LET free == {f \in FdNums : fdOwner[f] = 0} IN
    SubSeq(SetToSortSeq(free, <), 1, n)

\* Whether export_egl_image gets past its early returns: supported, a
\* non-null image, the query succeeding with 1..4 planes, and the export
\* succeeding (which needs a free number for every plane).
ExportOk(imageNull, queryOk, np, exportOk) ==
    /\ supported /\ ~imageNull /\ queryOk /\ 1 <= np /\ np <= 4 /\ exportOk
    /\ Cardinality({f \in FdNums : fdOwner[f] = 0}) >= np

\* Bug variant: the plane count is not checked.
DExportNoPlaneCheck(imageNull, queryOk, np, exportOk) ==
    IF /\ supported /\ ~imageNull /\ queryOk /\ exportOk
       /\ Cardinality({f \in FdNums : fdOwner[f] = 0}) >= np
    THEN LET id  == exports + 1
             fds == LowestFree(np)
         IN /\ bufs' = [bufs EXCEPT ![id] =
                          [live |-> TRUE, planes |-> np,
                           fds |-> [i \in Slots |-> IF i <= np THEN fds[i] ELSE NoFd]]]
            /\ fdOwner' = [f \in FdNums |-> IF f \in ToSet(fds) THEN id ELSE fdOwner[f]]
            /\ exports' = id
    ELSE UNCHANGED <<bufs, fdOwner, exports>>

(* export_egl_image: an Err changes nothing; on Ok the driver has opened   *)
(* one descriptor per plane into fds[0..num_planes], the other slots stay *)
(* -1, and the new ExportedDmaBuf holds them.                             *)
DExport(imageNull, queryOk, np, exportOk) ==
    IF ExportOk(imageNull, queryOk, np, exportOk)
    THEN LET id  == exports + 1
             fds == LowestFree(np)
         IN /\ bufs' = [bufs EXCEPT ![id] =
                          [live |-> TRUE, planes |-> np,
                           fds |-> [i \in Slots |-> IF i <= np THEN fds[i] ELSE NoFd]]]
            /\ fdOwner' = [f \in FdNums |-> IF f \in ToSet(fds) THEN id ELSE fdOwner[f]]
            /\ exports' = id
    ELSE UNCHANGED <<bufs, fdOwner, exports>>

DExportCall ==
    /\ exporter = "live" /\ exports < MaxExports
    /\ \E imageNull, queryOk, exportOk \in BOOLEAN, np \in PlaneCounts :
         DExport(imageNull, queryOk, np, exportOk)
    /\ UNCHANGED <<exporter, supported>>

\* The numbers libc::close releases for buffer b.
Closed(b) == {b.fds[i] : i \in {j \in 1..b.planes : b.fds[j] # NoFd}}

\* Bug variant: the slots are not reset to -1 after the close.
CloseFdsNoReset(b) == b

\* close_fds: close every non-negative fd of the first num_planes slots
\* and set the slot to -1.
CloseFds(b) == [b EXCEPT !.fds = [i \in Slots |-> IF i <= b.planes THEN NoFd ELSE @[i]]]

\* The kernel's table after closing the numbers of b, whoever opened them.
Release(b) == [f \in FdNums |-> IF f \in Closed(b) THEN 0 ELSE fdOwner[f]]

\* close_fds called by the owner of buffer id.
DCloseFds(id) ==
    /\ bufs[id].live
    /\ fdOwner' = Release(bufs[id])
    /\ bufs' = [bufs EXCEPT ![id] = CloseFds(@)]
    /\ UNCHANGED <<exporter, supported, exports>>

\* Drop for ExportedDmaBuf: close_fds, then the buffer is gone.
DDrop(id) ==
    /\ bufs[id].live
    /\ fdOwner' = Release(bufs[id])
    /\ bufs' = [bufs EXCEPT ![id] = NoBuf]
    /\ UNCHANGED <<exporter, supported, exports>>

\* Calls that leave the state as it is: is_supported, an export call once
\* the bound is reached.
DIdle == exporter = "live" /\ UNCHANGED dvars

DNext ==
    \/ DNew \/ DExportCall \/ DIdle
    \/ \E id \in Ids : DCloseFds(id) \/ DDrop(id)

DSpec == DInit /\ [][DNext]_dvars

-----------------------------------------------------------------------------
(* Properties.                                                            *)

\* Every descriptor a live buffer still lists is open and was opened by
\* that buffer's export, and every open descriptor is listed by the live
\* buffer that opened it: close_fds never closes a number the kernel has
\* since handed to another export, even when close_fds is followed by the
\* drop, and the drop leaks none (close_fds and Drop, dmabuf.rs:35-48,
\* with fds filled by export_egl_image, 186-207).
FdsOwnedExactly ==
    /\ \A id \in Ids : bufs[id].live =>
          \A i \in 1..bufs[id].planes :
             bufs[id].fds[i] # NoFd => fdOwner[bufs[id].fds[i]] = id
    /\ \A f \in FdNums : fdOwner[f] # 0 =>
          /\ bufs[fdOwner[f]].live
          /\ \E i \in 1..bufs[fdOwner[f]].planes : bufs[fdOwner[f]].fds[i] = f

=============================================================================
