-------------------------------- MODULE V4l2 --------------------------------
(***************************************************************************)
(* What the camera libraries use of the kernel: the open files of one      *)
(* video device, their memory-mapped buffers, and the buffer queue, which  *)
(* one open file at a time owns.  A file stays open, and keeps the queue,  *)
(* until its descriptor is closed and its last buffer is unmapped.         *)
(* Descriptors are numbered 1, 2, ... in the order they are opened, and    *)
(* None is the -1 the libraries keep when they have none.                  *)
(***************************************************************************)
EXTENDS Integers

None == 0

NewNode ==
  [fds |-> {},      \* descriptors that are open
   maps |-> {},     \* <<descriptor, index>> of the buffers that are mapped
   owner |-> None,  \* descriptor whose file owns the queue
   on |-> FALSE,    \* the queue is streaming
   queued |-> {}]   \* indexes of the buffers the driver may fill

\* The files of the device that are still open.
Files(node) == node.fds \cup {m[1] : m \in node.maps}

\* The queue goes with the file that owns it.
Released(node) ==
  IF node.owner \in Files(node) THEN node
  ELSE [node EXCEPT !.owner = None, !.on = FALSE, !.queued = {}]

Open(node, d) == [node EXCEPT !.fds = @ \cup {d}]
Close(node, d) == Released([node EXCEPT !.fds = @ \ {d}])

Buffers(d, n) == {d} \X (0..(n - 1))

\* VIDIOC_REQBUFS is refused (EBUSY) while another file owns the queue.
MayRequest(node, d) == node.owner \in {None, d}
Request(node, d) == [node EXCEPT !.owner = d]

Mmap(node, d, n) == [node EXCEPT !.maps = @ \cup Buffers(d, n)]
Munmap(node, d, n) == Released([node EXCEPT !.maps = @ \ Buffers(d, n)])

Queue(node, S) == [node EXCEPT !.queued = @ \cup S]
StreamOn(node) == [node EXCEPT !.on = TRUE]

\* VIDIOC_STREAMOFF takes every buffer back; only the owner may ask.
StreamOff(node, d) ==
  IF node.owner = d THEN [node EXCEPT !.on = FALSE, !.queued = {}] ELSE node
=============================================================================
