# A TLA+ model of my_wireshark

my_wireshark is a command-line packet sniffer for Linux. This directory holds
TLA+ models of its code, the TLC configurations that check them on small
instances, and TLAPS proofs of the results that hold for every instance. Source
paths below are relative to the repository.

## The system

| Part | Source | What it does |
|---|---|---|
| Raw socket ring | `src/c/raw_socket.c` | opens an `AF_PACKET` socket with a TPACKET_V3 ring, reads frames out of the ring |
| Capture backend | `src/c/capture_backend_linux.c` | runs one capture: filter, socket, `.pcap` file, SIGINT, loop, cleanup, statistics |
| Packet queue | `src/cpp/packet_queue.cpp` | bounded queue between the capture thread and the main thread |
| Main program | `src/main.cpp` | arguments and setup, capture thread, consumer loop, exit code |
| Packet printer | `src/cpp/packet_printer.cpp` | dispatches a frame to the parsers, applies the display filter, prints |
| Packet classes | `src/cpp/*_packet.cpp` | say what a line tells of a packet of each protocol |
| Capture filter | `src/c/capfilter.c` | compiles a filter expression to classic BPF |
| Display filter | `src/c/dispfilter.c` | compiles and evaluates an expression over parsed fields |
| Protocol parsers | `src/c/*_parser.c` | decode Ethernet, ARP, IPv4, IPv6, ICMP, TCP, UDP |
| Checksums | `src/c/checksum.c` | the Internet checksum and its pseudo-headers |

The capture thread calls the backend, which opens the ring, reads frames, writes
each to the `.pcap` file and pushes it into the queue. The main thread pops,
decodes and prints. Ctrl+C runs `on_sigint()` on either thread; it sets
`stop_requested` in the active context, `raw_socket_recv()` returns
`RAW_SOCKET_STOPPED`, the backend cleans up and the capture thread closes the
queue, which ends the main thread's loop.

## Modules

### `BoundedChannel`, `PacketQueue`, `PacketQueueProofs`

`PacketQueue` is `push()`, `pop()` and `close()` with one action per step that
another thread can see: taking the mutex, testing the predicate and going to
sleep (one atomic step, as `condition_variable::wait` guarantees), changing
`queue_` or `closed_`, releasing the mutex, and the `notify` that comes after the
release. Spurious wakeups are an action. Any number of producers, consumers and
one closing thread take part, more than the program has, because the class is
written for that. `BoundedChannel` is what the queue promises: atomic send,
receive, end-of-stream and close.

### `RawSocketRing`, `RawSocketRingProofs`

The reader is `raw_socket_recv()` with one action per access to the ring's shared
memory. The other side, the kernel, is external: it fills a block, retires it when
it is full or when `tp_retire_blk_tov` expires (possibly empty), moves to the next
block, and freezes and drops frames while the reader still owns that one. A frame
is its number in order of acceptance. A block is its status, its first frame and
its number of frames. A plain load or store of `block_status` is taken to be
ordered as x86-64 orders it; the code uses no barrier.

### `CaptureBackend`, `CaptureBackendProofs`

`run_impl()` with `raw_socket_open()` and `raw_socket_close()` inlined: one action
per system or library call, each of which may fail. `held` is the set of resources
acquired and not yet released. SIGINT may arrive between any two steps. On the
capturing thread the handler is one step; on another thread, where it runs
concurrently, as `capture_backend_request_stop()` does, it is two: loading
`g_active_ctx` and storing the stop. A store through a context that was freed in
between is lost or hits whatever context now occupies the memory.
`raw_socket_recv()` is used at its contract.

### `Pipeline`, `PipelineProofs`

`main()`: `CaptureBackend` for the capture thread and `BoundedChannel` for the
queue, composed with the setup, the consumer loop and the exit. The backend's
callback and the channel's send are one joint step, so a full queue blocks the
capture thread.

### `ExprGrammar`

The grammar that `capfilter.h` and `dispfilter.h` give, as a definition that does
not parse: an expression is split at its last `or` outside parentheses, then at its
last such `and`, and so on. Both filters' recursive-descent parsers are compared
with it. It has no state and models no code.

### `CapFilter`

`capfilter_compile()` and the machine that runs its program: the lexer takes one
word per step, the parser and the code generator one step each (nothing else can
run in between), and then the BPF program runs on a frame, one instruction per
step, as `tests/bpf_interp.c` does it. The generator keeps the backpatch lists, the
byte-wide relative jumps and every limit. A word is a keyword or numbers between
dots; spelling is not modelled. 32-bit words are pairs of 16-bit halves. A frame is
a sequence of bytes. What a program has to do is `Meaning`, which leaves the answer
open where a truncated frame does not hold the bytes the expression asks for.

### `DispFilter`

`dispfilter_compile()` in the same shape, with the IPv4, IPv6 and MAC literals, and
`dispfilter_matches()` on the fields `print_packet()` fills in: the source and
destination of each layer that was parsed; the fields of the others are zero, as
after the `memset()`. A literal with colons is a sequence of
hexadecimal groups, each its number of digits and its value; what it denotes is
defined separately by how an address may be written (RFC 4291, 2.2).

In both filters a full token array puts the end marker outside the array, where
`n_toks` is. That is undefined behaviour; the outcomes modelled are that the parser
then finds a `(`, the value `n_toks` has, or no token it knows.

### `Checksum`, `Parsers`, `PacketDecode`, `ParsersProofs`

Functions of byte sequences, without state. `Checksum` is `checksum.c`: the running
sum with its odd last byte, the folding loop and both pseudo-headers. `Parsers` is
every `*_parse()` and `*_verify_checksum*()`: the length checks in their order, the
fields something looks at, and where the payload lies. A read outside the buffer is
an application outside a sequence's domain, which TLC reports. `PacketDecode` is
`print_packet()` on top of them, with the packet classes it uses: the fields for the
display filter, and the line, of which the model keeps what it says (protocol,
addresses, VLAN, ports, flags, BAD marks) and not its layout.

### `Sender`

What the decoding is compared with: how a host puts a packet on the wire, written
from the RFCs and not from the code. Its checksum is arithmetic modulo 65535.

### `PacketPrinter`

`DispFilter` and `PacketDecode` composed: an expression is compiled step by step, a
packet is sent, captured whole, cut off or with one byte changed, decoded, and shown
or hidden.

### `FilterSync`

`CapFilter` and `PacketDecode` side by side on the same frame: what the kernel lets
through against what the analyzer calls it.

## Runs

| Run | Instance | Checks |
|---|---|---|
| `queue` | 2 producers, 2 consumers, capacity 2, 2 pushes each | FIFO, bound, no lost wakeup, end of stream; `push()` returns, `close()` ends the consumers; refinement of `BoundedChannel` |
| `ring` | 3 blocks of 2 frames, 7 arrivals | ownership, cursor, order, drops, no stand-off; a stop ends the loop, accepted frames are delivered |
| `backend` | 2 runs, 2 frames, 1 other thread | cleanup on every path, restored handler and promiscuous mode, honest result, write before callback; a stop ends the run |
| `pipeline` | queue of 1, 2 frames | packet numbers match the file, drained at exit, honest exit code; Ctrl+C or any end of the capture ends the program |
| `capfilter` | sequences of up to 3 of 20 words and up to 6 of 6 words; all primitives, pairs, and triples of some; chains of up to 12; 26 whole and 14 truncated frames; room for 22 tokens, 24 nodes, 30 instructions, jumps of 24 | exactly the documented grammar compiles; the program decides what the expression says; the kernel would load it; too large means refused; on untagged IPv4 frames it agrees with the analyzer |
| `printer` | sequences of up to 3 of 21 words and of up to 6 operators and comparisons; every field; IPv6 literals of 2 to 10 groups with every placement of empty ones; room for 16 tokens, 6 nodes; packets of every kind, with and without tag, options and data; some of them cut off at every length, or with each byte of the datagram changed in three ways | exactly the documented grammar compiles, to its own tree; what is shown is what the expression says; a packet is told as it was sent; a frame cut off only loses layers; one byte changed in a checksummed part is flagged |

Bounds. Two producers and two consumers are the least with which a notification
can go to the wrong thread; a capacity below the number of pushes makes the queue
full and empty in turn. Seven arrivals fill a ring of six frames and one more, so
the ring wraps, freezes, drops and thaws. Two runs let something left behind by
one run meet the next. A queue of one with two frames blocks the capture thread in
the callback. Three primitives are the least with
which precedence, associativity and parentheses differ, and ten groups pass the
limit of eight on either side of `::`. Packets carry data of odd and even length and,
for UDP, data that makes the checksum come out as 0 or with a zero byte. The limits of the filters (256 tokens and
nodes, 1024 instructions, jumps of 255) are constants; the runs make them small
enough for each to be hit, and large enough for most expressions.

Fairness. Weak fairness for each thread's own steps: the operating system keeps
scheduling it. `poll()` has a timeout, so it always returns; the kernel's retire
timer always fires. In `queue` taking the mutex is strongly fair (a thread
that waits for it gets it eventually). In `pipeline` the main thread is strongly fair, since
handlers of repeated Ctrl+C interrupt it. Nothing is assumed of arriving frames or
of the user.

### Runs that show a disagreement

| Run | What the code does | What its comments say |
|---|---|---|
| `backend_promisc_leak` | `raw_socket_open()` failing after it set `IFF_PROMISC` leaves it set | "we turned it on, so we're responsible for turning it off" (`raw_socket.c:173`) |
| `backend_stale_stats` | a run that fails early leaves the statistics of the run before | "stats for the run() call that most recently returned" (`capture_backend.h:50`) |
| `backend_late_stop` | a stop on another thread can be stored into a freed context | "called from another thread or a signal handler" (`raw_socket.h:89`) |
| `capfilter_max_tokens` | an expression with exactly `CF_MAX_TOKENS` tokens is refused: the end marker overwrites `n_toks` | "max tokens in one expression" (`capfilter.c:8`) |
| `dispfilter_absent` | `tcp.port != 443` shows every packet without TCP | "every comparison against that layer's fields evaluates to false" (`dispfilter.h:69`) |
| `filter_sync` | the filter `tcp` drops TCP behind an 802.1Q tag (and over IPv6), which the analyzer shows as TCP | "so the filter's idea of "tcp" and the analyzer's idea of "tcp" stay in sync" (`capfilter.c:372`) |

Met while modelling and not given a run:

- SIGINT after `raw_socket_open()` and before `signal()`, or after the handler is
  restored, takes the default action: the process ends with the interface
  promiscuous. The comment at `capture_backend_linux.c:166` names a smaller window.
  `SigintKills` is this step of the model.
- The usage text's example of a capture filter, `tcp port 443` (`main.cpp:19`), is no
  expression of the grammar (`and` is mandatory, as `capfilter.h` says).
- The Ethernet fields of the display filter have no `has_*` flag, so a frame too short
  for an Ethernet header matches `eth.src == 00:00:00:00:00:00`. `ShownMeansExpression`
  accepts either answer for these fields of such a frame, and for a `!=` on an absent
  layer.
- `tcp_udp_parser.h:78` says of UDP over IPv6 that "a zero checksum field is NOT treated
  as valid here"; the code only runs it through the sum, so a datagram whose other words
  add up to a multiple of 65535 passes with a zero field, as the comment at
  `tcp_udp_parser.c:125` admits.
- A segment cut off by the capture is summed as far as it was captured and reported
  BAD; `TruncationOnlyLoses` speaks of layers and of the IPv4 header's mark only.
- `print_packet()` does not look at the fragment offset, and `ipv6_parse()` does not
  trim the payload to `payload_length`.

## Proofs

`PacketQueueProofs` proves every safety property of the queue, and that it
implements `BoundedChannel`, for all sets of producers and consumers and every
capacity. `RawSocketRingProofs` proves every safety property of the ring for all
ring sizes. Its inductive invariant says that the blocks owned by the reader are
exactly those from its cursor up to, not including, the kernel's block (all of
them when the kernel is frozen on the cursor), that these blocks hold consecutive
frames, and that the number of frames delivered so far is the position of the
cursor in that sequence. Order alone is not inductive: it says nothing about the
frames still in the ring.

`CaptureBackendProofs` proves every safety property of the backend that holds, for
any number of runs, frames and other threads. A property such as
`ReturnReleasesAll` speaks only of the moment of return; its inductive invariant says
for each control point of `run_impl()` what is held (`HeldInv`), that `g_active_ctx` is
set exactly around the capture loop (`ActiveInv`), which disposition is saved and which
is installed (`HandlerInv`), that promiscuous mode is on exactly if it was before or
this run turned it on (`PromiscInv`), and how result, file and frame counts relate
(`OutcomeInv`).

`PipelineProofs` first proves that the program implements `CaptureBackend` and
`BoundedChannel`: each of its steps is a step of the component or leaves it alone. So
the backend's invariant holds inside the program, and since `PacketQueueProofs` shows
that the real queue implements the channel, what is proved here rests on the queue's
contract only. Its own invariant says that the frames popped, then those queued,
are numbered 1 to `called`, that the printer's counter is the number of the last one
popped, and how far the two threads may be apart. From these follow the safety
properties of `Pipeline` for every queue size and number of frames.

`ParsersProofs` proves, for every buffer of bytes: the folding loop ends after at most
two rounds; a sum is accepted exactly if it is a positive multiple of 65535, hence a
change of one byte is flagged; the payload each parser reports, and the segment handed
to the transport parsers, lie inside the frame; and the fields the display filter sees
and the line that is printed name the same layers (`FieldsMatchLine`). These are
theorems about operators, without a specification. That `checksum_partial()` computes
the sum is an induction over the bytes and stays with TLC.

What is proved and too plain to spend a run on is not listed in the runs: mutual
exclusion and refusal only after `close()` in the queue, the types of ring and backend.

Assumptions. In the queue, finite and disjoint sets of threads (`ConstantsAssumption`);
in the ring, at least two blocks of at least one frame (`RingAssumption`); in backend
and program, bounds that are natural numbers (`BackendAssumption`,
`PipelineAssumption`). TLC evaluates each of them in the run of its module.

Liveness under fairness is out of TLAPS's reach and stays with TLC. The filters and the
sender use recursive operators on trees and sequences, about which the installed provers
cannot argue by induction; `CapFilter`, `DispFilter`, `PacketPrinter` and `FilterSync`
stay with TLC.

## Not modelled

- The hex dump, the layout of a line and `capfilter_print()`: text output without state.
- Fields no part of the program looks at (window, urgent pointer, fragment fields, flow
  label).
- The bytes of the `.pcap` file; only which records are written, and when.
- `raw_socket_list_devices()` and `list_devices_impl()` beyond their outcome: two loops
  over what `getifaddrs()` returns, without state.
- The fake capture backend and the fuzz targets, which are test drivers.
- Weaker memory orders than that of x86-64 on the ring's `block_status`.

## Further work

- `CaptureBackend` with `RawSocketRing` in place of the contract of `raw_socket_recv()`,
  as a refinement.
- Fragments, once it is decided what should be printed for them.
