# A TLA+ verification of ICU

ICU is a small HTTP client: `get` and `post` over `http` and `https`, to stdout
or into a private capture. Its command grammar and its capture layer are Idriç;
everything that happens on a socket is in `native/transport.c`; two JNI bridges
connect it to Android. These modules verify all four. Names of definitions are
the source's names wherever TLA+ allows it.

## 1. The system

| component | state | operations | interacts with |
|---|---|---|---|
| `send_request` (`native/transport.c`) | current endpoint, current request, redirect counter, received bytes, result | one call: validate, hops, copy, metadata, return | called by the eight `icu_send_*` / `icu_fetch_*` entries; calls `one_request`, files, stdout |
| connection (`open_connection`, `read_some`, `write_all`, `close_connection`) | `connection` record, `errno` of the process | proxy choice, TCP over several addresses, CONNECT tunnel, TLS set-up and handshake, reads, writes, close | sockets, resolver, OpenSSL, environment |
| redirect policy (`resolve_location`, `same_origin`, `rewrite_get_request_with_policy`) | none | next endpoint, next request | `send_request` |
| response head (`read_response_head`, `copy_header_value`, `header_count`) | the bytes read so far | find the end, status, Location, framing, encoding | `send_request` |
| capture layer (`src/Response.idric`) | private directory, two files | make directory, fetch, read, remove, interpret the code | `icu_fetch_*` |
| command and ABI (`src/Main.idric`, `src/Transport.idric`) | none | parse, send, exit status | `icu_send_*` |
| JNI bridges (`native/android_jni.c`, `android/jni_transport.c`) | captured argument array | argument reads, UTF-8 conversion, send | `icu_send_*` |
| `old/` (curl), `_/network-lab`, packaging scripts | | | not part of the program |

A process runs one call at a time in one thread; several processes share
`/tmp`. The hard behaviours are therefore not races of threads but: failures at
every one of the many blocking steps, with a hand-written release on each exit; timeouts classified through
`errno`, which outlives the call that set it; state that changes hop by hop
while the properties are about whole chains; files of a process that died
between two steps; reads that split a response
anywhere; limits met exactly or by one; and a peer that decides when, and
whether, anything ends. `PROJECT.json` lists each as a hazard at its line.

What makes each part correct:

- connection: no exit leaks; TLS is verified for the destination, proxy or not;
  an unusable proxy setting never falls back to a direct connection; a timeout
  is reported as one, and only a timeout is;
- redirects: credentials stay with their origin through any chain and do not
  come back to it, no other header is lost, a request says where it really goes, the hops are bounded, a POST is
  sent once;
- head: an accepted framing has one reading;
- capture: what is reported as a response is all of it, within 8 MiB, and no
  failure was overlooked; stdout callers keep their result codes;
- capture layer: a response that is returned is this call's own; one that was
  received is not lost; nothing stays on the disk after a return; a text is
  decodable;
- rewrite: no byte outside the buffer, and the buffer is always large enough;
- bridges: no leak and no JNI call with an exception pending, whichever call
  fails; the arguments are Java's; success means the transport said so;
- texts from outside: exactly UTF-8, exactly the numbers in range;
- every call returns, unless a TLS peer stops reading while it is written to, or
  a peer never stops sending a body that goes to stdout: the code has no limit
  for either.

## 2. Modules

| module | models |
|---|---|
| `Endpoint` | `endpoint`, the request, `endpoint_authority`, `same_origin` |
| `Redirect` | `redirect_status`, `set_target`, `parse_absolute_location`, `resolve_location`, `rewrite_get_request_with_policy` as operators |
| `ResponseHead` | `copy_header_value`, `header_count` and the fields `read_response_head` derives from them |
| `Connection` | a state machine for `open_connection`, `read_some`'s failures and `close_connection`; one action per blocking call |
| `Transport` | `send_request` and `one_request`, composed with `Connection` (same variables, its actions used inside Transport's) and the operators above |
| `NativeResult` | what a code that `send_request` returns says of the output and the metadata |
| `HttpCall` | the abstract call: it runs and returns an outcome `NativeResult` lists. `Transport` implements it |
| `Capture` | `src/Response.idric`: several processes, the disk, deaths. Its native calls return what `NativeResult` lists |
| `RewriteBuffer` | the bytes `rewrite_get_request_with_policy` writes, piece by piece, hop after hop |
| `JniBridge` | `native/android_jni.c` with `src/Main.idric` on it, and `android/jni_transport.c`; one action per JNI call |
| `Scanners` | `valid_utf8_bytes`, `jstring_to_utf8`, `parse_content_length`, `parse_port_text` and the proxy port, one action per iteration |
| `ConnectionProofs`, `TransportProofs`, `RefinementProofs`, `ResponseHeadProofs`, `CaptureProofs`, `RewriteProofs`, `JniProofs`, `ScannersProofs` | the theorems |
| `MC_*` | instances for TLC |

`Connection` extends `Endpoint`; `Transport` extends `Connection` and
`ResponseHead` (which extends `Redirect`). `HttpCall` and `Capture` extend
`NativeResult`: what `Capture` assumes of the native call is what `Transport`
is proved to keep, so the two compose without one being run inside the other.
`JniBridge` takes its transport codes from the same promise (`StdoutPromise`).
Definitions named in a comment `Mutant:` are faulty variants of the definition
that follows them; no specification uses them. They show that a property can
fail.

### State and actions

`Connection`: `conn` is the C record (`socket_fd` is the host it leads to),
`opening` the arguments and the control point of `open_connection`, `errno` the
C library's, `proxy_env` the content of `HTTPS_PROXY`. `StartOpen` is the entry
and `proxy_configuration`; `BadPort`, `Resolve`, `MakeSocket`, `AddressFails`,
`AddressConnects` are `connect_tcp`, with `NextAddress` its loop; then `Tunnel`,
`TlsContext`, `TlsTrust`, `TlsObject`, `TlsIdentity` (`TlsSetupFails` is the
failure of each) and `Handshake`. A failing exit is `ConnectFails`, which closes
nothing, or `OpenFails`, which is `close_connection` with a code.
`errno` is EAGAIN (for EWOULDBLOCK too), ETIMEDOUT or "other", and each action
says which values its system calls may leave. A success that may or may not
touch `errno` is a choice. Two history variables, which no guard reads: `event`
is what the last operation really met, and `held` counts the address lists,
sockets, contexts and SSL objects that were given out and not got back. Acquiring
calls add to `held`; `Released` takes off what the pointers of the record say, as
`close_connection` does. So a pointer lost, or an exit that does not close, is a
count that stays.

`Transport`: `pc` is the control point of `send_request`; `call` its arguments;
`current`, `request`, `redirects` its locals; `wire` what the server answers to
this hop (status, header lines, size of the head, bytes sent, and whether the
peer then closes or goes on for ever), `taken` how much of that `read_some` has returned, `received`,
`stored`, `copied`, `metadata` the locals and files of the final response.
`strayed` is a history variable: the chain has been away from the caller's origin.

| action | code |
|---|---|
| `Enter`, `OutOfMemory` | the checks before the loop |
| `OpenHop`, `Opening`, `OpenFailed` | `open_connection` in `one_request` |
| `Write`, `WriteRetries`, `WriteFails`; `PeerStalls` (environment) | `write_all` for headers and body |
| `ReadHead`, `HeadTruncated`, `HeadReadFails`, `HopFailed` | `read_response_head` |
| `FollowRedirect`, `RedirectFails` | the end of the loop |
| `RefuseResponse`, `OpenOutput`, `OutputFails` | framing, declared length, `private_output` |
| `CopyPrefix`, `CopyBody`, `CopyEnds`, `CopyReadFails`; `BodyGoesOn` (environment) | `copy_remaining_body` |
| `CloseOutput`, `Finish` | `fclose`, `write_response_metadata`, the result |
| `NextCall` | the process calls again |

`Capture`: `disk` maps directory names to their two files, `at[c]` and
`local[c]` are the control point and the variables of process `c`. `Begin`
(the call and the rendering), `icu_response_directory` (`mkdtemp`),
`fetch_prepared` (the native call), `createBufferFromFile`, `readFile`,
`RemoveBody`, `RemoveMetadata`, `RemoveDirectory` (with `understand_bytes`) and
`Decode` (`response_text`) are the steps of `fetch_response` in their order.
Each read and removal may fail, as the code ignores or reports it. `Crash` ends
a process anywhere and leaves its files; inside the native call they may have
got anywhere. A body file carries the number of the call that wrote it, so a
response from another call's file would be seen.

`RewriteBuffer`: `cursor` is how far the old request is read, `used` the end of
the new one, `extent` the last byte written to. `Begin` is everything before
the loop, `ReplaceHost`, `DropLine`, `CopyLine` and `Torn` its iterations,
`EndOfLines` and `Finish` what follows. Only lengths are kept; the lines fall
where they may.

`JniBridge`: `step` is the next JNI or `malloc` call of a string copy, `held`
and `heap` what it has got, `pending` whether an exception is pending.
`captureArguments`, `idricArgumentCount`, `idricArgument`, `run`, the copies
(`CopyStep`, `CopyEnds`, `CopyFails`, `NullString`), `Check`, `Transport`, `Done`, `Returned`
and `PutString` follow one command, or one call of a Java program, to its end.

`Scanners`: `job` says which loop, `index` what it has consumed, `read` the last
item it has looked at.

### Abstractions

- Bytes of a body are counted, not kept. A read returns between one byte and
  the buffer's size, so every split of the response is tried. A body without end
  goes beyond every limit of a capture; for stdout, which has none, `BodyGoesOn`
  counts its bytes from the start again.
- A connect the kernel itself gives up (ETIMEDOUT in SO_ERROR) is a plain failure:
  the code reads SO_ERROR into a local and `errno` keeps its EINPROGRESS. A
  timeout is a wait of ICU's own that ran out.
- A target is a sequence of path names and a query, a Location one of the eight
  forms `resolve_location` tells apart, a request's headers a set of lower-case
  names without Host. The Host header is a record of its own. A host is too long
  by itself (`LongHosts`), or its Location is "unusable" because it is with its
  port: the code's bound is on both together.
- `CaseFold` is `strcasecmp`, `LengthOf` is `parse_content_length`, `LocationOf`
  reads a value as a Location. They are constants: the proofs hold for all.
- `Unfit` stands for values that are empty or too long for the buffer they are
  copied to. The code's buffers differ in size; one set serves for all.
- `HTTPS_PROXY` is unset, usable or unusable; of its text only the port is read
  (`Scanners`).
- In `Capture` a header value is a name; `Tabbed`, `Unfit` and `OtherCharset`
  say what the code can tell of it. Values with a bare carriage return are left
  out: what `lines` makes of one is the library's affair. A body is its call
  and its extent. `mkdtemp` never returns a name that exists; it may fail.
- In `JniBridge` a text is its length in UTF-8 and whether it holds a NUL. Only
  the command's bridge looks for a NUL in host and head; the library bridge
  does not (`Agrees`). A release never fails. Which codes the external
  `Network.Transport` knows is assumed (`KnownCodes`), not translated.
- In `Scanners` a character of a numeral is its digit, or -1. LLONG_MAX is a
  constant, so that TLC can meet it.
- Allocation failure is modelled where the code turns it into a result
  (`OutOfMemory`, `RedirectFails`, `TlsSetupFails`).
- Calls pass both capture paths or neither, as all callers do.

## 3. Runs

| run | result | shows |
|---|---|---|
| `redirects` | pass, 287,605 states | the six hop properties over chains of up to three redirects |
| `exchange` | pass, 374,042 states | calls one after another, from the connection to the result: the four connection properties, the capture properties with every split, length and file failure, nothing held between hops, that `Transport` implements `HttpCall`, that each step brings the return nearer, and that every call returns, with the two exceptions of section 1 |
| `response_head` | pass, 16,276 states | all heads of up to three lines |
| `fetch_response` | pass, 3,360,193 states | two processes on one `/tmp`: own, complete and decodable responses, none lost, nothing left behind, leftovers of a death untouched |
| `rewrite` | pass, 2,871,269 states | two rewrites in a row, around the lengths where the buffer is just full |
| `jni` | pass, 1,444 states | both bridges with each call failing in turn and each string possibly NULL |
| `text` | pass, 710,327 states | the five loops against reference definitions |
| `connection_stale` | violated | a stale `errno` makes a failure a timeout |
| `storage` | violated | a failing body file is reported as a malformed response |
| `stall` | violated | TLS writes have no time limit |
| `scheme` | violated | `ftp://h/x` is followed as a relative path |
| `metadata` | violated | a long Content-Type comes back as unknown, a response with a tab in one not at all |

Bounds and why they are enough:

- `redirects`: `MAX_REDIRECTS = 3`: leave the origin, come back, and one more.
  The hosts are two spellings of one host, another one and one that is too long;
  the twelve Location values cover each form, a change of port only, of scheme only, of
  case only, an unusable port and targets that outgrow `MAX_TARGET_BYTES = 6`;
- `exchange`: two addresses, so the first may fail either way and the second
  decide; three kinds of proxy setting are all there are; this machine, and a
  port that is refused; plain, TLS, and TLS through the proxy; one redirect.
  `READ_BYTES = 2`, `MAX_HEADER_BYTES = 4`, `MAX_CAPTURE_BYTES = 3`, heads of 2
  and 5 bytes, responses of 1 to 7 bytes or without end: below, at and above each
  limit, with prefixes of zero and more bytes. `Content-Length` is right, short,
  long, over the limit, repeated, empty or no number, so both exits of
  `RefuseResponse` are taken;
- three lines: a blank line, and one line before and one after it, is the
  smallest head on which the two scans differ;
- two processes, two directory names, two calls: one process dies or works
  while the other begins, on the name that has become free or on another. The
  four responses have a foreign charset that fits or does not, a tab and a coding
  (in a rejection), and bytes that are no UTF-8; the native codes are the two
  with a response, the wrong length (9) and one that may leave any part of the
  files (7). The proof covers the others;
- `SLACK = 32`, the least the proof allows (the code has 128), with hosts of 1,
  14, 15 and 29 bytes: there two and three Host lines just fit or just do not,
  so `NoRoom` is met on both sides. Requests with none to three Host lines, torn
  or without a blank line;
- `INT_MAX = 4` arguments and two captures: no array, the first, a second one,
  and one argument too many;
- twenty bytes and twelve units that hold both sides of each comparison in the
  code, four at a time (the longest sequence); `LLONG_MAX = 655` with six
  digits, so that each overflow test is met on both sides by numerals with and
  without leading zeros; the ports have their real limit.

Deadlock is not checked in `response_head`, `text` and `rewrite`, which end
with their input, in `jni`, which ends with the process, and in
`fetch_response`, whose calls are counted.

Fairness: `WF_vars(Step)` in `Transport`, the only specification with a
liveness property. The program is one thread that is never blocked for
ever inside a system call: the sockets have 15-second limits and the resolver
its own, so a call that can take a step takes one. No fairness is assumed of the
peer or of the caller: `PeerStalls`, `BodyGoesOn` and `NextCall` are not part of
`Step`. Weak fairness of the disjunction as a whole says nothing about
`WriteRetries`, which is what the run `stall` shows: a stalled TLS peer keeps the
loop turning without a way out. In the same way a peer that takes `BodyGoesOn`
whenever the copy has caught up keeps a call with a body for stdout from
returning (`copy_remaining_body` limits captures only, and the 15 seconds are
for one read). The documentation bounds captured bodies only, so this is an
exception of `CallReturns` and no finding.

### Disagreements with the documentation

1. `connection_stale`: `docs/response-capture.md` says failures distinguish
   timeout from connection, TLS and proxy. `errno` is tested after calls that
   did not set it, so code 11 may mean that an earlier attempt timed out. That
   this is the only way to a wrong code 11 is proved (`FalseTimeoutsAreStale`).
2. `storage`: the same page tells capture I/O from malformed framing. The
   `failure_code` 13 that `read_response_head` sets as its default survives a
   good head and is returned when the body file fails.
3. `stall`: the same page says socket writes have 15-second bounds. Plain
   writes do; `SSL_write` is retried on WANT_WRITE without end.
4. `scheme`: `README.md` lists the supported Location forms. A URL of any other
   scheme is appended to the current directory and requested.
5. `metadata`: `docs/response-capture.md` says that the result retains status, content encoding
   and content type, that `response_text` rejects unsupported charsets before
   decoding, and that rejections retain their body and exact status. A
   Content-Type of 256 bytes or more does not fit its buffer and is written down
   as `unknown`: its charset is not seen and the body is decoded. A tab inside a
   header value splits its row of the metadata in three, the row is dropped and
   the response is `MalformedResponse`. TLC prints one of the two behaviours; the
   instance has both. `TextIsDecodable` and `ResponseIsNotLost`, which are proved,
   show that there is no third: they hold with these two exceptions and failing
   reads.

## 4. Proofs

All for every value of the constants that satisfies the named assumptions
(types, a nonempty read buffer, hosts distinct from the proxy and from "none",
a slack of at least 32 bytes). Of the 40 properties the passing runs check, all
but the liveness property are proved.

`ConnectionProofs`. The properties are not inductive: what a failing exit must
release depends on how far `open_connection` got. `StageInv` says, for each
stage, where the socket leads, which TLS objects exist and that the proxy
setting was accepted. `HeldInv` says for each stage exactly what has been
acquired: the two exits of `open_connection` that do not close anything are right
only because nothing is held there, and `close_connection` is right only because
the pointers of the record are all there is. `ConnInv` = types, `StageInv`,
`HeldInv`, `TimeoutIsReported`; one lemma per action; the four properties and the
types follow.
`FalseTimeoutsAreStale` bounds disagreement 1: a failure is reported as a
timeout that was none only if `errno` held a timeout before the failing step.

`TransportProofs`. `CredentialsTheorem` and `HopStep` rest on one lemma: only
`NextCall` and `FollowRedirect` change what is asked and of whom.
Credentials need no strengthening: a request that still carries one has never
left its origin. The rest needs `Inv`:

- `ControlInv`: at each control point, the stage of the connection and the hop
  it was opened for. Without it nothing connects `current` to the socket;
- `CountInv`: `received` = `taken` - head while copying, `stored` = `received`
  unless something failed. This is why any split of the reads adds up;
- `AcceptedInv`: framing and declared length were accepted before the copy;
- `CleanInv`: where the code goes on, nothing has failed so far;
- `ConnInv`, reused from `ConnectionProofs`, whose action lemmas apply because
  Transport's actions contain Connection's.

From `Inv` follow type correctness, where requests go, the hop bound,
nothing held between hops, complete, bounded and clean captures, and stdout
outcomes. The last needs two more: only a connection with TLS ever fails with 5
(`CodeInv`), and what was returned to a stdout caller is told apart by the scheme
of the hop that failed (`SchemeInv`).

`HeadersTheorem` is a fact about whole chains although the code compares
neighbouring hops only: the headers are the caller's, all of them, until the
chain first leaves the caller's origin, and all but the credentials ever after,
also when it comes back. `StrayInv` connects the two: a chain that has not strayed
is still at an endpoint of the caller's origin.

`HopsFitTheirBuffers`: the host of every hop, and the target of a GET (a POST
has none copied), fit the endpoint record. The first hop fits because `Enter`
checks it (`StartInv`: what it checks is the caller's), later ones because
`resolve_location` refuses the others.
`RewriteBuffer` assumes this of the hosts it writes.

`CallsAdvance` is the safety half of "every call returns". The measure `Ahead`
is lexicographic: the redirects left; the rank of the control point; within
`opening` the stages and addresses left, elsewhere the bytes on the wire not
yet read. Each step takes it down, except a peer that stalls, the `SSL_write`
that is then tried again, and a peer that sends more of an endless body for
stdout. Besides `Inv` this needs `TakenInv`, that no more is read than was sent.
The lemma `BelowIsWellFounded` says of the order alone, whatever the code does,
that it has no endless descent.

`RefinementProofs`: `Spec => ImplementsHttpCall`. The mapping: the abstract call
has returned when `pc` has; its outcome is the result, the extent of the output
(`Delivered`) and the status in the metadata. Steps of a running call stutter,
`NextCall` is `CallAgain`, and each of the exits, in `FailureRefines` (before
there is an output) and `FinishRefines` (after), is a `Return`. This needs `Inv`
and which failure codes a copy may find (`AnswerInv`).

`ResponseHeadProofs`: for heads of any length. A count of one means one line of
that name (cardinality of the set of its places), and the scan that copies, if
it finds a value at all, finds that line's.

`CaptureProofs`: for any number of processes, directories and calls.
`Exclusive` says that a directory has one holder, `GivenUp` what is known of one
that could not be emptied, `AnswerInv` what the two files hold until they are
read and what was read of them, `ValueInv` what was made of it. `Only(c)`
isolates one process: a step of `c` changes no directory another holds, so each
action needs checking for its own process only. `LeftoversAreLeft` is the action
property.

`RewriteProofs`: the invariant compares `used` with what it would be had every
line so far been copied (`Copied`); a copied or dropped line adds no more than
the cursor moved, so only the first line (at most target + 15) and one Host line
(at most authority + 8) need the extra room, which target, host and slack give.

`JniProofs`: what is held at each step of a copy (`HeldAt`, `HeapAt`), that no
exception is pending before a text is given up, which arguments have been read,
and that a result is a transport code only after the call.
`TextsArriveWhole` needs all of these: the buffers are those of the texts before
the one being copied, and a text that fails or is NULL leads to the exit.

`ScannersProofs`: `valid_utf8_bytes` accepts exactly what can be cut into
encodings. Accepting needs that what was consumed is cut into encodings;
refusing needs that every way to cut the text has a cut where the loop stands,
because an encoding's first byte fixes its length. Both are in `ValidInv`. The
range tests of the code are shown equal to the arithmetic definition
(`GoodEncodes`, `EncodingIsGood`). `JavaInv` does the same for UTF-16, with four
bytes a unit as the bound on the output. From it follow two facts about the
result as a whole: it is UTF-8 (`JavaTextsAreUtf8`), since the second halves of
the cuts cut the output into encodings, and no other string has the same bytes
(`JavaTextsStayDistinct`), since two conversions of one output must cut it in
the same places.

`NumbersAreDecided` compares the readers of numbers with `Decimal`, the sum of
digits times powers of ten. The invariant: the number read so far, times the
weight of what is still to come, plus the sum of the digits to come, is the
number of the text. So a loop that stops because it passed its limit is right
whatever follows. Weights and sums are recursive functions; that they exist and
what they compute is shown for every length from the least element of a set of
naturals at which it would fail (`LeastElement`, `RowExists`).

TLC checked the invariants on the instances before they were proved.

Only model-checked: `CallReturns`, because the prover reasons neither about
fairness nor about ENABLED. Its variant is proved (`CallsAdvance`);
that a call which has not returned can always take a step is TLC's deadlock check
in `redirects` and `exchange`. The witnesses of the disagreements
(`connection_stale`, `storage`, `stall`, `scheme`, `metadata`) are runs too.

## 5. Not modelled

- `old/`, the curl tree the repository inherited, and `_/`, archived patches.
  The README calls the tree reference material; no build compiles or links it.
  It is over 225,000 of the repository's 229,376 lines of code, so the share of
  lines these modules map is small by that count. ICU's own code is about 2,100
  lines (`native/`, `android/*.c`, `src/`), and all of its stateful parts are
  modelled.
- Idric-Net: external; its guarantees are the assumptions on `Calls` and
  `RequestOf`, and `KnownCodes`.
- The characters of `HTTPS_PROXY`, of URLs and of a status line: pure parsing,
  taken as functions of the value; their numbers are read in `Scanners`.
- Packaging scripts, the build and the probe example: no state of the program.
