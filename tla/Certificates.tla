---------------------------- MODULE Certificates ----------------------------
(***************************************************************************)
(* The certificate generator (certificate_pdf.rs): one document for a list *)
(* of certificates, rendered in one pass or in chunks into memory and then *)
(* written, or streamed chunk by chunk into the file.  Each check of the   *)
(* clock may find the time used up, each write may fail, and the process   *)
(* may die at any point; the file keeps what was written.                  *)
(*                                                                         *)
(* A certificate is its number of attachments, which decides its pages; a  *)
(* document is the sequence of its header, the certificates by position    *)
(* and its end mark.                                                       *)
(***************************************************************************)
EXTENDS Integers, Sequences, Functions

CONSTANTS
    Lists,               \* lists of certificates: sequences over Nat
    ChunkSizes,          \* values of pages_per_chunk
    Nothing,
    MaxGenerated         \* bound: calls of the generator

ASSUME CertificatesAssumption ==
    /\ Lists \subseteq Seq(Nat)
    /\ ChunkSizes \subseteq Nat

VARIABLES
    pages_per_chunk,
    file,                \* the document in the output file, or Nothing
    job,                 \* the call in progress, or Nothing
    result,              \* what the last call returned
    kept,                \* history: the last whole document, while no later
                         \* call has opened the file
    generated            \* history: calls of the generator

certificatesVars == <<pages_per_chunk, file, job, result, kept, generated>>

Header == << <<"header", 0>> >>

EndMark == << <<"end", 0>> >>

-----------------------------------------------------------------------------
(***************************************************************************)
(* Faulty variants, named F_...: each breaks a property below.  The        *)
(* specification uses none of them.                                        *)
(***************************************************************************)
F_ChunksOf(n) == n \div pages_per_chunk

F_LeftByTimeout == IF job.buffer = << >> THEN file ELSE job.buffer

-----------------------------------------------------------------------------
Lesser(m, n) == IF m < n THEN m ELSE n

\* One page, and one for every five attachments begun.
PagesOf(attachments) == 1 + (attachments + 4) \div 5

\* The pages of certificates a to b.
PageCount(list, a, b) ==
    SumFunctionOnSet([i \in DOMAIN list |-> PagesOf(list[i])], a..b)

EstimatedPages(list) == PageCount(list, 1, Len(list))

\* How many chunks n certificates make, and the last one of the first c.
ChunksOf(n) == (n + pages_per_chunk - 1) \div pages_per_chunk

EndOf(list, c) == Lesser(c * pages_per_chunk, Len(list))

\* Certificates a to b as they appear in a document.
Rendered(a, b) == [i \in 1..(b - a + 1) |-> <<"certificate", a + i - 1>>]

Document(list) == Header \o Rendered(1, Len(list)) \o EndMark

\* What an interrupted write can leave: nothing, a part, or all of it.
PartsOf(written) == {SubSeq(written, 1, n) : n \in 0..Len(written)}

\* A batch call that runs out of time has not touched the file.
LeftByTimeout == file

CertificatesInit ==
    /\ pages_per_chunk \in ChunkSizes
    /\ file = Nothing /\ job = Nothing /\ kept = Nothing
    /\ result = [how |-> "none"]
    /\ generated = 0

BeginJob(mode, list) ==
    /\ job' = [mode |-> mode, list |-> list, done |-> 0, pages |-> 0,
               chunks |-> IF mode = "single" THEN 1 ELSE ChunksOf(Len(list)),
               buffer |-> IF mode = "stream" THEN << >> ELSE Header]
    /\ result' = [how |-> "none"]

EndJob(how) ==
    /\ job' = Nothing
    /\ result' = [how |-> how, mode |-> job.mode, list |-> job.list,
                  pages |-> job.pages]

Panics ==
    /\ job' = Nothing
    /\ result' = [how |-> "panic"]

MayCall ==
    /\ job = Nothing /\ generated < MaxGenerated
    /\ generated' = generated + 1
    /\ UNCHANGED pages_per_chunk

\* generate_pdf: chunks are cut when the pages exceed the certificates of one
\* chunk; a chunk size of 0 divides by zero there.
GeneratePdf(list) ==
    /\ MayCall
    /\ UNCHANGED <<file, kept>>
    /\ IF EstimatedPages(list) <= pages_per_chunk THEN BeginJob("single", list)
       ELSE IF pages_per_chunk = 0 THEN Panics
       ELSE BeginJob("chunked", list)

\* generate_streaming_pdf: the file is created before anything is rendered.
GenerateStreamingPdf(list) ==
    /\ MayCall
    /\ file' = Header
    /\ kept' = Nothing
    /\ IF pages_per_chunk = 0 THEN Panics ELSE BeginJob("stream", list)

\* The file is there, and its header lines cannot be written.
HeaderFails ==
    /\ MayCall
    /\ file' = << >>
    /\ kept' = Nothing
    /\ result' = [how |-> "error"]
    /\ UNCHANGED job

CannotCreateFile ==
    /\ MayCall
    /\ result' = [how |-> "error"]
    /\ UNCHANGED <<file, kept, job>>

-----------------------------------------------------------------------------
Rendering == job # Nothing /\ job.done < job.chunks

Same == UNCHANGED <<pages_per_chunk, generated>>

\* The chunk in work, and the last certificate of it.
From == IF job.mode = "single" THEN 1 ELSE EndOf(job.list, job.done) + 1

To == IF job.mode = "single" THEN Len(job.list) ELSE EndOf(job.list, job.done + 1)

Progress(buffer) ==
    job' = [job EXCEPT !.done = @ + 1, !.pages = @ + PageCount(job.list, From, To),
                       !.buffer = buffer]

RenderChunk ==
    /\ Rendering /\ job.mode # "stream"
    /\ Progress(job.buffer \o Rendered(From, To))
    /\ UNCHANGED <<file, kept, result>> /\ Same

RenderIntoFile ==
    /\ Rendering /\ job.mode = "stream"
    /\ Progress(<< >>)
    /\ file' = file \o Rendered(From, To)
    /\ UNCHANGED <<kept, result>> /\ Same

\* The time is up when the next chunk is due.
TimedOut ==
    /\ Rendering
    /\ file' = LeftByTimeout
    /\ EndJob("timeout")
    /\ UNCHANGED kept /\ Same

\* What a streaming call writes next, and what the file has if that breaks off.
Due == IF Rendering THEN Rendered(From, To) ELSE EndMark

Torn == {file \o part : part \in PartsOf(Due)}

\* A write into the streamed file fails, within a chunk or at the end mark, or
\* the flush after it does.
StreamFails ==
    /\ job # Nothing /\ job.mode = "stream"
    /\ file' \in Torn
    /\ EndJob("error")
    /\ UNCHANGED kept /\ Same

AllRendered == job # Nothing /\ job.done = job.chunks

\* The buffer gets its end mark and is written in one go.
Write ==
    /\ AllRendered /\ job.mode # "stream"
    /\ file' = job.buffer \o EndMark
    /\ kept' = file'
    /\ EndJob("success") /\ Same

WriteFails ==
    /\ AllRendered /\ job.mode # "stream"
    /\ LET whole == job.buffer \o EndMark
       IN  file' \in {file} \cup (PartsOf(whole) \ {whole})
    /\ kept' = IF file' = file THEN kept ELSE Nothing
    /\ EndJob("error") /\ Same

FinishStream ==
    /\ AllRendered /\ job.mode = "stream"
    /\ file' = file \o EndMark
    /\ kept' = file'
    /\ EndJob("success") /\ Same

\* The process dies; the file is cut short within fs::write, or where the
\* streaming call was writing, its header included.
Crash ==
    /\ job # Nothing
    /\ \/ file' = file
       \/ job.mode = "stream" /\ file' \in Torn
       \/ job.mode = "stream" /\ job.done = 0 /\ file' = << >>
       \/ job.mode # "stream" /\ AllRendered /\ file' \in PartsOf(job.buffer \o EndMark)
    /\ kept' = IF file' = file THEN kept ELSE Nothing
    /\ job' = Nothing
    /\ result' = [how |-> "none"] /\ Same

CertificatesNext ==
    \/ \E list \in Lists : GeneratePdf(list) \/ GenerateStreamingPdf(list)
    \/ CannotCreateFile \/ HeaderFails \/ RenderChunk \/ RenderIntoFile \/ TimedOut \/ StreamFails
    \/ Write \/ WriteFails \/ FinishStream \/ Crash

CertificatesSpec == CertificatesInit /\ [][CertificatesNext]_certificatesVars

-----------------------------------------------------------------------------
(***************************************************************************)
(* Properties.                                                             *)
(***************************************************************************)

\* A call that reports success leaves a whole document: every certificate
\* once and in order, with the pages it reports.  A streaming call that reports
\* a timeout leaves the header and exactly the certificates whose pages it
\* reports, and no end mark.
ReportMatchesFile ==
    /\ result.how = "success" /\ job = Nothing =>
        /\ file = Document(result.list)
        /\ result.pages = EstimatedPages(result.list)
    /\ result.how = "timeout" /\ result.mode = "stream" /\ job = Nothing =>
        \E n \in 0..Len(result.list) :
            /\ file = Header \o Rendered(1, n)
            /\ result.pages = PageCount(result.list, 1, n)

\* A whole document stays in the file until a streaming call creates the file
\* anew or a write breaks off: timeouts and crashes of the batch modes, before
\* their one write, cost nothing of it.
WholeDocumentStays == kept # Nothing => file = kept

=============================================================================
