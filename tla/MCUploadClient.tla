-------------------------- MODULE MCUploadClient ---------------------------
EXTENDS UploadClient

Uploads(kinds, chunks, widths, known, budget) ==
  [kind : kinds, chunks : chunks, width : widths, known : known, faults : {budget},
   size : {1}, last : {1}, cap : {1}, hard : {FALSE}, format : {"none"}]

\* Three faults end a request's retries; three chunks fill every channel.
Plain ==
  Uploads(Kinds, 0 .. 1, {1}, BOOLEAN, 3) \union Uploads(Kinds, {2}, 1 .. 2, {FALSE}, 3)
    \union Uploads(Kinds, {3}, 1 .. 2, {FALSE}, 1)

\* Chunks above the server's limit, all of them or all but the last, and
\* streams announced as zstd.
Long ==
  {[u EXCEPT !.size = 2, !.last = last, !.hard = hard] :
     u \in Uploads(Kinds, 1 .. 2, 1 .. 2, {FALSE}, 1), last \in 1 .. 2, hard \in BOOLEAN}
Compressed ==
  {[u EXCEPT !.format = "zstd"] :
     u \in Uploads(Kinds \ {"cli_bytes"}, 0 .. 2, {1}, {FALSE}, 1)}

MCSetups == Plain \union Long \union Compressed
=============================================================================
