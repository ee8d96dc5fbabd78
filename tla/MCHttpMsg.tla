----------------------------- MODULE MCHttpMsg ------------------------------
(***************************************************************************)
(* HttpMsg for TLC: all headers with up to two of the fields below.        *)
(***************************************************************************)
EXTENDS HttpMsg, SequencesExt

Field(name, num, opts) == [colon |-> TRUE, name |-> name, num |-> num, opts |-> opts]

\* A length that is too large by one, one that is too large for a size_t by one,
\* one that is no number, the same name in two spellings, and connection options
\* of which one or none is known.
FieldChoices ==
    {[Field("Host", -1, {}) EXCEPT !.colon = FALSE], Field("Host", -1, {}),
     Field("Content-Length", MaxBody, {}), Field("content-length", 0, {}),
     Field("Content-Length", MaxBody + 1, {}), Field("Content-Length", SizeTMax + 1, {}),
     Field("Content-Length", -1, {}),
     Field("Connection", -1, {"close"}), Field("connection", -1, {"keep-alive"}),
     Field("Connection", -1, {"close", "keep-alive"}), Field("Connection", -1, {})}

MCRequests ==
    [large : {FALSE}, line : {"three parts"}, version : {"HTTP/1.0", "HTTP/1.1"},
     method : DOMAIN MethodsInfo \cup {"OPTIONS"}, target : {"/", "/index.html", "/missing"},
     fields : BoundedSeq(FieldChoices, 2)]
    \cup [large : BOOLEAN, line : {"three parts", "no space", "other"}, version : {"HTTP/1.1"},
          method : {"GET", "POST", ""}, target : {"/"}, fields : {<<>>}]
=============================================================================
