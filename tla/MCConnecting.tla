----------------------------- MODULE MCConnecting -----------------------------
EXTENDS Connecting

TCP(host, port) == <<"tcp", "://", host, ":", port>>
TCP6(host, port) == <<"tcp", "://", "[", host, "]", ":", port>>
Unix(file) == <<"unix", "://", file>>

MCTextLists ==
    {<<TCP("name", 65535), Unix("file")>>, <<TCP6("v6", 0)>>,
     <<TCP("name", 80), Unix("long")>>, <<TCP("name", 65536)>>}
=============================================================================
