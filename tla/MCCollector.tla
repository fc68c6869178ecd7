----------------------------- MODULE MCCollector -----------------------------
EXTENDS Collector

CONSTANTS Token,      \* may write evidence
          WrongToken  \* may not

MCTokens == [t \in {Token, WrongToken} |->
                [capabilities |-> IF t = Token THEN {"write_evidence"} ELSE {"generate_report"}]]

\* Two resources, one of them with a scope without spans.
MCBody == <<[resource |-> "a", scopes |-> <<<<>>, <<"chat">>>>],
            [resource |-> "b", scopes |-> <<<<"tool">>>>]>>

MCContents ==
    LET http == [via |-> "http", path |-> "/v1/traces", header |-> [scheme |-> "bearer", token |-> Token],
                 body |-> MCBody]
    IN  {http, [http EXCEPT !.body = Malformed],
         [http EXCEPT !.path = "/"], [http EXCEPT !.header.token = WrongToken],
         [http EXCEPT !.header.scheme = "basic"], [http EXCEPT !.via = "grpc"]}
=============================================================================
