--------------------------- MODULE MCClientCache ----------------------------
(* Small instances of ClientCache. *)
EXTENDS ClientCache

Text(s)   == [type |-> "string", val |-> s]
Bool(b)   == [type |-> "bool", val |-> b]
Number(n) == [type |-> "number", val |-> n]

\* A router reached by REST, spelled in two ways that mean the same, one reached by
\* its API, and a configuration that does not convert.
Config(host, insecure, timeout) ==
  [hosturl |-> Text(host), insecure |-> insecure, rest_timeout |-> timeout]
MCRaws == {Config("r1", Text("true"), Text("59")), Config("r1", Bool("true"), Number("59")),
           Config("r2", Bool("false"), Number("59")), Config("r1", Text("maybe"), Number("59"))}
MCFieldType  == [hosturl |-> "string", insecure |-> "bool", rest_timeout |-> "int"]
MCParsedBool == [t \in {"true", "1", "false", "0"} |-> IF t \in {"true", "1"} THEN "true" ELSE "false"]
MCParsedInt  == [t \in {"59"} |-> "59"]
MCHosts == {"r1", "r2"}
MCClientAt == [r1 |-> "rest", r2 |-> "api"]
MCVersions == {"7.20", "7.21"}
MCFirst == {[r1 |-> "7.20", r2 |-> "7.21"]}
=============================================================================
