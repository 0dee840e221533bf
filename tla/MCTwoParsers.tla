---------------------------- MODULE MCTwoParsers ----------------------------
EXTENDS TwoParsers

MCTexts ==
    {<< <<"syntax", "=", "string">>, <<"import", "string">>, <<"info", "(">>, <<"key", "string">>, <<")">> >>,
     << <<"import", "(">>, <<"string">>, <<"string", ")">>, <<"type", "(">>, <<"ident", "{">>, <<"ident", "[", "]", "ident">>, <<"}">>, <<"ident", "{", "}">>, <<")">> >>,
     << <<"type", "ident", "{">>, <<"ident", "ident", "raw">>, <<"ident">>, <<"*", "ident">>, <<"ident", "map", "[", "ident", "]", "*", "ident">>, <<"}">> >>,
     << <<"service", "ident", "-", "api", "{">>, <<"}">> >>,
     << <<"@server", "(">>, <<"key", "ident", "/", "ident">>, <<"key", "int">>, <<")">>, <<"service", "ident", "-", "api", "{">>, <<"@handler", "ident">>, <<"get", "/">>, <<"}">> >>,
     << <<"service", "ident", "{">>, <<"@doc", "string">>, <<"@handler", "ident">>, <<"get", "/", "ident", "(", "ident", ")", "returns", "(", "[", "]", "*", "ident", ")">>, <<"}">> >>,
     << <<"service", "ident", "{">>, <<"@doc", "(">>, <<"key", "string">>, <<")">>, <<"@handler", "ident">>, <<"post", "/", ":", "ident", "-", "ident", "/", "int", "returns", "(", "ident", ")">>, <<"@handler", "ident">>, <<"post", "/">>, <<"}">> >>}

MCWords == {"ident", "zero", "percent", "*", "}", "get", "duration", ",", ":", "/", "type"}
MCComments == {"//", "/*", "//%"}

=============================================================================
