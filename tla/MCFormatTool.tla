---------------------------- MODULE MCFormatTool ----------------------------
EXTENDS FormatTool

MCTexts ==
    {<< <<"syntax", "=", "string">>, <<"import", "string">>, <<"//">>, <<"info">>, << >>, <<"(">>, <<"key", "string">>, <<")">> >>,
     << <<"import", "(">>, <<"string", "//">>, <<"zero">>, <<")">>, <<"type", "ident", "=", "[", "]", "*", "ident">> >>,
     << <<"type", "ident", "{">>, <<"ident", "raw", "//">>, <<"ident">>, <<"ident", ",", "ident", "map", "[", "ident", "]", "*", "ident">>, <<"*", "ident">>, <<"}">> >>,
     << <<"type", "(">>, <<"ident", "{", "}">>, <<"ident", "{">>, <<"ident", "[", "int", "]", "any", "raw">>, <<"ident", "{">>, <<"ident", "interface{}">>, <<"}">>, <<"}">>, <<")">> >>,
     << <<"type", "ident", "{">>, <<"ident", "map", "[", "{">>, <<"}", "]", "ident">>, <<"ident", "{">>, <<"ident", "ident">>, <<"}", "raw">>, <<"}">> >>,
     << <<"service", "ident", "{">>, <<"}">> >>,
     << <<"@server", "(">>, <<"key", "ident", "/", "ident">>, <<"key", "int">>, <<")">>, <<"service", "ident", "-", "api", "{">>, <<"@handler", "ident">>, <<"get", "/">>, <<"}">> >>,
     << <<"service", "ident", "{">>, <<"@doc", "string">>, <<"@handler", "ident">>, <<"get", "/", "ident", "(", "ident", ")", "returns", "(", "[", "]", "*", "ident", ")">>, <<"}">> >>,
     << <<"service", "ident", "{">>, <<"@doc", "(">>, <<"key", "string">>, <<")">>, <<"@handler", "ident">>, <<"post", "/", ":", "ident", "-", "ident", "returns", "(", ")">>, <<"@handler", "ident", "post", "/", "(", ")">>, <<"}">> >>}

MCWords == {"ident", "zero", "percent", "*", "}", "get", "int"}
MCComments == {"//", "/*", "//%"}

=============================================================================
