--------------------------- MODULE MCTemplateStore ---------------------------
(* Instances of TemplateStore.  gogen and apigen share the category "api". *)
EXTENDS TemplateStore

MCChain == SelectSeq(<<"gogen", "rpc", "apigen">>, LAMBDA o : o \in Owner)
MCCategoryOf == [o \in Owner |-> IF o = "rpc" THEN "rpc" ELSE "api"]
MCFiles == [o \in Owner |-> IF o = "gogen" THEN {"handler"} ELSE {"template"}]
MCFixed == [o \in Owner |-> CHOOSE n \in MCFiles[o] : TRUE]

\* kube registers two templates and reverts both to one text.
KubeChain == <<"kube">>
KubeCategoryOf == [o \in Owner |-> "kube"]
KubeFiles == [o \in Owner |-> {"deployment", "job"}]
KubeFixed == [o \in Owner |-> "deployment"]

DefaultHome == {{FALSE}}
AnyHome == {{FALSE}, {TRUE}, {FALSE, TRUE}}
=============================================================================
