\* revert -c kube -n job.tpl.
CONSTANTS
    Owner = {"kube"}
    Category = {"kube"}
    Name = {"deployment", "job"}
    Chain <- KubeChain
    CategoryOf <- KubeCategoryOf
    Files <- KubeFiles
    Loose = {"kube"}
    Fixed <- KubeFixed
    Usage <- DefaultHome
    MaxEdited = 1
    MaxVersion = 1
    None = None
SPECIFICATION Spec
INVARIANT RevertRestores
CHECK_DEADLOCK FALSE
