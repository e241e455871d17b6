SPECIFICATION Spec
CONSTANTS
    None = None
    NavLinks = {"a"}
    Parts = {"nav", "kept", "oldest", "images", "input", "edit", "bars", "asked", "controls", "decoder", "html", "doc", "layout", "url"}
INVARIANTS
    
    ReadersChoicesAreKept
    

    
CHECK_DEADLOCK FALSE
