CONSTANTS
    Alpha = {"f", "o", "x", "y", "func", "end", "ret", "if", "new", "do", "g", "in", "dex", "u", "case", "then", "else", "unless", "begin", "for", "let", "var", "proc", "true", "false", "when", "as", "s", "nan", "pointer", "static_array", "typeof", "class", "cast", "copy", "it", "import", "ensure", "main", "array", "string", "range"}
    Digits = {"1", "2"}
    Sources <- MCSources
SPECIFICATION Spec
INVARIANTS NeverMisread Accepts 
CHECK_DEADLOCK FALSE
